--------------------------- MODULE ChatClientProofs ---------------------------
(***************************************************************************)
(* Proofs about ChatClient: its types, that the rows follow User_list, that *)
(* messages are shown in order, and that User_list follows the server when  *)
(* one message at a time is under way.                                      *)
(***************************************************************************)
EXTENDS ChatClient, SequenceTheorems, FiniteSetTheorems, WellFoundedInduction, TLAPS

\* A set of naturals that is not empty has a least element.
LEMMA LeastExists ==
  ASSUME NEW I, I \subseteq Nat, I # {}
  PROVE  Min(I) \in I /\ \A k \in I : Min(I) <= k
<1>1. \E x \in I : \A y \in I : ~ (<<y, x>> \in OpToRel(<, Nat))
  BY WFMin, NatLessThanWellFounded
<1>2. PICK x \in I : \A y \in I : ~ (<<y, x>> \in OpToRel(<, Nat))
  BY <1>1
<1>3. \A y \in I : ~(y < x)
  BY <1>2 DEF OpToRel
<1>4. \A y \in I : x <= y
  BY <1>3
<1> QED
  BY <1>4 DEF Min

\* indexOf() is -1 for what is not in the list, otherwise where it is.
LEMMA IndexOfIs ==
  ASSUME NEW u, NEW S, users \in Seq(S)
  PROVE  /\ IndexOf(u) \in -1..(Len(users) - 1)
         /\ IndexOf(u) >= 0 => u # Garbled /\ users[IndexOf(u) + 1] = u
         /\ IndexOf(u) < 0 /\ u # Garbled => \A k \in 1..Len(users) : users[k] # u
<1> DEFINE I == {k \in 1..Len(users) : users[k] = u}
<1>0. Len(users) \in Nat
  BY LenProperties
<1>1. I \subseteq Nat
  BY <1>0
<1>2. SelectInSeq(users, LAMBDA x : x = u) = IF I # {} THEN Min(I) ELSE 0
  BY DEF SelectInSeq
<1>3. CASE u = Garbled
  BY <1>0, <1>3 DEF IndexOf
<1>4. CASE u # Garbled /\ I = {}
  <2>1. IndexOf(u) = -1
    BY <1>2, <1>4 DEF IndexOf
  <2> QED
    BY <2>1, <1>0, <1>4
<1>5. CASE u # Garbled /\ I # {}
  <2> HIDE DEF I
  <2>1. Min(I) \in I
    BY <1>1, <1>5, LeastExists
  <2>2. IndexOf(u) = Min(I) - 1
    BY <1>2, <1>5 DEF IndexOf
  <2>3. Min(I) \in 1..Len(users) /\ users[Min(I)] = u
    BY <2>1 DEF I
  <2> QED
    BY <2>2, <2>3, <1>0, <1>5
<1> QED
  BY <1>3, <1>4, <1>5

\* What append() takes is a prefix, and not an empty one.
LEMMA UpToNulIsPrefix ==
  ASSUME NEW S, NEW s \in Seq(S)
  PROVE  \E j \in 0..Len(s) : UpToNul(s) = SubSeq(s, 1, j) /\ (s # <<>> => j > 0)
<1> DEFINE I == {k \in 1..Len(s) : s[k].kind = "group"}
<1>0. Len(s) \in Nat
  BY LenProperties
<1>1. I \subseteq Nat
  BY <1>0
<1>2. SelectInSeq(s, LAMBDA m : m.kind = "group") = IF I # {} THEN Min(I) ELSE 0
  BY DEF SelectInSeq
<1>3. CASE I = {}
  <2>1. UpToNul(s) = SubSeq(s, 1, Len(s))
    BY <1>2, <1>3, SubSeqFull DEF UpToNul
  <2> QED
    BY <2>1, <1>0, EmptySeq
<1>4. CASE I # {}
  <2> HIDE DEF I
  <2>1. Min(I) \in I
    BY <1>1, <1>4, LeastExists
  <2>2. Min(I) \in 1..Len(s)
    BY <2>1 DEF I
  <2>3. UpToNul(s) = SubSeq(s, 1, Min(I))
    BY <1>2, <1>4, <2>2, <1>0 DEF UpToNul
  <2> QED
    BY <2>2, <2>3, <1>0
<1> QED
  BY <1>3, <1>4

\* What the first k elements of a sequence are.
LEMMA FrontIs ==
  ASSUME NEW S, NEW s \in Seq(S)
  PROVE  \A k \in 0..Len(s) :
           /\ SubSeq(s, 1, k) \in Seq(S)
           /\ Len(SubSeq(s, 1, k)) = k
           /\ \A i \in 1..k : SubSeq(s, 1, k)[i] = s[i]
<1> SUFFICES ASSUME NEW k \in 0..Len(s)
             PROVE  /\ SubSeq(s, 1, k) \in Seq(S)
                    /\ Len(SubSeq(s, 1, k)) = k
                    /\ \A i \in 1..k : SubSeq(s, 1, k)[i] = s[i]
  OBVIOUS
<1>0. Len(s) \in Nat /\ k \in 0..Len(s)
  BY LenProperties
<1>1. \A i \in 1..k : s[i] \in S
  BY <1>0, ElementOfSeq
<1>2. 1 \in Int /\ k \in Int
  BY <1>0
<1> QED
  BY <1>0, <1>1, <1>2, SubSeqProperties

\* What is left behind the first k elements.
LEMMA RestIs ==
  ASSUME NEW S, NEW s \in Seq(S), NEW k \in 0..Len(s)
  PROVE  /\ SubSeq(s, k + 1, Len(s)) \in Seq(S)
         /\ Len(SubSeq(s, k + 1, Len(s))) = Len(s) - k
         /\ \A i \in 1..(Len(s) - k) : SubSeq(s, k + 1, Len(s))[i] = s[i + k]
<1> DEFINE b == SubSeq(s, k + 1, Len(s))
<1>0. Len(s) \in Nat /\ k \in 0..Len(s)
  BY LenProperties
<1>1. \A i \in (k + 1)..Len(s) : s[i] \in S
  BY <1>0, ElementOfSeq
<1>2. k + 1 \in Int /\ Len(s) \in Int
  BY <1>0
<1>3. /\ b \in Seq(S) /\ Len(b) = IF k + 1 <= Len(s) THEN Len(s) - (k + 1) + 1 ELSE 0
      /\ \A i \in 1..(Len(s) - (k + 1) + 1) : b[i] = s[(k + 1) + i - 1]
  BY <1>1, <1>2, SubSeqProperties
<1> QED
  BY <1>0, <1>3

\* removeAt() moves what is behind the element one place down.
LEMMA RemoveAtIs ==
  ASSUME NEW S, NEW s \in Seq(S), NEW i \in 1..Len(s)
  PROVE  /\ RemoveAt(s, i) \in Seq(S)
         /\ Len(RemoveAt(s, i)) = Len(s) - 1
         /\ \A k \in 1..(Len(s) - 1) :
              RemoveAt(s, i)[k] = IF k < i THEN s[k] ELSE s[k + 1]
<1> DEFINE a == SubSeq(s, 1, i - 1)
           b == SubSeq(s, i + 1, Len(s))
<1>0. Len(s) \in Nat /\ i \in 1..Len(s)
  BY LenProperties
<1>1. /\ a \in Seq(S) /\ Len(a) = i - 1
      /\ \A k \in 1..(i - 1) : a[k] = s[k]
  <2>1. i - 1 \in 0..Len(s)
    BY <1>0
  <2> QED
    BY <2>1, FrontIs
<1>2. /\ b \in Seq(S) /\ Len(b) = Len(s) - i
      /\ \A k \in 1..(Len(s) - i) : b[k] = s[k + i]
  BY <1>0, RestIs
<1>3. RemoveAt(s, i) = a \o b
  BY DEF RemoveAt
<1> HIDE DEF a, b
<1>4. /\ a \o b \in Seq(S)
      /\ Len(a \o b) = Len(a) + Len(b)
      /\ \A k \in 1..(Len(a) + Len(b)) :
           (a \o b)[k] = IF k <= Len(a) THEN a[k] ELSE b[k - Len(a)]
  BY <1>1, <1>2, ConcatProperties
<1> QED
  BY <1>0, <1>1, <1>2, <1>3, <1>4

\* To remove a row behind the first one is to remove it from the rest.
LEMMA RemoveBehind ==
  ASSUME NEW S, NEW g \in S, NEW s \in Seq(S), NEW i \in 1..Len(s)
  PROVE  RemoveAt(<<g>> \o s, i + 1) = <<g>> \o RemoveAt(s, i)
<1> DEFINE t == <<g>> \o s
           r == RemoveAt(s, i)
<1>0. Len(s) \in Nat /\ i \in 1..Len(s)
  BY LenProperties
<1>1. <<g>> \in Seq(S) /\ Len(<<g>>) = 1 /\ <<g>>[1] = g
  OBVIOUS
<1>2. /\ t \in Seq(S) /\ Len(t) = Len(s) + 1
      /\ \A k \in 1..(Len(s) + 1) : t[k] = IF k <= 1 THEN g ELSE s[k - 1]
  BY <1>0, <1>1, ConcatProperties
<1>3. /\ r \in Seq(S) /\ Len(r) = Len(s) - 1
      /\ \A k \in 1..(Len(s) - 1) : r[k] = IF k < i THEN s[k] ELSE s[k + 1]
  BY <1>0, RemoveAtIs
<1>4. /\ <<g>> \o r \in Seq(S) /\ Len(<<g>> \o r) = Len(s)
      /\ \A k \in 1..Len(s) : (<<g>> \o r)[k] = IF k <= 1 THEN g ELSE r[k - 1]
  <2> HIDE DEF r
  <2> QED
    BY <1>0, <1>1, <1>3, ConcatProperties
<1>5. /\ RemoveAt(t, i + 1) \in Seq(S) /\ Len(RemoveAt(t, i + 1)) = Len(s)
      /\ \A k \in 1..Len(s) :
           RemoveAt(t, i + 1)[k] = IF k < i + 1 THEN t[k] ELSE t[k + 1]
  <2> HIDE DEF t
  <2>1. i + 1 \in 1..Len(t)
    BY <1>0, <1>2
  <2>2. \A j \in 1..Len(t) :
          /\ RemoveAt(t, j) \in Seq(S) /\ Len(RemoveAt(t, j)) = Len(t) - 1
          /\ \A k \in 1..(Len(t) - 1) :
               RemoveAt(t, j)[k] = IF k < j THEN t[k] ELSE t[k + 1]
    BY <1>2, RemoveAtIs
  <2>3. Len(t) - 1 = Len(s)
    BY <1>0, <1>2
  <2> QED
    BY <2>1, <2>2, <2>3
<1> HIDE DEF t, r
<1>6. \A k \in 1..Len(s) : RemoveAt(t, i + 1)[k] = (<<g>> \o r)[k]
  <2> SUFFICES ASSUME NEW k \in 1..Len(s)
               PROVE  RemoveAt(t, i + 1)[k] = (<<g>> \o r)[k]
    OBVIOUS
  <2>0. k \in Nat /\ i \in Nat /\ (k = 1 \/ k > 1)
    BY <1>0
  <2>1. RemoveAt(t, i + 1)[k] = IF k < i + 1 THEN t[k] ELSE t[k + 1]
    BY <1>5
  <2>2. (<<g>> \o r)[k] = IF k <= 1 THEN g ELSE r[k - 1]
    BY <1>4
  <2>3. t[k] = (IF k <= 1 THEN g ELSE s[k - 1]) /\ t[k + 1] = s[k]
    BY <1>0, <1>2
  <2>4. CASE k = 1
    BY <1>0, <2>1, <2>2, <2>3, <2>4
  <2>5. CASE k > 1
    <3>1. r[k - 1] = IF k - 1 < i THEN s[k - 1] ELSE s[k]
      BY <1>0, <1>3, <2>5
    <3>2. t[k] = s[k - 1] /\ (<<g>> \o r)[k] = r[k - 1]
      <4>1. ~(k <= 1)
        BY <2>0, <2>5
      <4> QED
        BY <4>1, <2>2, <2>3, Zenon
    <3>3. k < i + 1 <=> k - 1 < i
      BY <2>0
    <3> QED
      BY <2>1, <2>3, <3>1, <3>2, <3>3, Zenon
  <2> QED
    BY <2>0, <2>4, <2>5, Zenon
<1>7. RemoveAt(t, i + 1) = <<g>> \o r
  BY <1>4, <1>5, <1>6, SeqEqual
<1> QED
  BY <1>7 DEF t, r

\* A finite set as a sequence: each element once.
LEMMA SetToSeqIs ==
  ASSUME NEW S, IsFiniteSet(S)
  PROVE  /\ SetToSeq(S) \in Seq(S)
         /\ \A i, j \in 1..Len(SetToSeq(S)) : SetToSeq(S)[i] = SetToSeq(S)[j] => i = j
         /\ \A u \in S : \E i \in 1..Len(SetToSeq(S)) : SetToSeq(S)[i] = u
<1> DEFINE n == Cardinality(S)
           q == SetToSeq(S)
<1>1. n \in Nat /\ ExistsBijection(1..n, S)
  BY FS_CardinalityType
<1>2. \E f \in [1..n -> S] : IsInjective(f)
  BY <1>1 DEF ExistsBijection, Bijection, Injection
<1>3. q \in [1..n -> S] /\ IsInjective(q)
  BY <1>2 DEF SetToSeq
<1> HIDE DEF q, n
<1>4. q \in Seq(S) /\ Len(q) = n
  BY <1>1, <1>3
<1>5. \A i, j \in 1..n : q[i] = q[j] => i = j
  BY <1>3 DEF IsInjective
<1>6. q \in Injection(1..n, S)
  BY <1>3, <1>5 DEF Injection
<1>7. IsFiniteSet(1..n) /\ Cardinality(1..n) = n
  <2>1. 1 \in Int /\ n \in Int
    BY <1>1
  <2> QED
    BY <1>1, <2>1, FS_Interval
<1>8. q \in Surjection(1..n, S)
  BY <1>6, <1>7, FS_Injection DEF n
<1>9. \A u \in S : \E i \in 1..n : q[i] = u
  BY <1>8 DEF Surjection
<1> QED
  BY <1>4, <1>5, <1>9 DEF q

-----------------------------------------------------------------------------
\* Who may be in the list the server sends, in User_list, and in a row.
Members == {Self} \cup Others
Names == {Self, Garbled} \cup Others
RowNames == {Self, Garbled, Group} \cup Others
\* The values of main and of link.
Mains == {"form", "list", "started", "loop", "flushing", "closed", "dead"}
Links == {"none", "failed", "asked", "open", "closed", "reset"}

\* TypeOK with its sets named; every flush() that is queued or will be was
\* caused by a message the server sent.
TypeInv ==
  /\ list \in Seq(Members) /\ wire \in Seq(Messages) /\ content \in Seq(Messages)
  /\ link \in Links
  /\ paced \in BOOLEAN /\ count \in 0..MaxMsgs /\ online \subseteq Others
  /\ users \in Seq(Names) /\ rows \in Seq(RowNames)
  /\ shown \in Seq(1..MaxMsgs) /\ unknown \in BOOLEAN
  /\ flushes \in 0..MaxMsgs /\ unheard \in BOOLEAN
  /\ main \in Mains
  /\ recv \in {"none", "recv", "ended"}
  /\ flushes + Len(wire) <= count

\* The types are those of TypeOK.
LEMMA TypeMeans == TypeInv => TypeOK
BY Zenon DEF TypeInv, TypeOK, Members, Names, RowNames, Mains, Links

\* They hold at the start.
LEMMA TypeInit == Init => TypeInv
<1> SUFFICES ASSUME Init PROVE TypeInv
  OBVIOUS
<1>1. paced \in BOOLEAN
  BY ModeAssumption DEF Init
<1>2. 0 \in 0..MaxMsgs
  BY BoundAssumption
<1>3. \A S : <<>> \in Seq(S)
  BY EmptySeq
<1>4. flushes + Len(wire) <= count
  BY DEF Init
<1> QED
  BY <1>1, <1>2, <1>3, <1>4 DEF Init, Mains, Links, TypeInv

\* The server keeps the types.
LEMMA TypeServer ==
  ASSUME TypeInv, ServerAnswer \/ ServerSend \/ ServerClose
  PROVE  TypeInv'
<1> USE BoundAssumption
<1>0. Len(wire) \in Nat /\ count \in Nat /\ flushes \in Nat
  BY LenProperties DEF TypeInv
<1>1. CASE ServerAnswer
  <2>1. online' \subseteq Others /\ IsFiniteSet(online')
    BY <1>1, OthersAssumption, FS_Subset DEF ServerAnswer
  <2>2. PICK taken \in {<<>>, <<Self>>} :
          list' = taken \o SetToSeq(online') \o <<Self>>
    BY <1>1 DEF ServerAnswer
  <2>3. SetToSeq(online') \in Seq(Members)
    <3>1. SetToSeq(online') \in Seq(online')
      BY <2>1, SetToSeqIs
    <3>2. online' \subseteq Members
      BY <2>1 DEF Members
    <3> QED
      BY <3>1, <3>2, SeqMonotonic
  <2>4. taken \in Seq(Members) /\ <<Self>> \in Seq(Members)
    <3>1. <<Self>> \in Seq(Members)
      BY DEF Members
    <3>2. <<>> \in Seq(Members)
      BY EmptySeq
    <3> QED
      BY <2>2, <3>1, <3>2
  <2>5. list' \in Seq(Members)
    BY <2>2, <2>3, <2>4, ConcatProperties
  <2>6. link' \in Links
    BY <1>1 DEF ServerAnswer, Links
  <2> QED
    BY <1>1, <2>1, <2>5, <2>6 DEF ServerAnswer, server, window, inbox, TypeInv
<1>2. CASE ServerSend
  <2>1. PICK u \in Others, k \in Kinds :
          /\ wire' = Append(wire, [kind |-> k, user |-> u, n |-> count + 1])
          /\ online' = CASE k = "joined" -> online \cup {u}
                         [] k = "left" -> online \ {u}
                         [] OTHER -> online
    BY <1>2 DEF ServerSend
  <2>2. count + 1 \in 1..MaxMsgs /\ count' = count + 1
    BY <1>0, <1>2 DEF ServerSend
  <2>3. [kind |-> k, user |-> u, n |-> count + 1] \in Messages
    BY <2>2 DEF Messages
  <2>4. wire' \in Seq(Messages) /\ Len(wire') = Len(wire) + 1
    BY <2>1, <2>3, AppendProperties DEF TypeInv
  <2>5. online' \subseteq Others
    BY <2>1 DEF TypeInv
  <2>6. flushes' = flushes /\ flushes' + Len(wire') <= count' /\ count' \in 0..MaxMsgs
    BY <1>0, <1>2, <2>2, <2>4 DEF ServerSend, inbox, TypeInv
  <2> QED
    BY <1>2, <2>4, <2>5, <2>6 DEF ServerSend, window, inbox, TypeInv
<1>3. CASE ServerClose
  BY <1>3 DEF ServerClose, server, window, inbox, Links, TypeInv
<1> QED
  BY <1>1, <1>2, <1>3

\* What the first recv() leaves and makes of the list.
LEMMA ReceiveListIs ==
  ASSUME TypeInv, ReceiveList
  PROVE  /\ wire' \in Seq(Messages) /\ Len(wire') <= Len(wire)
         /\ users' \in Seq(Names)
<1>0. Len(wire) \in Nat
  BY LenProperties DEF TypeInv
<1>1. CASE wire' = <<>> /\ users' = <<>>
  BY <1>0, <1>1, EmptySeq
<1>2. CASE \E k \in 0..Len(wire) :
             /\ wire' = SubSeq(wire, k + 1, Len(wire))
             /\ users' = list \o (IF k > 0 THEN <<Garbled>> ELSE <<>>)
  <2>1. PICK k \in 0..Len(wire) :
             /\ wire' = SubSeq(wire, k + 1, Len(wire))
             /\ users' = list \o (IF k > 0 THEN <<Garbled>> ELSE <<>>)
    BY <1>2
  <2>2. wire' \in Seq(Messages) /\ Len(wire') = Len(wire) - k
    BY <2>1, RestIs DEF TypeInv
  <2>3. list \in Seq(Names)
    <3>1. list \in Seq(Members) /\ Members \subseteq Names
      BY DEF Members, Names, TypeInv
    <3> QED
      BY <3>1, SeqMonotonic
  <2>4. <<Garbled>> \in Seq(Names) /\ <<>> \in Seq(Names)
    BY DEF Names
  <2>5. users' \in Seq(Names)
    BY <2>1, <2>3, <2>4, ConcatProperties
  <2> QED
    BY <1>0, <2>2, <2>5
<1> QED
  BY <1>1, <1>2 DEF ReceiveList

\* The window's thread keeps the types.
LEMMA TypeWindow ==
  ASSUME TypeInv, LoginSuccess \/ WindowStep
  PROVE  TypeInv'
<1> USE BoundAssumption
<1>0. Len(wire) \in Nat /\ count \in Nat /\ flushes \in Nat
  BY LenProperties DEF TypeInv
<1>1. CASE LoginSuccess
  BY <1>1 DEF LoginSuccess, Connect, server, window, inbox, Links, Mains, TypeInv
<1>2. CASE ReciveLogin
  <2>1. /\ wire' \in Seq(Messages) /\ Len(wire') <= Len(wire)
        /\ users' \in Seq(Names)
    BY <1>2, ReceiveListIs DEF ReciveLogin
  <2>2. list' \in Seq(Members)
    BY <1>2, EmptySeq DEF ReciveLogin
  <2>3. rows' \in Seq(RowNames)
    <3>1. users' \in Seq(RowNames)
      <4>1. Names \subseteq RowNames
        BY DEF Names, RowNames
      <4> QED
        BY <2>1, <4>1, SeqMonotonic
    <3>2. <<Group>> \in Seq(RowNames)
      BY DEF RowNames
    <3>3. <<Group>> \o users' \in Seq(RowNames)
      BY <3>1, <3>2, ConcatProperties
    <3> QED
      BY <1>2, <3>3 DEF ReciveLogin, TypeInv
  <2>4. main' \in Mains /\ recv' \in {"none", "recv", "ended"}
    BY <1>2 DEF ReciveLogin, Mains, TypeInv
  <2>5. flushes' = flushes /\ count' = count /\ flushes' + Len(wire') <= count'
    <3>1. Len(wire') \in Nat
      BY <2>1, LenProperties
    <3>2. flushes' = flushes /\ count' = count
      BY <1>2 DEF ReciveLogin, server, inbox
    <3> QED
      BY <1>0, <2>1, <3>1, <3>2 DEF TypeInv
  <2> QED
    BY <1>2, <2>1, <2>2, <2>3, <2>4, <2>5 DEF ReciveLogin, server, inbox, TypeInv
<1>3. CASE Flush
  <2>1. /\ users' \in Seq(Names) /\ rows' \in Seq(RowNames)
        /\ shown' \in Seq(1..MaxMsgs) /\ unknown' \in BOOLEAN
    <3>1. CASE content = <<>> /\ UNCHANGED window
      BY <3>1 DEF window, inbox, TypeInv
    <3>2. CASE /\ content # <<>>
               /\ shown' = Append(shown, Head(content).n)
               /\ CASE Head(content).kind = "joined" -> UserJoined(TreatedName)
                    [] Head(content).kind = "left" -> UserLeft(TreatedName)
                    [] OTHER -> UNCHANGED <<users, rows, unknown>>
      <4>0. content \in Seq(Messages)
        BY DEF TypeInv
      <4>1. Head(content) \in Messages
        BY <3>2, <4>0, HeadTailProperties
      <4>2. shown' \in Seq(1..MaxMsgs)
        <5>1. Head(content).n \in 1..MaxMsgs
          BY <4>1 DEF Messages
        <5> QED
          BY <3>2, <5>1, AppendProperties DEF TypeInv
      <4>3. TreatedName \in {Garbled} \cup Others
        <5>1. Len(content) \in Nat \ {0}
          BY <3>2, <4>0, EmptySeq
        <5>2. content[1] \in Messages
          BY <4>0, <5>1, ElementOfSeq
        <5> QED
          BY <5>2 DEF TreatedName, Messages
      <4>4. CASE UserJoined(TreatedName)
        <5>1. TreatedName \in Names /\ TreatedName \in RowNames
          BY <4>3 DEF Names, RowNames
        <5>2. users' \in Seq(Names) /\ rows' \in Seq(RowNames)
          BY <4>4, <5>1, AppendProperties DEF UserJoined, TypeInv
        <5> QED
          BY <4>2, <4>4, <5>2 DEF UserJoined, TypeInv
      <4>5. CASE UserLeft(TreatedName)
        <5> DEFINE u == TreatedName
        <5>0. Len(users) \in Nat /\ Len(rows) \in Nat /\ DOMAIN rows = 1..Len(rows)
          BY LenProperties DEF TypeInv
        <5>1. IndexOf(u) \in -1..(Len(users) - 1)
          BY IndexOfIs DEF TypeInv
        <5>2. Removed(u) \in Seq(Names)
          <6> HIDE DEF u
          <6>1. \A i \in 1..Len(users) : RemoveAt(users, i) \in Seq(Names)
            BY RemoveAtIs DEF TypeInv
          <6>2. IndexOf(u) >= 0 => IndexOf(u) + 1 \in 1..Len(users)
            BY <5>0, <5>1
          <6>3. ~(IndexOf(u) < 0) => IndexOf(u) + 1 \in 1..Len(users)
            BY <5>0, <5>1, <6>2
          <6> QED
            BY <6>1, <6>3, Zenon DEF Removed, TypeInv
        <5>3. TakeItem(RowOf(u)) \in Seq(RowNames)
          <6> HIDE DEF u
          <6>1. \A i \in 1..Len(rows) : RemoveAt(rows, i) \in Seq(RowNames)
            BY RemoveAtIs DEF TypeInv
          <6> QED
            BY <5>0, <6>1, Zenon DEF TakeItem, TypeInv
        <5>4. unknown' \in BOOLEAN
          BY <4>5 DEF UserLeft, TypeInv
        <5> QED
          BY <4>2, <4>5, <5>2, <5>3, <5>4 DEF UserLeft
      <4> QED
        BY <3>2, <4>2, <4>4, <4>5 DEF TypeInv
    <3> QED
      BY <1>3, <3>1, <3>2 DEF Flush
  <2>2. flushes' \in 0..MaxMsgs /\ flushes' + Len(wire') <= count'
    BY <1>0, <1>3 DEF Flush, server, TypeInv
  <2>3. main' \in Mains
    BY <1>3 DEF Flush, Mains
  <2> QED
    BY <1>3, <2>1, <2>2, <2>3 DEF Flush, server, TypeInv
<1>4. CASE FlushClear
  <2>1. content' \in Seq(Messages)
    BY <1>4, EmptySeq DEF FlushClear, Cleared
  <2> QED
    BY <1>4, <2>1 DEF FlushClear, server, window, inbox, Mains, TypeInv
<1>5. CASE ConnectFlush
  BY <1>5 DEF ConnectFlush, server, window, inbox, Mains, TypeInv
<1> QED
  BY <1>1, <1>2, <1>3, <1>4, <1>5 DEF WindowStep

\* One recv() takes k messages, of which append() keeps the first j.
LEMMA RecvSomeIs ==
  ASSUME TypeInv, RecvSome
  PROVE  \E k \in 1..Len(wire), j \in 1..Len(wire) :
           /\ j <= k
           /\ content' = content \o SubSeq(wire, 1, j)
           /\ wire' = SubSeq(wire, k + 1, Len(wire))
<1>0. wire \in Seq(Messages) /\ Len(wire) \in Nat
  BY LenProperties DEF TypeInv
<1>1. PICK k \in 1..Len(wire) :
         /\ content' = content \o UpToNul(SubSeq(wire, 1, k))
         /\ wire' = SubSeq(wire, k + 1, Len(wire))
  BY DEF RecvSome
<1> DEFINE s == SubSeq(wire, 1, k)
<1>2. k \in 0..Len(wire)
  BY <1>0
<1>3. s \in Seq(Messages) /\ Len(s) = k /\ \A i \in 1..k : s[i] = wire[i]
  BY <1>0, <1>2, FrontIs
<1> HIDE DEF s
<1>4. s # <<>>
  BY <1>0, <1>3
<1>5. PICK j \in 0..Len(s) : UpToNul(s) = SubSeq(s, 1, j) /\ j > 0
  BY <1>3, <1>4, UpToNulIsPrefix
<1>6. j \in 1..k /\ j \in 1..Len(wire) /\ j \in 0..Len(wire)
  BY <1>0, <1>3, <1>5
<1>7. /\ SubSeq(s, 1, j) \in Seq(Messages) /\ Len(SubSeq(s, 1, j)) = j
      /\ \A i \in 1..j : SubSeq(s, 1, j)[i] = s[i]
  BY <1>3, <1>5, FrontIs
<1>8. /\ SubSeq(wire, 1, j) \in Seq(Messages) /\ Len(SubSeq(wire, 1, j)) = j
      /\ \A i \in 1..j : SubSeq(wire, 1, j)[i] = wire[i]
  BY <1>0, <1>6, FrontIs
<1>9. SubSeq(s, 1, j) = SubSeq(wire, 1, j)
  <2> DEFINE a == SubSeq(s, 1, j)
             b == SubSeq(wire, 1, j)
  <2>1. \A i \in 1..j : a[i] = b[i]
    BY <1>0, <1>3, <1>6, <1>7, <1>8
  <2>2. a \in Seq(Messages) /\ b \in Seq(Messages) /\ Len(a) = j /\ Len(b) = j
    BY <1>7, <1>8
  <2> HIDE DEF a, b
  <2>3. a = b
    BY <2>1, <2>2, SeqEqual
  <2> QED
    BY <2>3 DEF a, b
<1>10. content' = content \o UpToNul(s)
  BY <1>1 DEF s
<1>11. content' = content \o SubSeq(wire, 1, j)
  BY <1>5, <1>9, <1>10
<1>12. j <= k
  BY <1>0, <1>6
<1> QED
  BY <1>1, <1>6, <1>11, <1>12

\* The RecvThread, a race and the end keep the types.
LEMMA TypeRecv ==
  ASSUME TypeInv, RecvStep \/ Race \/ Idle \/ UNCHANGED vars
  PROVE  TypeInv'
<1> USE BoundAssumption
<1>0. Len(wire) \in Nat /\ count \in Nat /\ flushes \in Nat
  BY LenProperties DEF TypeInv
<1>1. CASE RecvSome
  <2>1. PICK k \in 1..Len(wire), j \in 1..Len(wire) :
           /\ j <= k
           /\ content' = content \o SubSeq(wire, 1, j)
           /\ wire' = SubSeq(wire, k + 1, Len(wire))
    BY <1>1, RecvSomeIs
  <2>2. j \in 0..Len(wire) /\ k \in 0..Len(wire)
    BY <1>0
  <2>3. SubSeq(wire, 1, j) \in Seq(Messages)
    BY <2>2, FrontIs DEF TypeInv
  <2>4. content' \in Seq(Messages)
    BY <2>1, <2>3, ConcatProperties DEF TypeInv
  <2>5. wire' \in Seq(Messages) /\ Len(wire') = Len(wire) - k
    BY <2>1, <2>2, RestIs DEF TypeInv
  <2>6. flushes' \in {flushes, flushes + 1} /\ unheard' \in BOOLEAN /\ count' = count
    BY <1>1 DEF RecvSome, Emit, server
  <2>7. flushes' \in 0..MaxMsgs /\ flushes' + Len(wire') <= count'
    BY <1>0, <2>5, <2>6 DEF TypeInv
  <2> QED
    BY <1>1, <2>4, <2>5, <2>6, <2>7 DEF RecvSome, server, window, inbox, TypeInv
<1>2. CASE RecvError
  <2>1. wire' \in Seq(Messages) /\ Len(wire') = 0
    BY <1>2, EmptySeq DEF RecvError
  <2>2. flushes' + Len(wire') <= count'
    BY <1>0, <1>2, <2>1 DEF RecvError, server, inbox, TypeInv
  <2> QED
    BY <1>2, <2>1, <2>2 DEF RecvError, server, window, inbox, TypeInv
<1>3. CASE Race
  BY <1>3 DEF Race, server, window, inbox, Mains, TypeInv
<1>4. CASE UNCHANGED vars
  BY <1>4 DEF vars, server, window, inbox, TypeInv
<1> QED
  BY <1>1, <1>2, <1>3, <1>4 DEF RecvStep, RecvNothing, Idle

\* Every step keeps the types.
LEMMA TypeStep == TypeInv /\ [Next]_vars => TypeInv'
BY TypeServer, TypeWindow, TypeRecv DEF Next

-----------------------------------------------------------------------------
\* The two lists agree as long as every exit shown was that of a known user.
RowsKept ==
  main \in {"started", "loop", "flushing"} /\ ~unknown => rows = <<Group>> \o users

\* There are no rows and no users at the start.
LEMMA RowsInit == Init => RowsKept
BY DEF Init, RowsKept

\* Flush_Ui() changes both lists at the same place.
LEMMA RowsFlush ==
  ASSUME TypeInv, RowsKept, Flush
  PROVE  RowsKept'
<1> DEFINE u == TreatedName
<1>1. SUFFICES ASSUME ~unknown'
               PROVE  rows' = <<Group>> \o users'
  BY DEF RowsKept
<1>2. users \in Seq(RowNames) /\ Group \in RowNames
  <2>1. Names \subseteq RowNames /\ Group \in RowNames
    BY DEF Names, RowNames
  <2>2. users \in Seq(Names)
    BY DEF TypeInv
  <2> QED
    BY <2>1, <2>2, SeqMonotonic
<1>3. CASE UNCHANGED <<users, rows, unknown>>
  BY <1>1, <1>3 DEF RowsKept, Flush
<1>4. CASE content # <<>> /\ UserJoined(u)
  <2>0. content \in Seq(Messages)
    BY DEF TypeInv
  <2>1. Len(content) \in Nat \ {0}
    BY <1>4, <2>0, EmptySeq
  <2>2. content[1] \in Messages
    BY <2>0, <2>1, ElementOfSeq
  <2>3. u \in RowNames
    BY <2>2 DEF TreatedName, Messages, RowNames
  <2> HIDE DEF u
  <2>4. rows = <<Group>> \o users
    BY <1>1, <1>4 DEF UserJoined, RowsKept, Flush
  <2>5. <<Group>> \in Seq(RowNames) /\ <<u>> \in Seq(RowNames)
    BY <1>2, <2>3
  <2>6. rows \in Seq(RowNames)
    BY DEF TypeInv
  <2>7. rows' = rows \o <<u>> /\ users' = users \o <<u>>
    BY <1>2, <1>4, <2>3, <2>6, AppendIsConcat DEF UserJoined
  <2> QED
    BY <1>2, <2>4, <2>5, <2>7, ConcatAssociative
<1>5. CASE UserLeft(u)
  <2> HIDE DEF u
  <2>0. Len(users) \in Nat /\ users \in Seq(Names)
    BY LenProperties DEF TypeInv
  <2>1. IndexOf(u) >= 0 /\ ~unknown /\ IndexOf(u) \in -1..(Len(users) - 1)
    <3>1. IndexOf(u) \in -1..(Len(users) - 1)
      BY <2>0, IndexOfIs
    <3>2. ~unknown /\ ~(IndexOf(u) < 0)
      BY <1>1, <1>5 DEF UserLeft
    <3> QED
      BY <2>0, <3>1, <3>2
  <2>2. rows = <<Group>> \o users
    BY <2>1 DEF RowsKept, Flush
  <2> DEFINE i == IndexOf(u) + 1
  <2>3. i \in 1..Len(users) /\ ~(IndexOf(u) < 0)
    BY <2>0, <2>1
  <2>4. users' = RemoveAt(users, i)
    BY <1>5, <2>3 DEF UserLeft, Removed
  <2>5. rows \in Seq(RowNames) /\ Len(rows) = Len(users) + 1 /\ DOMAIN rows = 1..Len(rows)
    <3>1. <<Group>> \in Seq(RowNames) /\ Len(<<Group>>) = 1
      BY <1>2
    <3>2. rows \in Seq(RowNames) /\ Len(rows) = 1 + Len(users)
      BY <1>2, <2>2, <3>1, ConcatProperties
    <3> QED
      BY <2>0, <3>2, LenProperties
  <2>6. rows' = RemoveAt(rows, i + 1)
    <3>1. rows' = TakeItem(RowOf(u))
      BY <1>5 DEF UserLeft
    <3>2. RowOf(u) = i
      BY DEF RowOf
    <3>3. i + 1 \in DOMAIN rows
      BY <2>0, <2>3, <2>5
    <3> HIDE DEF i
    <3> QED
      BY <3>1, <3>2, <3>3 DEF TakeItem
  <2> HIDE DEF i
  <2> QED
    BY <1>2, <2>2, <2>3, <2>4, <2>6, RemoveBehind
<1> QED
  BY <1>3, <1>4, <1>5 DEF Flush, window, inbox

\* Every step keeps the two lists in step.
LEMMA RowsStep ==
  ASSUME TypeInv, RowsKept, [Next]_vars
  PROVE  RowsKept'
<1>1. CASE ServerAnswer \/ ServerSend \/ ServerClose
  BY <1>1 DEF ServerAnswer, ServerSend, ServerClose, RowsKept, window, inbox
<1>2. CASE LoginSuccess
  BY <1>2 DEF LoginSuccess, RowsKept
<1>3. CASE ReciveLogin
  BY <1>3 DEF ReciveLogin, RowsKept
<1>4. CASE Flush
  BY <1>4, RowsFlush
<1>5. CASE FlushClear
  BY <1>5 DEF FlushClear, RowsKept, window, inbox
<1>6. CASE RecvSome \/ RecvError \/ Race
  BY <1>6 DEF RecvSome, RecvError, Race, RowsKept, window, inbox
<1>7. CASE UNCHANGED vars
  BY <1>7 DEF vars, RowsKept, window, inbox
<1>8. CASE ConnectFlush
  BY <1>8 DEF ConnectFlush, RowsKept, window
<1> QED
  BY <1>1, <1>2, <1>3, <1>4, <1>5, <1>6, <1>7, <1>8
     DEF Next, WindowStep, RecvStep, RecvNothing, Idle

-----------------------------------------------------------------------------
\* The messages shown, those in now_content and those on the way, in the order
\* in which the server sent the first n.
Ordered(sh, c, w, n) ==
  /\ \A i, j \in 1..Len(sh) : i < j => sh[i] < sh[j]
  /\ \A i, j \in 1..Len(c) : i < j => c[i].n < c[j].n
  /\ \A i, j \in 1..Len(w) : i < j => w[i].n < w[j].n
  /\ \A i \in 1..Len(c), j \in 1..Len(w) : c[i].n < w[j].n
  /\ \A i \in 1..Len(sh), j \in 1..Len(w) : sh[i] < w[j].n
  /\ \A i \in 1..Len(sh) : sh[i] <= n
  /\ \A i \in 1..Len(c) : c[i].n <= n
  /\ \A i \in 1..Len(w) : w[i].n <= n

\* All of c comes after all that has been shown.
Below(sh, c) == \A i \in 1..Len(sh), j \in 1..Len(c) : sh[i] < c[j].n

\* While the window reads now_content its first message has been shown.
OrderInv ==
  /\ Ordered(shown, content, wire, count)
  /\ main \notin {"flushing", "dead"} => Below(shown, content)

\* The server numbers what it sends upwards.
LEMMA OrderSent ==
  ASSUME NEW sh \in Seq(1..MaxMsgs), NEW c \in Seq(Messages), NEW w \in Seq(Messages),
         NEW n \in 0..MaxMsgs, NEW m \in Messages, m.n = n + 1, Ordered(sh, c, w, n)
  PROVE  Ordered(sh, c, Append(w, m), n + 1)
<1> DEFINE v == Append(w, m)
<1>0. /\ Len(w) \in Nat /\ Len(c) \in Nat /\ Len(sh) \in Nat /\ n \in Nat
      /\ \A i \in 1..Len(w) : w[i].n \in Int
      /\ \A i \in 1..Len(c) : c[i].n \in Int
      /\ \A i \in 1..Len(sh) : sh[i] \in Int
  <2>1. /\ \A i \in 1..Len(w) : w[i] \in Messages
        /\ \A i \in 1..Len(c) : c[i] \in Messages
        /\ \A i \in 1..Len(sh) : sh[i] \in 1..MaxMsgs
    BY ElementOfSeq
  <2>2. \A q \in Messages : q.n \in Int
    BY DEF Messages
  <2> QED
    BY <2>1, <2>2, LenProperties, BoundAssumption
<1>1. Len(v) = Len(w) + 1 /\ v[Len(w) + 1] = m /\ \A i \in 1..Len(w) : v[i] = w[i]
  BY AppendProperties
<1> HIDE DEF v
<1>2. \A i \in 1..Len(v) : (i \in 1..Len(w) /\ v[i] = w[i]) \/ (i = Len(w) + 1 /\ v[i] = m)
  BY <1>0, <1>1
<1>3. \A i, j \in 1..Len(v) : i < j => v[i].n < v[j].n
  BY <1>0, <1>2 DEF Ordered
<1>4. \A i \in 1..Len(c), j \in 1..Len(v) : c[i].n < v[j].n
  <2> SUFFICES ASSUME NEW i \in 1..Len(c), NEW j \in 1..Len(v) PROVE c[i].n < v[j].n
    OBVIOUS
  <2>1. CASE j \in 1..Len(w) /\ v[j] = w[j]
    BY <2>1 DEF Ordered
  <2>2. CASE v[j] = m
    <3>1. c[i].n <= n
      BY DEF Ordered
    <3>2. c[i].n \in Int /\ n \in Nat
      BY <1>0
    <3> QED
      BY <2>2, <3>1, <3>2
  <2> QED
    BY <1>2, <2>1, <2>2
<1>5. \A i \in 1..Len(sh), j \in 1..Len(v) : sh[i] < v[j].n
  <2> SUFFICES ASSUME NEW i \in 1..Len(sh), NEW j \in 1..Len(v) PROVE sh[i] < v[j].n
    OBVIOUS
  <2>1. CASE j \in 1..Len(w) /\ v[j] = w[j]
    BY <2>1 DEF Ordered
  <2>2. CASE v[j] = m
    <3>1. sh[i] <= n
      BY DEF Ordered
    <3>2. sh[i] \in Int /\ n \in Nat
      BY <1>0
    <3> QED
      BY <2>2, <3>1, <3>2
  <2> QED
    BY <1>2, <2>1, <2>2
<1>6. \A i \in 1..Len(v) : v[i].n <= n + 1
  BY <1>0, <1>2 DEF Ordered
<1>7. /\ \A i \in 1..Len(sh) : sh[i] <= n + 1
      /\ \A i \in 1..Len(c) : c[i].n <= n + 1
  BY <1>0 DEF Ordered
<1>8. Ordered(sh, c, v, n + 1)
  BY <1>3, <1>4, <1>5, <1>6, <1>7 DEF Ordered
<1> QED
  BY <1>8 DEF v

\* What is lost on the way leaves the rest in order.
LEMMA OrderCut ==
  ASSUME NEW sh \in Seq(1..MaxMsgs), NEW c \in Seq(Messages), NEW w \in Seq(Messages),
         NEW n, NEW k \in 0..Len(w), Ordered(sh, c, w, n)
  PROVE  Ordered(sh, c, SubSeq(w, k + 1, Len(w)), n)
<1> DEFINE v == SubSeq(w, k + 1, Len(w))
<1>0. Len(w) \in Nat
  BY LenProperties
<1>1. Len(v) = Len(w) - k /\ \A i \in 1..(Len(w) - k) : v[i] = w[i + k]
  BY RestIs
<1> HIDE DEF v
<1>2. \A i \in 1..Len(v) : i + k \in 1..Len(w) /\ v[i] = w[i + k]
  BY <1>0, <1>1
<1>3. \A i, j \in 1..Len(v) : i < j => i + k < j + k
  BY <1>0, <1>1
<1>4. Ordered(sh, c, v, n)
  BY <1>2, <1>3 DEF Ordered
<1> QED
  BY <1>4 DEF v

\* What is lost altogether leaves nothing out of order.
LEMMA OrderNone ==
  ASSUME NEW sh, NEW c, NEW w, NEW n, Ordered(sh, c, w, n)
  PROVE  Ordered(sh, c, <<>>, n) /\ Ordered(sh, <<>>, w, n) /\ Below(sh, <<>>)
BY DEF Ordered, Below

\* What recv() moves into now_content stays in order.
LEMMA OrderReceived ==
  ASSUME NEW sh \in Seq(1..MaxMsgs), NEW c \in Seq(Messages), NEW w \in Seq(Messages),
         NEW n, NEW k \in 1..Len(w), NEW j \in 1..Len(w), j <= k, Ordered(sh, c, w, n)
  PROVE  /\ Ordered(sh, c \o SubSeq(w, 1, j), SubSeq(w, k + 1, Len(w)), n)
         /\ Below(sh, c) => Below(sh, c \o SubSeq(w, 1, j))
<1> DEFINE v == SubSeq(w, k + 1, Len(w))
           a == SubSeq(w, 1, j)
           d == c \o a
<1>0. Len(w) \in Nat /\ Len(c) \in Nat
  BY LenProperties
<1>1. Len(v) = Len(w) - k /\ \A i \in 1..(Len(w) - k) : v[i] = w[i + k]
  <2>1. k \in 0..Len(w)
    BY <1>0
  <2> QED
    BY <2>1, RestIs
<1>2. a \in Seq(Messages) /\ Len(a) = j /\ \A i \in 1..j : a[i] = w[i]
  <2>1. j \in 0..Len(w)
    BY <1>0
  <2> QED
    BY <2>1, FrontIs
<1>3. /\ Len(d) = Len(c) + Len(a)
      /\ \A i \in 1..(Len(c) + Len(a)) : d[i] = IF i <= Len(c) THEN c[i] ELSE a[i - Len(c)]
  <2> HIDE DEF a
  <2> QED
    BY <1>2, ConcatProperties
<1> HIDE DEF v, a, d
<1>4. \A i \in 1..Len(v) : i + k \in 1..Len(w) /\ v[i] = w[i + k]
  BY <1>0, <1>1
<1>5. \A i \in 1..Len(d) :
         \/ i \in 1..Len(c) /\ d[i] = c[i]
         \/ i > Len(c) /\ i - Len(c) \in 1..Len(w) /\ i - Len(c) <= j /\ d[i] = w[i - Len(c)]
  BY <1>0, <1>2, <1>3
<1>6. \A i, l \in 1..Len(v) : i < l => v[i].n < v[l].n
  <2> SUFFICES ASSUME NEW i \in 1..Len(v), NEW l \in 1..Len(v), i < l
               PROVE  v[i].n < v[l].n
    OBVIOUS
  <2>1. i + k < l + k
    BY <1>0, <1>1
  <2> QED
    BY <1>4, <2>1 DEF Ordered
<1>7. \A i, l \in 1..Len(d) : i < l => d[i].n < d[l].n
  <2> SUFFICES ASSUME NEW i \in 1..Len(d), NEW l \in 1..Len(d), i < l
               PROVE  d[i].n < d[l].n
    OBVIOUS
  <2>1. i \in Nat /\ l \in Nat /\ i > 0
    BY <1>0, <1>2, <1>3
  <2>2. CASE l \in 1..Len(c) /\ d[l] = c[l]
    <3>1. i \in 1..Len(c) /\ d[i] = c[i]
      BY <1>0, <1>5, <2>1, <2>2
    <3> QED
      BY <2>2, <3>1 DEF Ordered
  <2>3. CASE /\ l > Len(c) /\ l - Len(c) \in 1..Len(w)
             /\ l - Len(c) <= j /\ d[l] = w[l - Len(c)]
    <3>1. CASE i \in 1..Len(c) /\ d[i] = c[i]
      BY <2>3, <3>1 DEF Ordered
    <3>2. CASE i - Len(c) \in 1..Len(w) /\ d[i] = w[i - Len(c)]
      <4>1. i - Len(c) < l - Len(c)
        BY <1>0, <2>1
      <4> QED
        BY <2>3, <3>2, <4>1 DEF Ordered
    <3> QED
      BY <1>5, <3>1, <3>2
  <2> QED
    BY <1>5, <2>2, <2>3
<1>8. \A i \in 1..Len(d), l \in 1..Len(v) : d[i].n < v[l].n
  <2> SUFFICES ASSUME NEW i \in 1..Len(d), NEW l \in 1..Len(v)
               PROVE  d[i].n < v[l].n
    OBVIOUS
  <2>1. l + k \in 1..Len(w) /\ v[l] = w[l + k] /\ l \in Nat /\ l > 0
    BY <1>0, <1>4
  <2>2. CASE i \in 1..Len(c) /\ d[i] = c[i]
    BY <2>1, <2>2 DEF Ordered
  <2>3. CASE i - Len(c) \in 1..Len(w) /\ i - Len(c) <= j /\ d[i] = w[i - Len(c)]
    <3>1. i - Len(c) < l + k
      BY <1>0, <2>1, <2>3
    <3> QED
      BY <2>1, <2>3, <3>1 DEF Ordered
  <2> QED
    BY <1>5, <2>2, <2>3
<1>9. \A i \in 1..Len(sh), l \in 1..Len(v) : sh[i] < v[l].n
  BY <1>4 DEF Ordered
<1>10. /\ \A i \in 1..Len(d) : d[i].n <= n
       /\ \A i \in 1..Len(v) : v[i].n <= n
  BY <1>4, <1>5 DEF Ordered
<1>11. Ordered(sh, d, v, n)
  BY <1>6, <1>7, <1>8, <1>9, <1>10 DEF Ordered
<1>12. ASSUME Below(sh, c) PROVE Below(sh, d)
  BY <1>5, <1>12 DEF Ordered, Below
<1> QED
  BY <1>11, <1>12 DEF v, a, d

\* The message shown is the oldest there is.
LEMMA OrderShown ==
  ASSUME NEW sh \in Seq(1..MaxMsgs), NEW c \in Seq(Messages), NEW w \in Seq(Messages),
         NEW n, c # <<>>, Ordered(sh, c, w, n), Below(sh, c)
  PROVE  Ordered(Append(sh, Head(c).n), c, w, n)
<1> DEFINE h == Head(c).n
           t == Append(sh, h)
<1>0. Len(sh) \in Nat /\ Len(c) \in Nat \ {0} /\ Head(c) = c[1]
  BY LenProperties, EmptySeq
<1>1. 1 \in 1..Len(c) /\ h = c[1].n /\ h \in 1..MaxMsgs
  <2>1. c[1] \in Messages
    BY <1>0, ElementOfSeq
  <2> QED
    BY <1>0, <2>1 DEF Messages
<1>2. Len(t) = Len(sh) + 1 /\ t[Len(sh) + 1] = h /\ \A i \in 1..Len(sh) : t[i] = sh[i]
  <2> HIDE DEF h
  <2> QED
    BY <1>1, AppendProperties
<1> HIDE DEF t, h
<1>3. \A i \in 1..Len(t) : (i \in 1..Len(sh) /\ t[i] = sh[i]) \/ (i = Len(sh) + 1 /\ t[i] = c[1].n)
  BY <1>0, <1>1, <1>2
<1>4. \A i, j \in 1..Len(t) : i < j => t[i] < t[j]
  BY <1>0, <1>1, <1>3 DEF Ordered, Below
<1>5. \A i \in 1..Len(t), j \in 1..Len(w) : t[i] < w[j].n
  BY <1>1, <1>3 DEF Ordered
<1>6. \A i \in 1..Len(t) : t[i] <= n
  BY <1>1, <1>3 DEF Ordered
<1>7. Ordered(t, c, w, n)
  BY <1>4, <1>5, <1>6 DEF Ordered
<1> QED
  BY <1>7 DEF t, h

\* Nothing has been sent at the start.
LEMMA OrderInit == Init => OrderInv
BY DEF Init, OrderInv, Ordered, Below

\* Every step keeps the order.
LEMMA OrderStep ==
  ASSUME TypeInv, OrderInv, [Next]_vars
  PROVE  OrderInv'
<1>0. /\ wire \in Seq(Messages) /\ content \in Seq(Messages) /\ shown \in Seq(1..MaxMsgs)
      /\ count \in 0..MaxMsgs
  BY DEF TypeInv
<1>1. CASE UNCHANGED <<shown, content, wire, count, main>>
  BY <1>1 DEF OrderInv
<1>2. CASE ServerSend
  <2>1. PICK u \in Others, k \in Kinds :
          wire' = Append(wire, [kind |-> k, user |-> u, n |-> count + 1])
    BY <1>2 DEF ServerSend
  <2> DEFINE m == [kind |-> k, user |-> u, n |-> count + 1]
  <2>2. m \in Messages /\ m.n = count + 1
    <3>1. count + 1 \in 1..MaxMsgs
      BY <1>0, <1>2, BoundAssumption DEF ServerSend
    <3> QED
      BY <3>1 DEF Messages
  <2> HIDE DEF m
  <2>3. Ordered(shown, content, Append(wire, m), count + 1)
    BY <1>0, <2>2, OrderSent DEF OrderInv
  <2> QED
    BY <1>2, <2>1, <2>3 DEF ServerSend, OrderInv, window, inbox, m
<1>3. CASE LoginSuccess
  BY <1>3 DEF LoginSuccess, OrderInv, server, window, inbox
<1>4. CASE ReciveLogin
  <2>1. Ordered(shown, content, wire', count)
    <3>1. CASE wire' = <<>>
      BY <3>1, OrderNone DEF OrderInv
    <3>2. CASE \E k \in 0..Len(wire) : wire' = SubSeq(wire, k + 1, Len(wire))
      BY <1>0, <3>2, OrderCut DEF OrderInv
    <3> QED
      BY <1>4, <3>1, <3>2 DEF ReciveLogin, ReceiveList
  <2>2. Below(shown, content)
    BY <1>4 DEF ReciveLogin, OrderInv
  <2> QED
    BY <1>4, <2>1, <2>2 DEF ReciveLogin, OrderInv, server, inbox
<1>5. CASE Flush
  <2>1. Ordered(shown', content, wire, count)
    <3>1. CASE shown' = shown
      BY <3>1 DEF OrderInv
    <3>2. CASE content # <<>> /\ shown' = Append(shown, Head(content).n)
      <4>1. Below(shown, content)
        BY <1>5 DEF Flush, OrderInv
      <4> QED
        BY <1>0, <3>2, <4>1, OrderShown DEF OrderInv
    <3> QED
      BY <1>5, <3>1, <3>2 DEF Flush, window, inbox
  <2> QED
    BY <1>5, <2>1 DEF Flush, OrderInv, server
<1>6. CASE FlushClear
  <2>1. Ordered(shown, <<>>, wire, count) /\ Below(shown, <<>>)
    BY OrderNone DEF OrderInv
  <2> QED
    BY <1>6, <2>1 DEF FlushClear, Cleared, OrderInv, server, window, inbox
<1>7. CASE RecvSome
  <2>1. PICK k \in 1..Len(wire), j \in 1..Len(wire) :
           /\ j <= k
           /\ content' = content \o SubSeq(wire, 1, j)
           /\ wire' = SubSeq(wire, k + 1, Len(wire))
    BY <1>7, RecvSomeIs
  <2>2. /\ Ordered(shown, content', wire', count)
        /\ Below(shown, content) => Below(shown, content')
    BY <1>0, <2>1, OrderReceived DEF OrderInv
  <2> QED
    BY <1>7, <2>2 DEF RecvSome, OrderInv, server, window, inbox
<1>8. CASE RecvError
  BY <1>8, OrderNone DEF RecvError, OrderInv, server, window, inbox
<1>9. CASE Race
  BY <1>9 DEF Race, OrderInv, server, window, inbox
<1>10. CASE ConnectFlush
  BY <1>10 DEF ConnectFlush, OrderInv, server, window, inbox
<1> QED
  BY <1>1, <1>2, <1>3, <1>4, <1>5, <1>6, <1>7, <1>8, <1>9, <1>10
     DEF Next, WindowStep, RecvStep, RecvNothing, Idle, vars, server, window, inbox,
         ServerAnswer, ServerClose

-----------------------------------------------------------------------------
\* The sequence s has each member of S once, and nothing else.
Lists(s, S) ==
  /\ \A i, j \in 1..Len(s) : s[i] = s[j] => i = j
  /\ \A i \in 1..Len(s) : s[i] \in S
  /\ \A u \in S : \E i \in 1..Len(s) : s[i] = u

\* append() of a new user adds it to the set.
LEMMA ListsAppend ==
  ASSUME NEW T, NEW s \in Seq(T), NEW S, NEW u \in T, u \notin S, Lists(s, S)
  PROVE  Lists(Append(s, u), S \cup {u})
<1> DEFINE t == Append(s, u)
<1>0. Len(s) \in Nat
  BY LenProperties
<1>1. Len(t) = Len(s) + 1 /\ t[Len(s) + 1] = u /\ \A i \in 1..Len(s) : t[i] = s[i]
  BY AppendProperties
<1> HIDE DEF t
<1>2. /\ \A i \in 1..Len(t) : (i \in 1..Len(s) /\ t[i] = s[i]) \/ (i = Len(t) /\ t[i] = u)
      /\ \A i \in 1..Len(s) : i \in 1..Len(t) /\ t[i] = s[i]
      /\ Len(t) \in 1..Len(t) /\ t[Len(t)] = u
  BY <1>0, <1>1
<1>3. \A i, j \in 1..Len(t) : t[i] = t[j] => i = j
  BY <1>2 DEF Lists
<1>4. \A i \in 1..Len(t) : t[i] \in S \cup {u}
  BY <1>2 DEF Lists
<1>5. \A v \in S \cup {u} : \E i \in 1..Len(t) : t[i] = v
  <2> SUFFICES ASSUME NEW v \in S \cup {u}
               PROVE  \E i \in 1..Len(t) : t[i] = v
    OBVIOUS
  <2>1. CASE v \in S
    BY <1>2, <2>1 DEF Lists
  <2>2. CASE v = u
    BY <1>2, <2>2
  <2> QED
    BY <2>1, <2>2
<1>6. Lists(t, S \cup {u})
  BY <1>3, <1>4, <1>5 DEF Lists
<1> QED
  BY <1>6 DEF t

\* removeAt() of a user takes it out of the set.
LEMMA ListsRemove ==
  ASSUME NEW T, NEW s \in Seq(T), NEW S, NEW k \in 1..Len(s), Lists(s, S)
  PROVE  Lists(RemoveAt(s, k), S \ {s[k]})
<1> DEFINE t == RemoveAt(s, k)
<1>0. Len(s) \in Nat /\ k \in Nat
  BY LenProperties
<1>1. /\ Len(t) = Len(s) - 1
      /\ \A i \in 1..(Len(s) - 1) : t[i] = IF i < k THEN s[i] ELSE s[i + 1]
  BY RemoveAtIs
<1> HIDE DEF t
<1>2. \A i \in 1..Len(t) :
         \/ i < k /\ i \in 1..Len(s) /\ t[i] = s[i]
         \/ i >= k /\ i + 1 \in 1..Len(s) /\ t[i] = s[i + 1]
  BY <1>0, <1>1
<1>3. \A i, j \in 1..Len(t) : t[i] = t[j] => i = j
  <2> SUFFICES ASSUME NEW i \in 1..Len(t), NEW j \in 1..Len(t), t[i] = t[j]
               PROVE  i = j
    OBVIOUS
  <2>0. i \in Nat /\ j \in Nat
    BY <1>0, <1>1
  <2>1. CASE i < k /\ i \in 1..Len(s) /\ t[i] = s[i]
    <3>1. CASE j < k /\ j \in 1..Len(s) /\ t[j] = s[j]
      BY <2>1, <3>1 DEF Lists
    <3>2. CASE j >= k /\ j + 1 \in 1..Len(s) /\ t[j] = s[j + 1]
      <4>1. i = j + 1
        BY <2>1, <3>2 DEF Lists
      <4> QED
        BY <1>0, <2>0, <2>1, <3>2, <4>1
    <3> QED
      BY <1>2, <3>1, <3>2
  <2>2. CASE i >= k /\ i + 1 \in 1..Len(s) /\ t[i] = s[i + 1]
    <3>1. CASE j < k /\ j \in 1..Len(s) /\ t[j] = s[j]
      <4>1. i + 1 = j
        BY <2>2, <3>1 DEF Lists
      <4> QED
        BY <1>0, <2>0, <2>2, <3>1, <4>1
    <3>2. CASE j >= k /\ j + 1 \in 1..Len(s) /\ t[j] = s[j + 1]
      <4>1. i + 1 = j + 1
        BY <2>2, <3>2 DEF Lists
      <4> QED
        BY <2>0, <4>1
    <3> QED
      BY <1>2, <3>1, <3>2
  <2> QED
    BY <1>2, <2>1, <2>2
<1>4. \A i \in 1..Len(t) : t[i] \in S \ {s[k]}
  <2> SUFFICES ASSUME NEW i \in 1..Len(t)
               PROVE  t[i] \in S \ {s[k]}
    OBVIOUS
  <2>0. i \in Nat
    BY <1>0, <1>1
  <2>1. CASE i < k /\ i \in 1..Len(s) /\ t[i] = s[i]
    <3>1. i # k
      BY <1>0, <2>0, <2>1
    <3> QED
      BY <2>1, <3>1 DEF Lists
  <2>2. CASE i >= k /\ i + 1 \in 1..Len(s) /\ t[i] = s[i + 1]
    <3>1. i + 1 # k
      BY <1>0, <2>0, <2>2
    <3> QED
      BY <2>2, <3>1 DEF Lists
  <2> QED
    BY <1>2, <2>1, <2>2
<1>5. \A u \in S \ {s[k]} : \E i \in 1..Len(t) : t[i] = u
  <2> SUFFICES ASSUME NEW u \in S, u # s[k]
               PROVE  \E i \in 1..Len(t) : t[i] = u
    OBVIOUS
  <2>1. PICK j \in 1..Len(s) : s[j] = u
    BY DEF Lists
  <2>2. j # k /\ j \in Nat
    BY <1>0, <2>1
  <2>3. CASE j < k
    <3>1. j \in 1..(Len(s) - 1) /\ j \in 1..Len(t)
      BY <1>0, <1>1, <2>2, <2>3
    <3>2. t[j] = s[j]
      BY <1>1, <2>3, <3>1
    <3> QED
      BY <2>1, <3>1, <3>2
  <2>4. CASE j > k
    <3>1. j - 1 \in 1..(Len(s) - 1) /\ j - 1 \in 1..Len(t)
      BY <1>0, <1>1, <2>2, <2>4
    <3>2. t[j - 1] = s[j]
      <4>1. ~(j - 1 < k) /\ (j - 1) + 1 = j
        BY <1>0, <2>2, <2>4
      <4>2. t[j - 1] = s[(j - 1) + 1]
        BY <1>1, <3>1, <4>1
      <4> QED
        BY <4>1, <4>2
    <3> QED
      BY <2>1, <3>1, <3>2
  <2> QED
    BY <1>0, <2>2, <2>3, <2>4
<1>6. Lists(t, S \ {s[k]})
  BY <1>3, <1>4, <1>5 DEF Lists
<1> QED
  BY <1>6 DEF t

\* A list without repetitions is as long as its set has elements.
LEMMA ListsCount ==
  ASSUME NEW T, NEW s \in Seq(T), NEW S, IsFiniteSet(S), Lists(s, S)
  PROVE  Len(s) = Cardinality(S) /\ ToSet(s) = S
<1>0. Len(s) \in Nat /\ DOMAIN s = 1..Len(s) /\ s \in [1..Len(s) -> T]
  BY LenProperties
<1>1. s \in [1..Len(s) -> S]
  BY <1>0 DEF Lists
<1>2. s \in Injection(1..Len(s), S)
  BY <1>0, <1>1 DEF Injection, IsInjective, Lists
<1>3. s \in Surjection(1..Len(s), S)
  BY <1>1 DEF Surjection, Lists
<1>4. IsFiniteSet(1..Len(s)) /\ Cardinality(1..Len(s)) = Len(s)
  <2>1. 1 \in Int /\ Len(s) \in Int
    BY <1>0
  <2>2. IsFiniteSet(1..Len(s)) /\ Cardinality(1..Len(s)) = IF 1 > Len(s) THEN 0 ELSE Len(s) - 1 + 1
    BY <2>1, FS_Interval
  <2> QED
    BY <1>0, <2>2
<1>5. Cardinality(1..Len(s)) = Cardinality(S)
  BY <1>2, <1>3, FS_Injection
<1>6. ToSet(s) = S
  BY <1>0 DEF ToSet, Lists
<1> QED
  BY <1>4, <1>5, <1>6

\* The list the server sends has the own name twice, or each user once.
LEMMA AnswerLists ==
  ASSUME NEW S, S \subseteq Others, NEW taken \in {<<>>, <<Self>>},
         NEW l, l = taken \o SetToSeq(S) \o <<Self>>
  PROVE  MetTwice(l) \/ Lists(l, S \cup {Self})
<1> DEFINE q == SetToSeq(S)
<1>1. IsFiniteSet(S)
  BY OthersAssumption, FS_Subset
<1>2. q \in Seq(S) /\ Lists(q, S)
  <2>1. /\ q \in Seq(S)
        /\ \A i, j \in 1..Len(q) : q[i] = q[j] => i = j
        /\ \A u \in S : \E i \in 1..Len(q) : q[i] = u
    BY <1>1, SetToSeqIs
  <2> HIDE DEF q
  <2>2. \A i \in 1..Len(q) : q[i] \in S
    BY <2>1, ElementOfSeq
  <2> QED
    BY <2>1, <2>2 DEF Lists
<1>3. q \in Seq(Members)
  <2> HIDE DEF q
  <2>1. S \subseteq Members
    BY DEF Members
  <2> QED
    BY <1>2, <2>1, SeqMonotonic
<1>4. <<Self>> \in Seq(Members) /\ Self \in Members /\ Len(<<Self>>) = 1 /\ <<Self>>[1] = Self
  BY DEF Members
<1>5. l = (taken \o q) \o <<Self>>
  OBVIOUS
<1> HIDE DEF q
<1>6. CASE taken = <<>>
  <2>1. l = q \o <<Self>>
    BY <1>3, <1>5, <1>6, ConcatEmptySeq
  <2>2. l = Append(q, Self)
    BY <1>3, <1>4, <2>1, AppendIsConcat
  <2>3. Self \notin S
    BY NameAssumption
  <2>4. Lists(Append(q, Self), S \cup {Self})
    BY <1>2, <1>3, <1>4, <2>3, ListsAppend
  <2> QED
    BY <2>2, <2>4
<1>7. CASE taken = <<Self>>
  <2> DEFINE p == <<Self>> \o q
  <2>0. Len(q) \in Nat
    BY <1>3, LenProperties
  <2>1. p \in Seq(Members) /\ Len(p) = 1 + Len(q) /\ p[1] = Self
    BY <1>3, <1>4, <2>0, ConcatProperties
  <2>2. l = p \o <<Self>>
    BY <1>5, <1>7
  <2> HIDE DEF p
  <2>3. l = Append(p, Self)
    BY <1>4, <2>1, <2>2, AppendIsConcat
  <2>4. /\ l \in Seq(Members) /\ Len(l) = Len(p) + 1
        /\ l[Len(p) + 1] = Self /\ \A i \in 1..Len(p) : l[i] = p[i]
    <3> DEFINE a == Append(p, Self)
    <3>1. /\ a \in Seq(Members) /\ Len(a) = Len(p) + 1
          /\ a[Len(p) + 1] = Self /\ \A i \in 1..Len(p) : a[i] = p[i]
      BY <1>4, <2>1, AppendProperties
    <3> QED
      BY <2>3, <3>1
  <2>5. DOMAIN l = 1..Len(l)
    BY <2>4, LenProperties
  <2>6. 1 \in DOMAIN l /\ Len(p) + 1 \in DOMAIN l /\ 1 # Len(p) + 1 /\ l[1] = Self
    BY <2>0, <2>1, <2>4, <2>5
  <2>7. MetTwice(l)
    BY <2>4, <2>6 DEF MetTwice
  <2> QED
    BY <2>7
<1> QED
  BY <1>6, <1>7

-----------------------------------------------------------------------------
\* The users after message m, if they were the set before.
After(before, m) ==
  CASE m.kind = "joined" -> before \cup {m.user}
    [] m.kind = "left" -> before \ {m.user}
    [] OTHER -> before

\* Everything the server sent has been shown and counted in.
Current == Lists(users, online \cup {Self}) /\ Len(shown) = count

\* Everything but message m.
Behind(m) ==
  /\ Len(shown) = count - 1
  /\ \E before \in SUBSET Others :
       /\ Lists(users, before \cup {Self})
       /\ m.kind = "joined" <=> m.user \notin before
       /\ online = After(before, m)

\* Nothing has been received, and nothing is on the way.
Quiet == wire = <<>> /\ content = <<>> /\ flushes = 0

\* In the window's loop one message at most is on the wire or in now_content.
PacedLoop ==
  \/ Quiet /\ (link = "open" => Current)
  \/ /\ Len(wire) = 1 /\ content = <<>> /\ flushes = 0
     /\ Behind(wire[1])
  \/ /\ wire = <<>> /\ Len(content) = 1 /\ flushes = 1
     /\ Behind(content[1])

\* While Flush_Ui() is between reading and clearing, the message is counted in.
PacedFlush ==
  wire = <<>> /\ Len(content) = 1 /\ flushes = 0 /\ (link = "open" => Current)

\* Between start() and connect() nothing comes.
PacedStart == Quiet /\ (link = "open" => Current)

\* One message at a time is on its way from the server to the window.
Paced ==
  /\ main # "dead"
  /\ main = "form" <=> link = "none"
  /\ link = "asked" => main = "list"
  /\ link \in {"none", "asked"} => list = <<>>
  /\ main \in {"form", "list", "closed"} => Quiet /\ shown = <<>> /\ count = 0
  /\ main = "list" /\ link = "open" => MetTwice(list) \/ Lists(list, online \cup {Self})
  /\ main = "started" => PacedStart
  /\ main = "loop" => PacedLoop
  /\ main = "flushing" => PacedFlush

\* Only a paced server is spoken of.
PacedInv == paced => Paced

\* Nothing is under way at the start.
LEMMA PacedInit == Init => PacedInv
BY DEF Init, PacedInv, Paced, Quiet

\* The list is the first thing under way.
LEMMA PacedAnswer ==
  ASSUME TypeInv, Paced, ServerAnswer
  PROVE  Paced'
<1>1. main = "list" /\ main' = main /\ link' = "open"
  BY DEF Paced, ServerAnswer
<1>2. Quiet' /\ shown' = <<>> /\ count' = 0
  BY <1>1 DEF Paced, Quiet, ServerAnswer, window, inbox
<1>3. MetTwice(list') \/ Lists(list', online' \cup {Self})
  BY AnswerLists DEF ServerAnswer
<1> QED
  BY <1>1, <1>2, <1>3 DEF Paced, MetTwice, Lists

\* The next message leaves when all before it are counted in.
LEMMA PacedSend ==
  ASSUME TypeInv, paced, Paced, ServerSend
  PROVE  Paced'
<1>1. AllDone /\ main = "loop" /\ main' = "loop" /\ link = "open" /\ link' = "open"
  BY DEF ServerSend, AllDone
<1>2. content = <<>> /\ Current
  BY <1>1, EmptySeq DEF Paced, PacedLoop, AllDone, Quiet
<1>3. PICK u \in Others, k \in Kinds :
        /\ k = "joined" <=> u \notin online
        /\ wire' = Append(wire, [kind |-> k, user |-> u, n |-> count + 1])
        /\ online' = CASE k = "joined" -> online \cup {u}
                       [] k = "left" -> online \ {u}
                       [] OTHER -> online
  BY DEF ServerSend
<1>m. PICK m : m = [kind |-> k, user |-> u, n |-> count + 1]
  OBVIOUS
<1>4. m.kind = k /\ m.user = u
  BY <1>m
<1>5. wire' = <<m>>
  BY <1>1, <1>3, <1>m DEF AllDone
<1>6. online' = After(online, m)
  BY <1>3, <1>4 DEF After
<1>7. /\ count' = count + 1 /\ UNCHANGED <<users, shown, content, flushes>>
      /\ online \in SUBSET Others /\ count \in Nat
  BY BoundAssumption DEF ServerSend, window, inbox, TypeInv
<1>8. Behind(m)'
  <2>1. Len(shown') = count' - 1 /\ Lists(users', online \cup {Self})
    BY <1>2, <1>7 DEF Current
  <2>2. m.kind = "joined" <=> m.user \notin online
    BY <1>3, <1>4
  <2>3. \E before \in SUBSET Others :
          /\ Lists(users', before \cup {Self})
          /\ m.kind = "joined" <=> m.user \notin before
          /\ online' = After(before, m)
    BY <1>6, <1>7, <2>1, <2>2
  <2> QED
    BY <2>1, <2>3 DEF Behind
<1>9. Len(wire') = 1 /\ wire'[1] = m /\ content' = <<>> /\ flushes' = 0
  BY <1>1, <1>2, <1>5, <1>7 DEF AllDone
<1>10. PacedLoop'
  BY <1>8, <1>9 DEF PacedLoop, Behind
<1> QED
  BY <1>1, <1>10 DEF Paced

\* The server may close at any time.
LEMMA PacedClose ==
  ASSUME Paced, ServerClose
  PROVE  Paced'
BY DEF Paced, PacedStart, PacedLoop, PacedFlush, Quiet, Behind, ServerClose,
       server, window, inbox

\* The form leads to the list.
LEMMA PacedForm ==
  ASSUME Paced, LoginSuccess
  PROVE  Paced'
BY DEF Paced, Quiet, LoginSuccess, Connect, server, window, inbox

\* The list is taken for the users.
LEMMA PacedLogin ==
  ASSUME TypeInv, Paced, ReciveLogin
  PROVE  Paced'
<1>1. /\ main = "list" /\ wire = <<>> /\ content = <<>> /\ flushes = 0
      /\ shown = <<>> /\ count = 0
      /\ link \notin {"none", "asked"}
  BY DEF ReciveLogin, ReceiveList, Paced, Quiet
<1>2. wire' = <<>> /\ (link = "open" => users' = list)
  <2>1. CASE \E k \in 0..Len(wire) :
               /\ wire' = SubSeq(wire, k + 1, Len(wire))
               /\ users' = list \o (IF k > 0 THEN <<Garbled>> ELSE <<>>)
    <3>1. Len(wire) = 0
      BY <1>1
    <3>2. wire' = SubSeq(wire, 0 + 1, Len(wire)) /\ users' = list \o <<>>
      <4>1. PICK k \in 0..Len(wire) :
               /\ wire' = SubSeq(wire, k + 1, Len(wire))
               /\ users' = list \o (IF k > 0 THEN <<Garbled>> ELSE <<>>)
        BY <2>1
      <4>2. k = 0 /\ ~(k > 0)
        BY <3>1
      <4> QED
        BY <4>1, <4>2
    <3>3. wire' = <<>>
      BY <3>1, <3>2, SubSeqEmpty
    <3>4. users' = list
      BY <3>2, ConcatEmptySeq DEF TypeInv
    <3> QED
      BY <3>3, <3>4
  <2>2. CASE wire' = <<>> /\ link # "open"
    BY <2>2
  <2> QED
    BY <2>1, <2>2 DEF ReciveLogin, ReceiveList
<1>3. Quiet' /\ shown' = <<>> /\ count' = 0 /\ link' = link /\ online' = online
  BY <1>1, <1>2 DEF Quiet, ReciveLogin, server, inbox
<1>4. CASE main' = "closed"
  BY <1>1, <1>3, <1>4 DEF Paced
<1>5. CASE main' = "started" /\ ~MetTwice(users')
  <2>1. link' = "open" => Current'
    <3> SUFFICES ASSUME link = "open"
                 PROVE  Current'
      BY <1>3
    <3>1. users' = list /\ ~MetTwice(list)
      BY <1>2, <1>5
    <3>2. Lists(list, online \cup {Self})
      BY <1>1, <3>1 DEF Paced
    <3>3. Lists(users', online' \cup {Self})
      BY <1>3, <3>1, <3>2
    <3>4. Len(shown') = count'
      BY <1>3
    <3> QED
      BY <3>3, <3>4 DEF Current, Lists
  <2>2. PacedStart'
    BY <1>3, <2>1 DEF PacedStart
  <2> QED
    BY <1>1, <1>3, <1>5, <2>2 DEF Paced
<1> QED
  BY <1>4, <1>5 DEF ReciveLogin

\* Nothing was missed before flush() was connected.
LEMMA PacedConnect ==
  ASSUME Paced, ConnectFlush
  PROVE  Paced'
<1>1. main = "started" /\ main' = "loop"
  BY DEF ConnectFlush
<1>2. UNCHANGED <<list, wire, link, count, online, users, shown, content, flushes>>
  BY DEF ConnectFlush, server, window, inbox
<1>3. Quiet /\ (link = "open" => Current)
  BY <1>1 DEF Paced, PacedStart
<1>4. Quiet' /\ (link' = "open" => Current')
  BY <1>2, <1>3 DEF Quiet, Current
<1> QED
  BY <1>1, <1>2, <1>4 DEF Paced, PacedLoop

\* An exit that was told while everything else is counted in is that of a user
\* who is in User_list.
LEMMA LeaverKnown ==
  ASSUME TypeInv, NEW m \in Messages, m.kind = "left", Behind(m)
  PROVE  ~(IndexOf(m.user) < 0)
<1>1. m.user \in Others /\ m.user # Self /\ m.user # Garbled
  BY NameAssumption DEF Messages
<1>2. PICK before \in SUBSET Others :
        /\ Lists(users, before \cup {Self})
        /\ m.kind = "joined" <=> m.user \notin before
  BY DEF Behind
<1>3. m.user \in before
  BY <1>2
<1>4. \E i \in 1..Len(users) : users[i] = m.user
  BY <1>2, <1>3 DEF Lists
<1>5. users \in Seq(Names)
  BY DEF TypeInv
<1> QED
  BY <1>1, <1>4, <1>5, IndexOfIs

\* The message is counted in when it is shown.
LEMMA PacedShown ==
  ASSUME TypeInv, Paced, Flush
  PROVE  Paced'
<1>1. main = "loop" /\ flushes > 0 /\ main' = "flushing"
  BY DEF Flush
<1>2. /\ wire = <<>> /\ Len(content) = 1 /\ flushes = 1
      /\ Behind(content[1])
  BY <1>1 DEF Paced, PacedLoop, Quiet
<1>3. content \in Seq(Messages) /\ content # <<>> /\ Head(content) = content[1]
  <2>1. content \in Seq(Messages)
    BY DEF TypeInv
  <2>2. content # <<>>
    BY <1>2, EmptySeq
  <2> QED
    BY <2>1, <2>2
<1> DEFINE m == content[1]
<1>4. m \in Messages /\ m.kind \in Kinds /\ m.user \in Others /\ m.n \in 1..MaxMsgs
  <2>1. 1 \in 1..Len(content)
    BY <1>2
  <2>2. m \in Messages
    BY <1>3, <2>1, ElementOfSeq
  <2> QED
    BY <2>2 DEF Messages
<1>5. TreatedName = m.user
  BY <1>2 DEF TreatedName
<1>6. shown' = Append(shown, m.n) /\ Len(shown') = Len(shown) + 1
  <2>1. shown' = Append(shown, m.n)
    BY <1>3 DEF Flush, window, inbox
  <2>2. shown \in Seq(1..MaxMsgs)
    BY DEF TypeInv
  <2> HIDE DEF m
  <2>3. Len(Append(shown, m.n)) = Len(shown) + 1
    BY <1>4, <2>2, AppendProperties
  <2> QED
    BY <2>1, <2>3
<1>7. /\ m.kind = "joined" => UserJoined(m.user)
      /\ m.kind = "left" => UserLeft(m.user)
      /\ m.kind \notin {"joined", "left"} => UNCHANGED users
  BY <1>3, <1>5 DEF Flush, window, inbox
<1>8. UNCHANGED <<link, count, online, wire, content>> /\ flushes' = 0
  BY <1>1, <1>2 DEF Flush, server
<1>9. ASSUME link = "open" PROVE Current'
  <2> HIDE DEF m
  <2>1. Len(shown) = count - 1 /\ count \in Nat
    BY <1>2, <1>9, BoundAssumption DEF Behind, TypeInv, m
  <2>2. PICK before \in SUBSET Others :
          /\ Lists(users, before \cup {Self})
          /\ m.kind = "joined" <=> m.user \notin before
          /\ online = After(before, m)
    BY <1>2, <1>9 DEF Behind, m
  <2>3. Len(shown') = count'
    BY <1>6, <1>8, <2>1
  <2>4. online' = online
    BY <1>8
  <2>5. users \in Seq(Names) /\ Len(users) \in Nat /\ m.user \in Names
    BY <1>4, LenProperties DEF TypeInv, Names
  <2>6. m.user # Self /\ m.user # Garbled
    BY <1>4, NameAssumption
  <2>7. CASE m.kind = "joined"
    <3>1. users' = Append(users, m.user)
      BY <1>7, <2>7 DEF UserJoined
    <3>2. m.user \notin before \cup {Self}
      BY <2>2, <2>6, <2>7
    <3>3. Lists(Append(users, m.user), (before \cup {Self}) \cup {m.user})
      BY <2>2, <2>5, <3>2, ListsAppend
    <3>4. (before \cup {Self}) \cup {m.user} = online \cup {Self}
      BY <2>2, <2>7 DEF After
    <3> QED
      BY <2>3, <2>4, <3>1, <3>3, <3>4 DEF Current
  <2>8. CASE m.kind = "left"
    <3>1. m.user \in before
      BY <2>2, <2>8
    <3>2. ~(IndexOf(m.user) < 0)
      BY <1>2, <1>4, <2>8, LeaverKnown DEF m
    <3>3. IndexOf(m.user) \in -1..(Len(users) - 1)
      BY <2>5, IndexOfIs
    <3> DEFINE i == IndexOf(m.user) + 1
    <3>4. i \in 1..Len(users) /\ users[i] = m.user
      BY <2>5, <3>2, <3>3, IndexOfIs
    <3>5. users' = RemoveAt(users, i)
      BY <1>7, <2>8, <3>2 DEF UserLeft, Removed
    <3> HIDE DEF i
    <3>6. Lists(RemoveAt(users, i), (before \cup {Self}) \ {users[i]})
      BY <2>2, <2>5, <3>4, ListsRemove
    <3>7. (before \cup {Self}) \ {users[i]} = online \cup {Self}
      BY <2>2, <2>6, <2>8, <3>4 DEF After
    <3> QED
      BY <2>3, <2>4, <3>5, <3>6, <3>7 DEF Current
  <2>9. CASE m.kind \notin {"joined", "left"}
    <3>1. users' = users /\ online = before
      BY <1>7, <2>2, <2>9 DEF After
    <3> QED
      BY <2>2, <2>3, <2>4, <3>1 DEF Current
  <2> QED
    BY <2>7, <2>8, <2>9
<1>10. PacedFlush'
  BY <1>2, <1>8, <1>9 DEF PacedFlush
<1> QED
  BY <1>1, <1>8, <1>10 DEF Paced

\* now_content is cleared after that.
LEMMA PacedClear ==
  ASSUME Paced, FlushClear
  PROVE  Paced'
<1>1. main = "flushing" /\ main' = "loop" /\ content' = <<>>
  BY DEF FlushClear, Cleared
<1>2. UNCHANGED <<wire, link, count, online, users, shown, flushes>>
  BY DEF FlushClear, server, window, inbox
<1>3. wire = <<>> /\ flushes = 0 /\ (link = "open" => Current)
  BY <1>1 DEF Paced, PacedFlush
<1>4. Quiet' /\ (link' = "open" => Current')
  BY <1>1, <1>2, <1>3 DEF Quiet, Current
<1> QED
  BY <1>1, <1>2, <1>4 DEF Paced, PacedLoop

\* recv() takes the one message there is.
LEMMA PacedReceived ==
  ASSUME TypeInv, Paced, RecvSome
  PROVE  Paced'
<1>0. wire \in Seq(Messages) /\ Len(wire) \in Nat /\ content \in Seq(Messages)
  BY LenProperties DEF TypeInv
<1>1. PICK k \in 1..Len(wire), j \in 1..Len(wire) :
         /\ j <= k
         /\ content' = content \o SubSeq(wire, 1, j)
         /\ wire' = SubSeq(wire, k + 1, Len(wire))
  BY RecvSomeIs
<1>2. wire # <<>>
  BY <1>0, <1>1
<1>3. main = "loop"
  BY <1>2 DEF Paced, PacedStart, PacedFlush, Quiet, TypeInv, Mains
<1>4. /\ Len(wire) = 1 /\ content = <<>> /\ flushes = 0
      /\ Behind(wire[1])
  BY <1>2, <1>3 DEF Paced, PacedLoop, Quiet
<1>5. k = 1 /\ j = 1
  BY <1>0, <1>1, <1>4
<1>6. wire' = <<>>
  BY <1>1, <1>4, <1>5, SubSeqEmpty
<1>7. content' = wire
  <2>1. content' = content \o SubSeq(wire, 1, Len(wire))
    BY <1>1, <1>4, <1>5
  <2>2. content' = <<>> \o wire
    BY <1>0, <1>4, <2>1, SubSeqFull
  <2> QED
    BY <1>0, <2>2, ConcatEmptySeq
<1>8. flushes' = 1 /\ UNCHANGED <<main, link, count, online, users, shown>>
  BY <1>3, <1>4 DEF RecvSome, Emit, server, window, inbox
<1>m. PICK m : m = wire[1]
  OBVIOUS
<1>9. Behind(m)'
  BY <1>4, <1>8, <1>m DEF Behind
<1>10. content'[1] = m /\ Len(content') = 1
  BY <1>4, <1>7, <1>m
<1>11. PacedLoop'
  BY <1>6, <1>8, <1>9, <1>10 DEF PacedLoop, Behind
<1> QED
  BY <1>3, <1>8, <1>11 DEF Paced

\* A recv() that fails ends the thread.
LEMMA PacedError ==
  ASSUME Paced, RecvError
  PROVE  Paced'
BY DEF Paced, PacedStart, PacedLoop, PacedFlush, Quiet, Behind, RecvError,
       server, window, inbox

\* Every step keeps the pace.
LEMMA PacedStep ==
  ASSUME TypeInv, PacedInv, [Next]_vars
  PROVE  PacedInv'
<1>0. paced' = paced
  BY DEF Next, WindowStep, RecvStep, RecvNothing, Idle, vars, server, ServerAnswer,
         ServerSend, ServerClose, LoginSuccess, ReciveLogin, ConnectFlush, Flush, FlushClear,
         RecvSome, RecvError, Race
<1> SUFFICES ASSUME paced, Paced
             PROVE  Paced'
  BY <1>0 DEF PacedInv
<1>1. CASE ServerAnswer
  BY <1>1, PacedAnswer
<1>2. CASE ServerSend
  BY <1>2, PacedSend
<1>3. CASE ServerClose
  BY <1>3, PacedClose
<1>4. CASE LoginSuccess
  BY <1>4, PacedForm
<1>5. CASE ReciveLogin
  BY <1>5, PacedLogin
<1>6. CASE Flush
  BY <1>6, PacedShown
<1>7. CASE FlushClear
  BY <1>7, PacedClear
<1>8. CASE RecvSome
  BY <1>8, PacedReceived
<1>9. CASE RecvError
  BY <1>9, PacedError
<1>10. CASE Race
  BY <1>10 DEF Race, Paced, PacedFlush
<1>11. CASE UNCHANGED vars
  BY <1>11 DEF vars, server, window, inbox, Paced, PacedStart, PacedLoop, PacedFlush, Quiet, Current, Behind
<1>12. CASE ConnectFlush
  BY <1>12, PacedConnect
<1> QED
  BY <1>1, <1>2, <1>3, <1>4, <1>5, <1>6, <1>7, <1>8, <1>9, <1>10, <1>11, <1>12
     DEF Next, WindowStep, RecvStep, RecvNothing, Idle

-----------------------------------------------------------------------------
\* A paced server tells of no exit whose name User_list does not have.
KnownInv == paced => ~unknown

\* No exit has been shown at the start.
LEMMA KnownInit == Init => KnownInv
BY DEF Init, KnownInv

\* Flush_Ui() finds who has left.
LEMMA KnownFlush ==
  ASSUME TypeInv, paced, Paced, ~unknown, Flush
  PROVE  ~unknown'
<1>1. CASE UNCHANGED unknown
  BY <1>1
<1>2. CASE content # <<>> /\ Head(content).kind = "left" /\ UserLeft(TreatedName)
  <2>1. Len(content) = 1 /\ Behind(content[1])
    BY <1>2 DEF Flush, Paced, PacedLoop, Quiet
  <2>2. content \in Seq(Messages) /\ Head(content) = content[1]
    BY <1>2 DEF TypeInv
  <2>3. content[1] \in Messages
    <3>1. 1 \in 1..Len(content)
      BY <2>1
    <3> QED
      BY <2>2, <3>1, ElementOfSeq
  <2>4. TreatedName = content[1].user
    BY <2>1 DEF TreatedName
  <2>5. content[1].kind = "left"
    BY <1>2, <2>2
  <2>6. ~(IndexOf(content[1].user) < 0)
    BY <2>1, <2>3, <2>5, LeaverKnown
  <2> QED
    BY <1>2, <2>4, <2>6 DEF UserLeft
<1> QED
  BY <1>1, <1>2 DEF Flush, window, UserJoined

\* No step shows the exit of a user that is not known.
LEMMA KnownStep ==
  ASSUME TypeInv, PacedInv, KnownInv, [Next]_vars
  PROVE  KnownInv'
<1>0. paced' = paced
  BY DEF Next, WindowStep, RecvStep, RecvNothing, Idle, vars, server, ServerAnswer,
         ServerSend, ServerClose, LoginSuccess, ReciveLogin, ConnectFlush, Flush,
         FlushClear, RecvSome, RecvError, Race
<1> SUFFICES ASSUME paced, Paced, ~unknown
             PROVE  ~unknown'
  BY <1>0 DEF KnownInv, PacedInv
<1>1. CASE Flush
  BY <1>1, KnownFlush
<1>2. CASE ~Flush
  BY <1>2
     DEF Next, WindowStep, RecvStep, RecvNothing, Idle, vars, window, ServerAnswer,
         ServerSend, ServerClose, LoginSuccess, ReciveLogin, ConnectFlush,
         FlushClear, RecvSome, RecvError, Race
<1> QED
  BY <1>1, <1>2

-----------------------------------------------------------------------------
\* The invariant of the client.
ClientInv == TypeInv /\ RowsKept /\ OrderInv /\ PacedInv /\ KnownInv

\* ClientInv holds in every state the client can reach.
THEOREM ClientInvariant == Spec => []ClientInv
<1>1. Init => ClientInv
  BY TypeInit, RowsInit, OrderInit, PacedInit, KnownInit DEF ClientInv
<1>2. ClientInv /\ [Next]_vars => ClientInv'
  BY TypeStep, RowsStep, OrderStep, PacedStep, KnownStep DEF ClientInv
<1> QED
  BY <1>1, <1>2, PTL DEF Spec

\* The variables keep their types, and no more flush() signals are queued than
\* the server may send messages.
THEOREM TypeCorrect == Spec => []TypeOK
<1>1. ClientInv => TypeOK
  BY TypeMeans DEF ClientInv
<1> QED
  BY <1>1, ClientInvariant, PTL

\* Rows and User_list, two lists kept in step by hand, agree (lines 72-100 and
\* 181-201), however many users there are: for good if every message is handled
\* before the next one comes, otherwise until the exit of an unknown user.
THEOREM RowsFollowUsers == Spec => []RowsMatch
<1>1. ClientInv => RowsMatch
  BY DEF ClientInv, RowsKept, KnownInv, RowsMatch
<1> QED
  BY <1>1, ClientInvariant, PTL

\* Whatever recv() cuts and the window drops, no message is shown twice or
\* before an earlier one.
THEOREM ShowsInOrder == Spec => []ShownInOrder
<1>1. ClientInv => ShownInOrder
  <2> SUFFICES ASSUME ClientInv
               PROVE  ShownInOrder
    OBVIOUS
  <2>1. DOMAIN shown = 1..Len(shown)
    BY LenProperties DEF ClientInv, TypeInv
  <2>2. \A i, j \in 1..Len(shown) : i < j => shown[i] < shown[j]
    BY DEF ClientInv, OrderInv, Ordered
  <2> QED
    BY <2>1, <2>2 DEF ShownInOrder
<1> QED
  BY <1>1, ClientInvariant, PTL

\* If each message is handled before the next one comes, everything is shown
\* and User_list is the users the server told of, for any number of users and
\* messages.
THEOREM FollowsPaced == Spec => []ListFollowsPaced
<1>1. ClientInv => ListFollowsPaced
  <2> SUFFICES ASSUME ClientInv, paced, AllDone, link = "open"
               PROVE  ListFollows /\ Len(shown) = count
    BY DEF ListFollowsPaced
  <2>1. Current
    BY EmptySeq DEF ClientInv, PacedInv, Paced, PacedLoop, AllDone
  <2>2. users \in Seq(Names) /\ online \subseteq Others
    BY DEF ClientInv, TypeInv
  <2>3. IsFiniteSet(online)
    BY <2>2, OthersAssumption, FS_Subset
  <2>4. /\ IsFiniteSet(online \cup {Self})
        /\ Cardinality(online \cup {Self}) = Cardinality(online) + 1
    <3>1. Self \notin online
      BY <2>2, NameAssumption
    <3> QED
      BY <2>3, <3>1, FS_AddElement
  <2>5. /\ Len(users) = Cardinality(online \cup {Self})
        /\ ToSet(users) = online \cup {Self}
    BY <2>1, <2>2, <2>4, ListsCount DEF Current
  <2> QED
    BY <2>1, <2>4, <2>5 DEF ListFollows, Current
<1> QED
  BY <1>1, ClientInvariant, PTL
===============================================================================
