--------------------------- MODULE RpcCall_proofs ---------------------------
(***************************************************************************)
(* Proofs about RpcCall: for any calls, sizes of pieces and limit, a       *)
(* caller is given the values of the answer and the daemon the requests,   *)
(* in order and as they were, and an end without an error is the answer's. *)
(* What is assumed of the messages and their codec is in RpcCall.          *)
(***************************************************************************)
EXTENDS RpcCall, TLAPS, SequenceTheorems

-----------------------------------------------------------------------------
(* The bytes of a direction *)

Byte == 0..255
Way == {"up", "down"}

\* The bytes behind the first m of all that is said, up to the first n.
Part(j, way, m, n) == SubSeq(AllBytes(j, way), m + 1, n)

\* The first i bytes; Unread has the others.
Taken(bytes, i) == SubSeq(bytes, 1, i)

\* The empty sequence is one of any elements.
LEMMA NoElements == \A S : <<>> \in Seq(S)
  OBVIOUS

\* A part has the bytes between its ends.
LEMMA PartType ==
    ASSUME NEW j \in Jobs, NEW way \in Way, NEW k \in Nat, NEW n \in Nat,
           k <= n, n <= Len(AllBytes(j, way))
    PROVE  /\ Part(j, way, k, n) \in Seq(Byte)
           /\ Len(Part(j, way, k, n)) = n - k
           /\ \A i \in 1 .. n - k : Part(j, way, k, n)[i] = AllBytes(j, way)[k + i]
<1> DEFINE all == AllBytes(j, way)
<1>1. all \in Seq(Byte)
  BY BytesAssumption DEF Byte, Way
<1>2. k <= n /\ n <= Len(all) /\ Len(all) \in Nat
  BY <1>1
<1> HIDE DEF all
<1>3. PICK a \in Int : a = k + 1
  OBVIOUS
<1>4. \A i \in a .. n : all[i] \in Byte
  BY <1>1, <1>2, <1>3, ElementOfSeq
<1>5. PICK part : part = SubSeq(all, a, n)
  OBVIOUS
<1>6. /\ part \in Seq(Byte) /\ Len(part) = IF a <= n THEN n - a + 1 ELSE 0
      /\ \A i \in 1 .. n - a + 1 : part[i] = all[a + i - 1]
  BY <1>4, <1>5, SubSeqProperties
<1>7. n - a + 1 = n - k /\ \A i \in 1 .. n - k : a + i - 1 = k + i
  BY <1>2, <1>3
<1>8. Len(part) = n - k
  BY <1>2, <1>3, <1>6
<1>9. \A i \in 1 .. n - k : part[i] = all[k + i]
  BY <1>6, <1>7
<1>10. part = Part(j, way, k, n)
  BY <1>3, <1>5 DEF Part, all
<1> QED BY <1>6, <1>8, <1>9, <1>10 DEF all

\* Parts that follow each other are one.
LEMMA PartsJoin ==
    ASSUME NEW j \in Jobs, NEW way \in Way, NEW k \in Nat, NEW m \in Nat, NEW n \in Nat,
           k <= m, m <= n, n <= Len(AllBytes(j, way))
    PROVE  Part(j, way, k, m) \o Part(j, way, m, n) = Part(j, way, k, n)
<1>1. AllBytes(j, way) \in Seq(Byte)
  BY BytesAssumption DEF Byte, Way
<1>2. /\ k + 1 \in 1 .. Len(AllBytes(j, way)) + 1
      /\ m \in (k + 1) - 1 .. Len(AllBytes(j, way))
      /\ n \in m .. Len(AllBytes(j, way))
  BY <1>1
<1> QED BY <1>1, <1>2, ConcatAdjacentSubSeq DEF Part

\* The first i bytes of a sequence are it up to there, and the others follow.
LEMMA SequenceCut ==
    ASSUME NEW s \in Seq(Byte), NEW i \in Nat, i <= Len(s)
    PROVE  /\ Taken(s, i) \in Seq(Byte) /\ Len(Taken(s, i)) = i
           /\ \A x \in 1 .. i : Taken(s, i)[x] = s[x]
           /\ Unread(s, i) \in Seq(Byte) /\ Len(Unread(s, i)) = Len(s) - i
           /\ \A x \in 1 .. Len(s) - i : Unread(s, i)[x] = s[i + x]
<1>1. Len(s) \in Nat
  OBVIOUS
<1>2. /\ \A x \in 1 .. i : s[x] \in Byte
      /\ \A x \in i + 1 .. Len(s) : s[x] \in Byte
  BY <1>1, ElementOfSeq
<1>3. /\ SubSeq(s, 1, i) \in Seq(Byte)
      /\ Len(SubSeq(s, 1, i)) = IF 1 <= i THEN i - 1 + 1 ELSE 0
      /\ \A x \in 1 .. i - 1 + 1 : SubSeq(s, 1, i)[x] = s[1 + x - 1]
  BY <1>2, SubSeqProperties
<1>4. PICK a \in Int : a = i + 1
  OBVIOUS
<1>5. PICK rest : rest = SubSeq(s, a, Len(s))
  OBVIOUS
<1>6. /\ rest \in Seq(Byte) /\ Len(rest) = IF a <= Len(s) THEN Len(s) - a + 1 ELSE 0
      /\ \A x \in 1 .. Len(s) - a + 1 : rest[x] = s[a + x - 1]
  <2>1. \A x \in a .. Len(s) : s[x] \in Byte
    BY <1>2, <1>4
  <2> QED BY <1>1, <1>5, <2>1, SubSeqProperties
<1>7. /\ i - 1 + 1 = i /\ \A x \in 1 .. i : 1 + x - 1 = x
      /\ Len(s) - a + 1 = Len(s) - i
      /\ \A x \in 1 .. Len(s) - i : a + x - 1 = i + x
  BY <1>1, <1>4
<1>8. Taken(s, i) \in Seq(Byte) /\ Len(Taken(s, i)) = i
  BY <1>3, <1>7 DEF Taken
<1>9. \A x \in 1 .. i : Taken(s, i)[x] = s[x]
  BY <1>3, <1>7 DEF Taken
<1>10. Len(rest) = Len(s) - i
  BY <1>1, <1>4, <1>6
<1>11. \A x \in 1 .. Len(s) - i : rest[x] = s[i + x]
  BY <1>6, <1>7
<1>12. Unread(s, i) = rest
  BY <1>4, <1>5 DEF Unread
<1> QED BY <1>6, <1>8, <1>9, <1>10, <1>11, <1>12

\* A part can be cut anywhere.
LEMMA PartCut ==
    ASSUME NEW j \in Jobs, NEW way \in Way, NEW k \in Nat, NEW n \in Nat, NEW i \in Nat,
           k + i <= n, n <= Len(AllBytes(j, way))
    PROVE  /\ Taken(Part(j, way, k, n), i) = Part(j, way, k, k + i)
           /\ Unread(Part(j, way, k, n), i) = Part(j, way, k + i, n)
<1>1. PICK all : all = AllBytes(j, way)
  OBVIOUS
<1>2. PICK whole : whole = Part(j, way, k, n)
  OBVIOUS
<1>13. PICK m \in Nat : m = k + i
  OBVIOUS
<1>3. PICK first : first = Part(j, way, k, m)
  OBVIOUS
<1>4. PICK second : second = Part(j, way, m, n)
  OBVIOUS
<1>5. Len(AllBytes(j, way)) \in Nat
  <2>1. AllBytes(j, way) \in Seq(Byte)
    BY BytesAssumption DEF Byte, Way
  <2> QED BY <2>1
<1>6. /\ k <= m /\ k <= n /\ m <= n /\ m <= Len(AllBytes(j, way))
      /\ m - k = i /\ n <= Len(AllBytes(j, way))
  BY <1>5, <1>13
<1>7. /\ whole \in Seq(Byte) /\ Len(whole) = n - k
      /\ \A x \in 1 .. n - k : whole[x] = all[k + x]
  BY <1>1, <1>2, <1>6, PartType
<1>8. /\ first \in Seq(Byte) /\ Len(first) = i
      /\ \A x \in 1 .. i : first[x] = all[k + x]
  <2>1. /\ first \in Seq(Byte) /\ Len(first) = m - k
        /\ \A x \in 1 .. m - k : first[x] = all[k + x]
    BY <1>1, <1>3, <1>6, PartType
  <2> QED BY <1>6, <2>1
<1>9. /\ second \in Seq(Byte) /\ Len(second) = n - m
      /\ \A x \in 1 .. n - m : second[x] = all[m + x]
  BY <1>1, <1>4, <1>6, PartType
<1>10. i <= Len(whole)
  BY <1>7
<1>11. Taken(whole, i) = first
  <2>1. /\ Taken(whole, i) \in Seq(Byte) /\ Len(Taken(whole, i)) = i
        /\ \A x \in 1 .. i : Taken(whole, i)[x] = whole[x]
    BY <1>7, <1>10, SequenceCut
  <2>2. \A x \in 1 .. i : x \in 1 .. n - k
    BY <1>13
  <2>3. \A x \in 1 .. i : Taken(whole, i)[x] = first[x]
    BY <1>7, <1>8, <2>1, <2>2
  <2> QED BY <1>8, <2>1, <2>3, SeqEqual
<1>12. Unread(whole, i) = second
  <2>1. /\ Unread(whole, i) \in Seq(Byte) /\ Len(Unread(whole, i)) = Len(whole) - i
        /\ \A x \in 1 .. Len(whole) - i : Unread(whole, i)[x] = whole[i + x]
    BY <1>7, <1>10, SequenceCut
  <2>2. /\ Len(whole) - i = n - m
        /\ \A x \in 1 .. n - m : i + x \in 1 .. n - k /\ k + (i + x) = m + x
    BY <1>7, <1>13
  <2>3. \A x \in 1 .. n - m : Unread(whole, i)[x] = second[x]
    BY <1>7, <1>9, <2>1, <2>2
  <2>4. Len(Unread(whole, i)) = Len(second)
    BY <1>9, <2>1, <2>2
  <2> QED BY <1>9, <2>1, <2>3, <2>4, SeqEqual
<1> QED BY <1>2, <1>3, <1>4, <1>11, <1>12, <1>13

\* A part without bytes.
LEMMA NoPart ==
    ASSUME NEW j \in Jobs, NEW way \in Way, NEW k \in Nat
    PROVE  Part(j, way, k, k) = <<>>
  BY SubSeqEmpty DEF Part

\* What BytesAssumption says of where messages end.
LEMMA Ends ==
    ASSUME NEW j \in Jobs, NEW way \in Way
    PROVE  /\ Count(j, way) \in Nat
           /\ Len(AllBytes(j, way)) \in Nat
           /\ \A n \in 0..Count(j, way) :
                  EndOf(j, way, n) \in Nat /\ EndOf(j, way, n) <= Len(AllBytes(j, way))
           /\ EndOf(j, way, 0) = 0
           /\ EndOf(j, way, Count(j, way)) = Len(AllBytes(j, way))
           /\ \A m, n \in 0..Count(j, way) : m < n => EndOf(j, way, m) < EndOf(j, way, n)
           /\ \A n \in 1..Count(j, way) :
                  Encode(Said(j, way, n)) = Part(j, way, EndOf(j, way, n - 1), EndOf(j, way, n))
<1> DEFINE all == AllBytes(j, way)
           end == [n \in 0..Count(j, way) |-> EndOf(j, way, n)]
<1>1. Count(j, way) \in Nat
  <2>1. Len(j.requests) \in Nat /\ Len(j.answer.values) \in Nat
    <3>1. j.requests \in Seq(Range(j.requests))
      BY JobsAssumption
    <3>2. j.answer.values \in Seq(Range(j.answer.values))
      BY JobsAssumption
    <3> QED BY <3>1, <3>2, LenProperties
  <2>2. Answers(j) = Len(j.answer.values) \/ Answers(j) = Len(j.answer.values) + 1
    BY <2>1 DEF Answers
  <2>3. Answers(j) \in Nat
    BY <2>1, <2>2
  <2> QED BY <2>1, <2>3 DEF Count
<1>2. /\ all \in Seq(0..255)
      /\ end \in [0..Count(j, way) -> 0..Len(all)] /\ end[0] = 0
      /\ \A m, n \in 0..Count(j, way) : m < n => end[m] < end[n]
      /\ \A n \in 1..Count(j, way) :
             Encode(Said(j, way, n)) = SubSeq(all, end[n - 1] + 1, end[n])
  BY BytesAssumption DEF Way
<1>3. \A n \in 0..Count(j, way) : end[n] = EndOf(j, way, n)
  OBVIOUS
<1>4. end[0] = EndOf(j, way, 0)
  BY <1>1, <1>3
<1>5. Len(all) \in Nat
  BY <1>2, LenProperties
<1>6. EndOf(j, way, Count(j, way)) = Len(all)
  BY DEF EndOf, AllBytes
<1>7. \A n \in 1..Count(j, way) : n \in 0..Count(j, way) /\ n - 1 \in 0..Count(j, way)
  BY <1>1
<1> HIDE DEF all, end
<1>8. \A n \in 0..Count(j, way) : EndOf(j, way, n) \in Nat /\ EndOf(j, way, n) <= Len(all)
  BY <1>2, <1>3, <1>5
<1>9. \A m, n \in 0..Count(j, way) : m < n => EndOf(j, way, m) < EndOf(j, way, n)
  BY <1>2, <1>3
<1>10. \A n \in 1..Count(j, way) :
           Encode(Said(j, way, n)) = SubSeq(all, EndOf(j, way, n - 1) + 1, EndOf(j, way, n))
  BY <1>2, <1>3, <1>7
<1> QED BY <1>1, <1>2, <1>4, <1>5, <1>6, <1>8, <1>9, <1>10 DEF Part, all

-----------------------------------------------------------------------------
(* The messages of a direction *)

SaidIn(j, way) == {Said(j, way, i) : i \in 1..Count(j, way)}

\* The messages of a stretch, one by one.
LEMMA MessagesAre ==
    ASSUME NEW j \in Jobs, NEW way \in Way, NEW from \in Nat, NEW to \in Nat,
           from <= to, to <= Count(j, way)
    PROVE  /\ Messages(j, way, from, to) \in Seq(SaidIn(j, way))
           /\ Len(Messages(j, way, from, to)) = to - from
           /\ \A i \in 1 .. to - from :
                  Messages(j, way, from, to)[i] = Said(j, way, from + i)
<1>1. Count(j, way) \in Nat
  BY Ends
<1>2. \A i \in 1 .. to - from : Said(j, way, from + i) \in SaidIn(j, way)
  <2>1. \A i \in 1 .. to - from : from + i \in 1..Count(j, way)
    BY <1>1
  <2> QED BY <2>1 DEF SaidIn
<1>3. to - from \in Nat
  OBVIOUS
<1> DEFINE m == [i \in 1 .. to - from |-> Said(j, way, from + i)]
<1>4. m \in [1 .. to - from -> SaidIn(j, way)]
  BY <1>2
<1>5. m \in Seq(SaidIn(j, way))
  BY <1>3, <1>4, SeqDef
<1>6. Len(m) = to - from
  BY <1>3, <1>5, LenProperties
<1> QED BY <1>5, <1>6 DEF Messages

\* Two stretches that follow each other are one.
LEMMA MessagesJoin ==
    ASSUME NEW j \in Jobs, NEW way \in Way, NEW a \in Nat, NEW b \in Nat, NEW c \in Nat,
           a <= b, b <= c, c <= Count(j, way)
    PROVE  Messages(j, way, a, b) \o Messages(j, way, b, c) = Messages(j, way, a, c)
<1>1. Count(j, way) \in Nat
  BY Ends
<1>2. a <= c /\ b <= Count(j, way)
  BY <1>1
<1>3. PICK ab : ab = Messages(j, way, a, b)
  OBVIOUS
<1>4. PICK bc : bc = Messages(j, way, b, c)
  OBVIOUS
<1>5. PICK ac : ac = Messages(j, way, a, c)
  OBVIOUS
<1>6. /\ ab \in Seq(SaidIn(j, way)) /\ Len(ab) = b - a
      /\ \A i \in 1 .. b - a : ab[i] = Said(j, way, a + i)
  BY <1>2, <1>3, MessagesAre
<1>7. /\ bc \in Seq(SaidIn(j, way)) /\ Len(bc) = c - b
      /\ \A i \in 1 .. c - b : bc[i] = Said(j, way, b + i)
  BY <1>2, <1>4, MessagesAre
<1>8. /\ ac \in Seq(SaidIn(j, way)) /\ Len(ac) = c - a
      /\ \A i \in 1 .. c - a : ac[i] = Said(j, way, a + i)
  BY <1>2, <1>5, MessagesAre
<1>9. /\ ab \o bc \in Seq(SaidIn(j, way)) /\ Len(ab \o bc) = (b - a) + (c - b)
      /\ \A i \in 1 .. (b - a) + (c - b) :
             (ab \o bc)[i] = IF i <= b - a THEN ab[i] ELSE bc[i - (b - a)]
  <2>1. /\ ab \o bc \in Seq(SaidIn(j, way)) /\ Len(ab \o bc) = Len(ab) + Len(bc)
        /\ \A i \in 1 .. Len(ab) + Len(bc) :
               (ab \o bc)[i] = IF i <= Len(ab) THEN ab[i] ELSE bc[i - Len(ab)]
    <3>1. ab \in Seq(SaidIn(j, way)) /\ bc \in Seq(SaidIn(j, way))
      BY <1>6, <1>7
    <3> QED BY <3>1, ConcatProperties
  <2>2. Len(ab) = b - a /\ Len(bc) = c - b
    BY <1>6, <1>7
  <2> QED BY <2>1, <2>2
<1>10. ASSUME NEW i \in 1 .. c - a PROVE (ab \o bc)[i] = ac[i]
  <2>1. CASE i <= b - a
    BY <1>6, <1>8, <1>9, <2>1
  <2>2. CASE ~(i <= b - a)
    <3>1. i - (b - a) \in 1 .. c - b /\ b + (i - (b - a)) = a + i
      BY <2>2
    <3> QED BY <1>7, <1>8, <1>9, <2>2, <3>1
  <2> QED BY <2>1, <2>2
<1>11. ab \o bc = ac
  <2>1. /\ ab \o bc \in Seq(SaidIn(j, way)) /\ ac \in Seq(SaidIn(j, way))
        /\ Len(ab \o bc) = c - a /\ Len(ac) = c - a
    BY <1>8, <1>9
  <2>2. /\ Len(ab \o bc) = Len(ac)
        /\ \A i \in 1 .. Len(ab \o bc) : (ab \o bc)[i] = ac[i]
    BY <1>10, <2>1
  <2> QED BY <2>1, <2>2, SeqEqual
<1> QED BY <1>3, <1>4, <1>5, <1>11

\* The first of a stretch, and what follows it.
LEMMA MessagesTail ==
    ASSUME NEW j \in Jobs, NEW way \in Way, NEW a \in Nat, NEW b \in Nat,
           b <= Count(j, way), Messages(j, way, a, b) # <<>>, a <= b
    PROVE  /\ a < b
           /\ Head(Messages(j, way, a, b)) = Said(j, way, a + 1)
           /\ Tail(Messages(j, way, a, b)) = Messages(j, way, a + 1, b)
<1>1. PICK ab : ab = Messages(j, way, a, b)
  OBVIOUS
<1>2. /\ ab \in Seq(SaidIn(j, way)) /\ Len(ab) = b - a
      /\ \A i \in 1 .. b - a : ab[i] = Said(j, way, a + i)
  BY <1>1, MessagesAre
<1>3. ab # <<>>
  BY <1>1
<1>4. a < b /\ a + 1 <= b
  BY <1>2, <1>3, EmptySeq
<1>5. PICK rest : rest = Messages(j, way, a + 1, b)
  OBVIOUS
<1>6. /\ rest \in Seq(SaidIn(j, way)) /\ Len(rest) = b - (a + 1)
      /\ \A i \in 1 .. b - (a + 1) : rest[i] = Said(j, way, (a + 1) + i)
  <2>1. a + 1 \in Nat /\ a + 1 <= b
    BY <1>4
  <2> QED BY <1>5, <2>1, MessagesAre
<1>7. /\ Tail(ab) \in Seq(SaidIn(j, way)) /\ Len(Tail(ab)) = Len(ab) - 1
      /\ \A i \in 1 .. Len(Tail(ab)) : Tail(ab)[i] = ab[i + 1]
  BY <1>2, <1>3, HeadTailProperties
<1>8. ASSUME NEW i \in 1 .. Len(Tail(ab)) PROVE Tail(ab)[i] = rest[i]
  <2>1. i \in 1 .. b - (a + 1) /\ i + 1 \in 1 .. b - a /\ a + (i + 1) = (a + 1) + i
    BY <1>2, <1>7
  <2> QED BY <1>2, <1>6, <1>7, <2>1
<1>9. Tail(ab) = rest
  BY <1>2, <1>6, <1>7, <1>8, SeqEqual
<1>10. Head(ab) = Said(j, way, a + 1)
  <2>1. Head(ab) = ab[1] /\ 1 \in 1 .. b - a
    BY <1>2, <1>4
  <2> QED BY <1>2, <2>1
<1> QED BY <1>1, <1>4, <1>5, <1>9, <1>10

-----------------------------------------------------------------------------
(* Reading *)

\* The first n messages, and no more, end within so many bytes.
Complete(j, way, n, pos) ==
    /\ n \in 0..Count(j, way) /\ EndOf(j, way, n) <= pos
    /\ \A k \in 0..Count(j, way) : n < k => pos < EndOf(j, way, k)

\* What FramingAssumption says of a reader that has whole messages behind it.
LEMMA Framing ==
    ASSUME NEW j \in Jobs, NEW way \in Way, NEW from \in 0..Count(j, way),
           NEW cut \in Cuts(j, way), EndOf(j, way, from) <= cut
    PROVE  \E to \in from..Count(j, way) :
               /\ Complete(j, way, to, cut)
               /\ LET prefix == DecodePrefix(Part(j, way, EndOf(j, way, from), cut))
                  IN  /\ prefix.status = "ok"
                      /\ prefix.value = Messages(j, way, from, to)
                      /\ prefix.next = EndOf(j, way, to) - EndOf(j, way, from)
<1> DEFINE count == Count(j, way)
           end == [n \in 0..count |-> EndOf(j, way, n)]
           bytes == SubSeq(AllBytes(j, way), end[from] + 1, cut)
<1>1. \A n \in 0..count : end[n] = EndOf(j, way, n)
  OBVIOUS
<1>2. end[from] <= cut
  BY <1>1
<1>3. PICK to \in from..count :
          /\ end[to] <= cut /\ \A n \in 0..count : to < n => cut < end[n]
          /\ DecodePrefix(bytes).status = "ok"
          /\ DecodePrefix(bytes).value = Messages(j, way, from, to)
          /\ DecodePrefix(bytes).next = end[to] - end[from]
  BY <1>2, FramingAssumption DEF Way
<1>4. count \in Nat
  BY Ends
<1>5. to \in 0..count
  BY <1>4
<1>6. Complete(j, way, to, cut)
  BY <1>1, <1>3, <1>5 DEF Complete
<1>7. bytes = Part(j, way, EndOf(j, way, from), cut)
  BY <1>1 DEF Part
<1>8. end[to] = EndOf(j, way, to) /\ end[from] = EndOf(j, way, from)
  BY <1>1, <1>5
<1> HIDE DEF bytes, end
<1> QED BY <1>3, <1>6, <1>7, <1>8

\* A piece of a size is shorter where there are not as many bytes.
PieceSize(p, bytes) == IF p > Len(bytes) THEN Len(bytes) ELSE p

\* Reading a piece of what was written behind the first pos bytes: where it
\* ends, and what is left in the stream.
LEMMA PieceIsCut ==
    ASSUME NEW j \in Jobs, NEW way \in Way, NEW sent \in 0..Count(j, way),
           NEW pos \in Nat, pos <= EndOf(j, way, sent),
           NEW bytes, bytes = Part(j, way, pos, EndOf(j, way, sent)),
           NEW p \in j.pieces, NEW n, n = PieceSize(p, bytes)
    PROVE  /\ n \in Nat /\ n <= Len(bytes)
           /\ pos + n <= EndOf(j, way, sent) /\ pos + n \in Cuts(j, way)
           /\ Len(bytes) = EndOf(j, way, sent) - pos
<1>1. /\ EndOf(j, way, sent) \in Nat /\ Len(AllBytes(j, way)) \in Nat
      /\ EndOf(j, way, sent) <= Len(AllBytes(j, way))
  BY Ends
<1>2. Len(bytes) = EndOf(j, way, sent) - pos
  BY <1>1, PartType
<1>3. p \in Nat
  BY JobsAssumption
<1>4. n \in Nat /\ n <= Len(bytes) /\ (n = Len(bytes) \/ (n = p /\ p < Len(bytes)))
  BY <1>1, <1>2, <1>3 DEF PieceSize
<1>5. pos + n <= EndOf(j, way, sent)
  BY <1>1, <1>2, <1>4
<1>6. pos + n \in Cuts(j, way)
  <2>1. CASE n = Len(bytes)
    <3>1. pos + n = EndOf(j, way, sent) /\ pos + n \in 0..Len(AllBytes(j, way))
      BY <1>1, <1>2, <2>1
    <3> QED BY <3>1 DEF Cuts
  <2>2. CASE n = p /\ p < Len(bytes)
    <3>1. p < Len(AllBytes(j, way)) /\ pos + n \in 0..Len(AllBytes(j, way))
      BY <1>1, <1>2, <1>4, <1>5, <2>2
    <3> QED BY <3>1 DEF Cuts
  <2> QED BY <1>4, <2>1, <2>2
<1> QED BY <1>2, <1>4, <1>5, <1>6

\* What is found with the next n bytes, and what is then held and left.
ReadTo(j, way, sent, pos, c, n, bytes, buffered, to) ==
    /\ c \in Nat
    /\ Complete(j, way, to, pos + n)
    /\ DecodePrefix(buffered).status = "ok"
    /\ DecodePrefix(buffered).value = Messages(j, way, c, to)
    /\ Unread(buffered, DecodePrefix(buffered).next)
           = Part(j, way, EndOf(j, way, to), pos + n)
    /\ n \in Nat /\ pos + n <= EndOf(j, way, sent)
    /\ Len(bytes) = EndOf(j, way, sent) - pos
    /\ Unread(bytes, n) = Part(j, way, pos + n, EndOf(j, way, sent))

\* A reader that has found c messages and holds the bytes behind them finds the
\* messages that the next piece completes, and holds the bytes behind those.
LEMMA ReadMore ==
    ASSUME NEW j \in Jobs, NEW way \in Way, NEW sent \in 0..Count(j, way),
           NEW pos \in Nat, pos <= EndOf(j, way, sent),
           NEW bytes, bytes = Part(j, way, pos, EndOf(j, way, sent)),
           NEW c, Complete(j, way, c, pos),
           NEW p \in j.pieces, NEW n, n = PieceSize(p, bytes),
           NEW buffered,
           buffered = Part(j, way, EndOf(j, way, c), pos) \o Taken(bytes, n)
    PROVE  \E to \in c..Count(j, way) : ReadTo(j, way, sent, pos, c, n, bytes, buffered, to)
<1> DEFINE start == EndOf(j, way, c)
           written == EndOf(j, way, sent)
           all == Len(AllBytes(j, way))
<1>1. /\ n \in Nat /\ n <= Len(bytes) /\ pos + n <= written /\ pos + n \in Cuts(j, way)
      /\ Len(bytes) = written - pos
  BY PieceIsCut
<1>2. /\ c \in 0..Count(j, way) /\ Count(j, way) \in Nat
      /\ start \in Nat /\ written \in Nat /\ all \in Nat
      /\ start <= pos /\ written <= all
  BY Ends DEF Complete
<1> HIDE DEF start, written, all
<1>3. /\ pos + n \in Nat /\ pos <= pos + n /\ pos + n <= all /\ start <= pos + n
      /\ pos <= all /\ (pos + n) - pos = n
  BY <1>1, <1>2
<1>4. /\ Taken(bytes, n) = Part(j, way, pos, pos + n)
      /\ Unread(bytes, n) = Part(j, way, pos + n, written)
  <2>1. bytes = Part(j, way, pos, written)
    BY DEF written
  <2>2. pos + n <= written /\ written <= Len(AllBytes(j, way))
    BY <1>1, <1>2 DEF all
  <2> QED BY <1>1, <1>2, <2>1, <2>2, PartCut
<1>5. buffered = Part(j, way, start, pos) \o Part(j, way, pos, pos + n)
  BY <1>4 DEF start
<1>6. buffered = Part(j, way, start, pos + n)
  <2>1. Part(j, way, start, pos) \o Part(j, way, pos, pos + n) = Part(j, way, start, pos + n)
    <3>1. PICK m \in Nat : m = pos + n
      BY <1>3
    <3>2. start <= pos /\ pos <= m /\ m <= Len(AllBytes(j, way))
      BY <1>2, <1>3, <3>1 DEF all
    <3>3. Part(j, way, start, pos) \o Part(j, way, pos, m) = Part(j, way, start, m)
      BY <1>2, <3>2, PartsJoin
    <3> QED BY <3>1, <3>3
  <2> QED BY <1>5, <2>1
<1>7. PICK to \in c..Count(j, way) :
          /\ Complete(j, way, to, pos + n)
          /\ DecodePrefix(buffered).status = "ok"
          /\ DecodePrefix(buffered).value = Messages(j, way, c, to)
          /\ DecodePrefix(buffered).next = EndOf(j, way, to) - start
  BY <1>1, <1>2, <1>3, <1>6, Framing DEF start
<1>8. PICK end : end = EndOf(j, way, to)
  OBVIOUS
<1>9. to \in 0..Count(j, way)
  BY <1>2
<1>10. end \in Nat /\ end <= pos + n /\ start <= end
  <2>1. end \in Nat /\ end <= pos + n
    BY <1>7, <1>8, <1>9, Ends DEF Complete
  <2>2. c = to \/ c < to
    BY <1>2
  <2>3. c < to => start < end
    BY <1>2, <1>8, <1>9, Ends DEF start
  <2> QED BY <1>2, <1>8, <2>1, <2>2, <2>3 DEF start
<1>11. Unread(buffered, end - start) = Part(j, way, end, pos + n)
  <2>1. /\ end - start \in Nat /\ start + (end - start) = end
        /\ start + (end - start) <= pos + n
    BY <1>2, <1>10
  <2>2. Unread(Part(j, way, start, pos + n), end - start)
            = Part(j, way, start + (end - start), pos + n)
    BY <1>2, <1>3, <2>1, PartCut DEF all
  <2> QED BY <1>6, <2>1, <2>2
<1>12. Unread(buffered, DecodePrefix(buffered).next)
           = Part(j, way, EndOf(j, way, to), pos + n)
  BY <1>7, <1>8, <1>11
<1>13. c \in Nat
  BY <1>2
<1>14. /\ pos + n <= EndOf(j, way, sent) /\ Len(bytes) = EndOf(j, way, sent) - pos
       /\ Unread(bytes, n) = Part(j, way, pos + n, EndOf(j, way, sent))
  BY <1>1, <1>4 DEF written
<1> QED BY <1>1, <1>7, <1>12, <1>13, <1>14 DEF ReadTo

-----------------------------------------------------------------------------
(* The invariant *)

Errors == {"none", "transport", "malformed", "not one answer", "not an answer",
           "incomplete", job.answer.error}

TypeOK ==
    /\ job \in Jobs
    /\ client \in [phase : {"sending", "reading", "done", "failed", "left"},
                   sent : 0..Count(job, "up"), buffer : Seq(Byte),
                   batch : Seq(SaidIn(job, "down")),
                   values : Seq(Range(job.answer.values)), error : Errors]
    /\ up \in [bytes : Seq(Byte), ended : {"no", "fin", "stopped"}]
    /\ server \in [phase : {"reading", "answering", "ended"}, buffer : Seq(Byte),
                   bytesRead : Nat, inbox : Seq(SaidIn(job, "up")),
                   sent : 0..Count(job, "down"), handled : Nat]
    /\ down \in [bytes : Seq(Byte), ended : {"no", "fin", "reset", "stopped"}]
    /\ broken \in BOOLEAN

\* The daemon has the first messages of the caller; while it reads, the bytes
\* behind them are in its buffer and in the stream.
ServerReadsOn ==
    LET read == Len(server.inbox)
    IN  /\ server.sent = 0
        /\ up.ended # "stopped"
        /\ server.bytesRead <= EndOf(job, "up", client.sent)
        /\ up.bytes = Part(job, "up", server.bytesRead, EndOf(job, "up", client.sent))
        /\ Complete(job, "up", read, server.bytesRead)
        /\ server.buffer = Part(job, "up", EndOf(job, "up", read), server.bytesRead)

ServerInv ==
    /\ Len(server.inbox) <= Count(job, "up")
    /\ server.inbox = Messages(job, "up", 0, Len(server.inbox))
    /\ server.handled <= Len(server.inbox)
    /\ server.phase = "reading" => ServerReadsOn
    /\ up.ended = "fin" => client.sent = Count(job, "up") /\ client.phase # "sending"

\* A stream is ended regularly when all of its answer is written, and given up
\* by the client only when that stops reading.
EndsInv ==
    /\ server.phase # "ended" => down.ended \in {"no", "stopped"}
    /\ down.ended = "fin" => /\ server.phase = "ended"
                             /\ IsServerStream => server.sent = Answers(job)
    /\ down.ended = "stopped" => client.phase \in {"failed", "left"}

\* The client was given the first values; while it reads, the messages behind
\* them are in its batch and the bytes behind those in its buffer and in the
\* stream.  What is not a server stream is read at once.
ClientReadsOn ==
    LET given == Len(client.values)
        read == given + Len(client.batch)
        written == EndOf(job, "down", server.sent)
        position == written - Len(down.bytes)
    IN  /\ Len(down.bytes) <= written
        /\ down.bytes = Part(job, "down", position, written)
        /\ Complete(job, "down", read, position)
        /\ client.batch = Messages(job, "down", given, read)
        /\ client.buffer = Part(job, "down", EndOf(job, "down", read), position)
        /\ ~IsServerStream => position = 0 /\ given = 0 /\ client.batch = <<>>

\* What the consumer has is the beginning of the values it may be given.
GivenInv ==
    LET given == Len(client.values)
    IN  /\ given <= Len(job.answer.values)
        /\ job.unknown = "variant" => given < Len(job.answer.values)
        /\ \A i \in 1..given : client.values[i] = job.answer.values[i]

\* How a call ended says what the daemon did.
OutcomeInv ==
    /\ client.phase = "done" =>
           /\ job.answer.error = "none" /\ server.sent = Answers(job)
           /\ client.values = job.answer.values
    /\ client.phase = "failed" =>
           \/ client.error = "transport"
           \/ client.error = job.answer.error /\ client.values = job.answer.values
           \/ /\ client.error = "malformed" /\ job.unknown = "variant"
              /\ Len(client.values) + 1 = Len(job.answer.values)
           \/ /\ client.error = "not one answer"
              /\ server.sent < Answers(job) /\ server.phase = "ended"

IInv ==
    /\ TypeOK
    /\ ServerInv
    /\ EndsInv
    /\ GivenInv
    /\ client.phase \in {"sending", "reading"} => ClientReadsOn
    /\ OutcomeInv

\* The jobs of a call's state.
LEMMA Calls ==
    ASSUME TypeOK
    PROVE  /\ job \in Jobs
           /\ Len(job.requests) \in Nat /\ Count(job, "up") = Len(job.requests)
           /\ Count(job, "down") = Answers(job) /\ Answers(job) \in Nat
           /\ Len(job.answer.values) \in Nat
           /\ job.answer.values \in Seq(Range(job.answer.values))
           /\ IF job.answer.error = "none" THEN Answers(job) = Len(job.answer.values)
              ELSE Answers(job) = Len(job.answer.values) + 1
<1>1. job \in Jobs
  BY DEF TypeOK
<1>2. /\ job.requests \in Seq(Range(job.requests))
      /\ job.answer.values \in Seq(Range(job.answer.values))
  BY <1>1, JobsAssumption
<1>3. Len(job.requests) \in Nat /\ Len(job.answer.values) \in Nat
  BY <1>2, LenProperties
<1>4. Count(job, "up") = Len(job.requests) /\ Count(job, "down") = Answers(job)
  BY DEF Count
<1>5. Count(job, "down") \in Nat
  BY <1>1, Ends DEF Way
<1>6. IF job.answer.error = "none" THEN Answers(job) = Len(job.answer.values)
      ELSE Answers(job) = Len(job.answer.values) + 1
  BY DEF Answers
<1> QED BY <1>1, <1>2, <1>3, <1>4, <1>5, <1>6

\* Before anything is said.
LEMMA InitInv == Init => IInv
<1> SUFFICES ASSUME Init PROVE IInv
  OBVIOUS
<1>1. job \in Jobs
  BY DEF Init
<1>2. /\ job.answer.values \in Seq(Range(job.answer.values))
      /\ job.unknown = "variant" => job.answer.values # <<>>
  BY <1>1, JobsAssumption
<1>3. Len(job.answer.values) \in Nat /\ (job.unknown = "variant" => 0 < Len(job.answer.values))
  BY <1>2, EmptySeq
<1>4. /\ Count(job, "up") \in Nat /\ Count(job, "down") \in Nat
      /\ EndOf(job, "up", 0) = 0 /\ EndOf(job, "down", 0) = 0
      /\ Complete(job, "up", 0, 0) /\ Complete(job, "down", 0, 0)
  <2>1. ASSUME NEW way \in Way
        PROVE  Count(job, way) \in Nat /\ EndOf(job, way, 0) = 0 /\ Complete(job, way, 0, 0)
    <3>1. /\ Count(job, way) \in Nat /\ EndOf(job, way, 0) = 0
          /\ \A m, n \in 0..Count(job, way) : m < n => EndOf(job, way, m) < EndOf(job, way, n)
      BY <1>1, Ends
    <3>2. 0 \in 0..Count(job, way)
      BY <3>1
    <3> QED BY <3>1, <3>2 DEF Complete
  <2> QED BY <2>1 DEF Way
<1>5. /\ Part(job, "up", 0, 0) = <<>> /\ Part(job, "down", 0, 0) = <<>>
      /\ Messages(job, "up", 0, 0) = <<>> /\ Messages(job, "down", 0, 0) = <<>>
  <2>1. ASSUME NEW way \in Way PROVE Part(job, way, 0, 0) = <<>> /\ Messages(job, way, 0, 0) = <<>>
    <3>1. Part(job, way, 0, 0) = <<>>
      BY <1>1, NoPart
    <3>2. /\ Messages(job, way, 0, 0) \in Seq(SaidIn(job, way))
          /\ Len(Messages(job, way, 0, 0)) = 0
      <4>1. Count(job, way) \in Nat
        BY <1>1, Ends
      <4> QED BY <1>1, <4>1, MessagesAre
    <3> QED BY <3>1, <3>2, EmptySeq
  <2> QED BY <2>1 DEF Way
<1>6. /\ client.phase = "sending" /\ client.sent = 0 /\ client.buffer = <<>>
      /\ client.batch = <<>> /\ client.values = <<>> /\ client.error = "none"
      /\ up = Quiet /\ down = Quiet /\ up.bytes = <<>> /\ up.ended = "no"
      /\ down.bytes = <<>> /\ down.ended = "no"
      /\ server.phase = "reading" /\ server.buffer = <<>> /\ server.bytesRead = 0
      /\ server.inbox = <<>> /\ server.sent = 0 /\ server.handled = 0
      /\ broken = FALSE
  BY DEF Init, Quiet
<1>7. Len(client.values) = 0 /\ Len(client.batch) = 0 /\ Len(server.inbox) = 0 /\ Len(down.bytes) = 0
  BY <1>6
<1>8. TypeOK
  <2>1. \A S : <<>> \in Seq(S)
    OBVIOUS
  <2>2. 0 \in 0..Count(job, "up") /\ 0 \in 0..Count(job, "down")
    BY <1>4
  <2> QED BY <1>1, <2>1, <2>2 DEF Init, TypeOK, Quiet, Errors
<1>9. ServerInv
  BY <1>4, <1>5, <1>6, <1>7 DEF ServerInv, ServerReadsOn
<1>10. EndsInv
  BY <1>6 DEF EndsInv
<1>11. GivenInv
  BY <1>3, <1>7 DEF GivenInv
<1>12. ClientReadsOn
  BY <1>4, <1>5, <1>6, <1>7 DEF ClientReadsOn
<1>13. OutcomeInv
  BY <1>6 DEF OutcomeInv
<1> QED BY <1>8, <1>9, <1>10, <1>11, <1>12, <1>13 DEF IInv

-----------------------------------------------------------------------------
(* What a step leaves alone *)

\* The daemon's side when it does nothing and no request is written.
LEMMA ServerKept ==
    ASSUME IInv, UNCHANGED <<job, up, server>>, client'.sent = client.sent,
           client'.phase = "sending" => client.phase = "sending"
    PROVE  ServerInv'
  BY DEF IInv, ServerInv, ServerReadsOn

\* The client stops reading: it fails, leaves or is done.
LEMMA ClientStops ==
    ASSUME IInv, UNCHANGED <<job, up, server, broken>>,
           client'.sent = client.sent, client'.values = client.values,
           client'.phase \in {"done", "failed", "left"},
           down'.ended = down.ended
               \/ (down'.ended = "stopped" /\ client'.phase \in {"failed", "left"}),
           client.phase \in {"sending", "reading"},
           TypeOK', OutcomeInv'
    PROVE  IInv'
<1>1. ServerInv'
  BY ServerKept
<1>2. EndsInv'
  BY DEF IInv, EndsInv, IsServerStream
<1>3. GivenInv'
  BY DEF IInv, GivenInv
<1> QED BY <1>1, <1>2, <1>3 DEF IInv

\* It fails, for one of the reasons there are.
LEMMA ClientFails ==
    ASSUME IInv, UNCHANGED <<job, up, server, broken>>,
           client.phase \in {"sending", "reading"},
           NEW error \in Errors, Fail(error),
           \/ error = "transport"
           \/ error = job.answer.error /\ client.values = job.answer.values
           \/ /\ error = "malformed" /\ job.unknown = "variant"
              /\ Len(client.values) + 1 = Len(job.answer.values)
           \/ /\ error = "not one answer"
              /\ server.sent < Answers(job) /\ server.phase = "ended",
           \/ down' = down
           \/ down' = [down EXCEPT !.bytes = <<>>]
           \/ down' = Cancelled
    PROVE  IInv'
<1>1. TypeOK
  BY DEF IInv
<1>2. /\ client'.sent = client.sent /\ client'.values = client.values
      /\ client'.phase = "failed" /\ client'.error = error
      /\ client'.batch = <<>> /\ client'.buffer = <<>>
  BY <1>1 DEF Fail, TypeOK
<1>3. /\ down' \in [bytes : Seq(Byte), ended : {"no", "fin", "reset", "stopped"}]
      /\ down'.ended = down.ended \/ down'.ended = "stopped"
  <2>1. <<>> \in Seq(Byte)
    BY NoElements
  <2>2. CASE down' = down
    BY <1>1, <2>2 DEF TypeOK
  <2>3. CASE down' = [down EXCEPT !.bytes = <<>>]
    BY <1>1, <2>1, <2>3 DEF TypeOK
  <2>4. CASE down' = Cancelled
    BY <1>1, <2>1, <2>4 DEF TypeOK, Cancelled
  <2> QED BY <2>2, <2>3, <2>4
<1>4. TypeOK'
  <2>1. client' \in [phase : {"sending", "reading", "done", "failed", "left"},
                     sent : 0..Count(job, "up"), buffer : Seq(Byte),
                     batch : Seq(SaidIn(job, "down")),
                     values : Seq(Range(job.answer.values)), error : Errors]
    <3>1. <<>> \in Seq(Byte) /\ <<>> \in Seq(SaidIn(job, "down"))
      BY NoElements
    <3> QED BY <1>1, <3>1 DEF Fail, TypeOK
  <2>2. Errors' = Errors
    BY DEF Errors
  <2> QED BY <1>1, <1>3, <2>1, <2>2 DEF TypeOK
<1>5. OutcomeInv'
  BY <1>2 DEF OutcomeInv
<1> QED BY <1>2, <1>3, <1>4, <1>5, ClientStops

\* A write or the close fails, or reading does.
LEMMA TransportKeeps ==
    ASSUME IInv, ClientWriteFails \/ ClientReadFails
    PROVE  IInv'
<1>1. /\ UNCHANGED <<job, up, server, broken>> /\ Fail("transport") /\ down' = down
      /\ client.phase \in {"sending", "reading"}
  BY DEF ClientWriteFails, ClientReadFails
<1>2. "transport" \in Errors
  BY DEF Errors
<1> QED BY <1>1, <1>2, ClientFails

\* The next request is written behind those that were.
LEMMA ClientWritesKeeps ==
    ASSUME IInv, ClientWrites
    PROVE  IInv'
<1> DEFINE old == EndOf(job, "up", client.sent)
           new == EndOf(job, "up", client.sent + 1)
<1>1. TypeOK
  BY DEF IInv
<1>2. /\ client.phase = "sending" /\ client.sent < Len(job.requests) /\ up.ended = "no"
      /\ up'.bytes = up.bytes \o Encode(Request(job, client.sent + 1))
      /\ up'.ended = "no"
      /\ client'.sent = client.sent + 1 /\ client'.phase = "sending"
      /\ client'.buffer = client.buffer /\ client'.batch = client.batch
      /\ client'.values = client.values /\ client'.error = client.error
      /\ UNCHANGED <<job, server, down, broken>>
  BY <1>1 DEF ClientWrites, TypeOK
<1>3. /\ job \in Jobs /\ Count(job, "up") = Len(job.requests) /\ Len(job.requests) \in Nat
      /\ client.sent \in 0..Count(job, "up")
  BY <1>1, Calls DEF TypeOK
<1>4. client.sent + 1 \in 1..Count(job, "up") /\ client.sent + 1 \in 0..Count(job, "up")
  BY <1>2, <1>3
<1>5. /\ old \in Nat /\ new \in Nat /\ new <= Len(AllBytes(job, "up")) /\ old < new
      /\ Len(AllBytes(job, "up")) \in Nat
  BY <1>3, <1>4, Ends DEF Way
<1>6. Encode(Request(job, client.sent + 1)) = Part(job, "up", old, new)
  <2>1. \A n \in 1..Count(job, "up") : Encode(Said(job, "up", n)) =
            Part(job, "up", EndOf(job, "up", n - 1), EndOf(job, "up", n))
    BY <1>3, Ends DEF Way
  <2>2. (client.sent + 1) - 1 = client.sent
    BY <1>3
  <2>3. Encode(Said(job, "up", client.sent + 1)) = Part(job, "up", old, new)
    BY <1>4, <2>1, <2>2
  <2> QED BY <2>3 DEF Said
<1> HIDE DEF old, new
<1>7. Part(job, "up", old, new) \in Seq(Byte)
  <2>1. old <= new
    BY <1>5
  <2> QED BY <1>3, <1>5, <2>1, PartType DEF Way
<1>8. TypeOK'
  <2>1. client' \in [phase : {"sending", "reading", "done", "failed", "left"},
                     sent : 0..Count(job, "up"), buffer : Seq(Byte),
                     batch : Seq(SaidIn(job, "down")),
                     values : Seq(Range(job.answer.values)), error : Errors]
    BY <1>1, <1>4 DEF ClientWrites, TypeOK
  <2>2. up' \in [bytes : Seq(Byte), ended : {"no", "fin", "stopped"}]
    <3>1. up.bytes \o Part(job, "up", old, new) \in Seq(Byte)
      BY <1>1, <1>7, ConcatProperties DEF TypeOK
    <3> QED BY <1>1, <1>6, <3>1 DEF ClientWrites, TypeOK
  <2>3. Errors' = Errors
    BY <1>2 DEF Errors
  <2> QED BY <1>1, <1>2, <2>1, <2>2, <2>3 DEF TypeOK
<1>9. ServerInv'
  <2>1. ASSUME server.phase = "reading" PROVE ServerReadsOn'
    <3>1. ServerReadsOn
      BY <2>1 DEF IInv, ServerInv
    <3>2. /\ server.bytesRead \in Nat /\ server.bytesRead <= old
          /\ up.bytes = Part(job, "up", server.bytesRead, old)
      BY <1>1, <3>1 DEF ServerReadsOn, TypeOK, old
    <3>3. up'.bytes = Part(job, "up", server.bytesRead, new)
      <4>1. PICK read \in Nat : read = server.bytesRead
        BY <3>2
      <4>2. /\ old <= new /\ read <= old /\ old \in Nat /\ new \in Nat
            /\ new <= Len(AllBytes(job, "up")) /\ "up" \in Way
        BY <1>5, <3>2, <4>1 DEF Way
      <4>3. Part(job, "up", read, old) \o Part(job, "up", old, new) = Part(job, "up", read, new)
        BY <1>3, <4>2, PartsJoin
      <4> QED BY <1>2, <1>6, <3>2, <4>1, <4>3
    <3>4. server.bytesRead <= new
      BY <1>5, <3>2
    <3> QED BY <1>2, <3>1, <3>3, <3>4 DEF ServerReadsOn, new
  <2> QED BY <1>2, <2>1 DEF IInv, ServerInv
<1>10. EndsInv' /\ GivenInv' /\ ClientReadsOn' /\ OutcomeInv'
  BY <1>2 DEF IInv, EndsInv, GivenInv, ClientReadsOn, OutcomeInv, IsServerStream
<1> QED BY <1>8, <1>9, <1>10 DEF IInv

\* After the last request the caller closes and reads.
LEMMA ClientClosesKeeps ==
    ASSUME IInv, ClientCloses
    PROVE  IInv'
<1>1. TypeOK
  BY DEF IInv
<1>2. /\ client.phase = "sending" /\ client.sent = Len(job.requests) /\ up.ended = "no"
      /\ up'.bytes = up.bytes /\ up'.ended = "fin"
      /\ client'.sent = client.sent /\ client'.phase = "reading"
      /\ client'.buffer = client.buffer /\ client'.batch = client.batch
      /\ client'.values = client.values /\ client'.error = client.error
      /\ UNCHANGED <<job, server, down, broken>>
  BY <1>1 DEF ClientCloses, TypeOK
<1>3. TypeOK'
  <2>1. Errors' = Errors
    BY <1>2 DEF Errors
  <2> QED BY <1>1, <1>2, <2>1 DEF ClientCloses, TypeOK
<1>4. ServerInv'
  <2>1. Count(job, "up") = Len(job.requests)
    BY DEF Count
  <2>2. server.phase = "reading" => ServerReadsOn'
    BY <1>2 DEF IInv, ServerInv, ServerReadsOn
  <2> QED BY <1>2, <2>1, <2>2 DEF IInv, ServerInv
<1>5. EndsInv' /\ GivenInv' /\ ClientReadsOn' /\ OutcomeInv'
  BY <1>2 DEF IInv, EndsInv, GivenInv, ClientReadsOn, OutcomeInv, IsServerStream
<1> QED BY <1>3, <1>4, <1>5 DEF IInv
-----------------------------------------------------------------------------
(* The client reads *)

\* What is read, what is written and what the consumer has, by names.
LEMMA Reads ==
    ASSUME IInv, client.phase \in {"sending", "reading"}
    PROVE  \E written, pos, given, read \in Nat :
               /\ written = EndOf(job, "down", server.sent)
               /\ pos = written - Len(down.bytes) /\ pos <= written
               /\ down.bytes = Part(job, "down", pos, written)
               /\ given = Len(client.values)
               /\ read = given + Len(client.batch) /\ given <= read
               /\ Complete(job, "down", read, pos) /\ read <= Count(job, "down")
               /\ client.batch = Messages(job, "down", given, read)
               /\ client.buffer = Part(job, "down", EndOf(job, "down", read), pos)
               /\ ~IsServerStream => pos = 0 /\ given = 0 /\ client.batch = <<>>
<1>1. TypeOK /\ ClientReadsOn
  BY DEF IInv
<1>2. /\ Len(down.bytes) \in Nat /\ Len(client.values) \in Nat /\ Len(client.batch) \in Nat
  BY <1>1, LenProperties DEF TypeOK
<1>3. EndOf(job, "down", server.sent) \in Nat
  <2>1. job \in Jobs /\ server.sent \in 0..Count(job, "down")
    BY <1>1 DEF TypeOK
  <2> QED BY <2>1, Ends DEF Way
<1>4. PICK written \in Nat : written = EndOf(job, "down", server.sent)
  BY <1>3
<1>5. PICK given \in Nat : given = Len(client.values)
  BY <1>2
<1>6. PICK read \in Nat : read = given + Len(client.batch)
  BY <1>2
<1>7. Len(down.bytes) <= written
  BY <1>1, <1>4 DEF ClientReadsOn
<1>8. PICK pos \in Nat : pos = written - Len(down.bytes)
  BY <1>2, <1>7
<1>9. /\ pos <= written /\ given <= read
  BY <1>2, <1>6, <1>8
<1>10. /\ down.bytes = Part(job, "down", pos, written)
       /\ Complete(job, "down", read, pos)
       /\ client.batch = Messages(job, "down", given, read)
       /\ client.buffer = Part(job, "down", EndOf(job, "down", read), pos)
       /\ ~IsServerStream => pos = 0 /\ given = 0 /\ client.batch = <<>>
  BY <1>1, <1>4, <1>5, <1>6, <1>8 DEF ClientReadsOn
<1>11. read <= Count(job, "down")
  BY <1>10 DEF Complete
<1> QED BY <1>4, <1>5, <1>6, <1>8, <1>9, <1>10, <1>11

\* All of the values, when there are as many.
LEMMA AllGiven ==
    ASSUME TypeOK, GivenInv, Len(client.values) = Len(job.answer.values)
    PROVE  client.values = job.answer.values
<1>1. /\ job.answer.values \in Seq(Range(job.answer.values))
      /\ client.values \in Seq(Range(job.answer.values))
  BY Calls DEF TypeOK
<1>2. \A i \in 1..Len(client.values) : client.values[i] = job.answer.values[i]
  BY DEF GivenInv
<1> QED BY <1>1, <1>2, SeqEqual

\* What a message of the answer is: the next value, or the error behind them.
LEMMA AnswerIs ==
    ASSUME TypeOK, GivenInv, NEW given \in Nat, given = Len(client.values),
           given < Answers(job)
    PROVE  \/ /\ given < Len(job.answer.values)
              /\ Answer(job, given + 1).variant \in
                     IF IsServerStream THEN {"responseStreamStart", "responseStreamChunk"}
                     ELSE {"responseUnaryOk"}
              /\ IF job.unknown = "variant" /\ given + 1 = Len(job.answer.values)
                 THEN ValueIn(job, Answer(job, given + 1)).status = "bad"
                 ELSE /\ ValueIn(job, Answer(job, given + 1)).status = "ok"
                      /\ ValueIn(job, Answer(job, given + 1)).value
                             = job.answer.values[given + 1]
           \/ /\ client.values = job.answer.values
              /\ Answer(job, given + 1).variant =
                     IF IsServerStream THEN "responseStreamErrorEnd" ELSE "responseUnaryError"
              /\ ErrorIn(job, Answer(job, given + 1)) = job.answer.error
<1>1. /\ job \in Jobs /\ Len(job.answer.values) \in Nat
      /\ IF job.answer.error = "none" THEN Answers(job) = Len(job.answer.values)
         ELSE Answers(job) = Len(job.answer.values) + 1
  BY Calls
<1>2. CASE given < Len(job.answer.values)
  <2>1. PICK i \in 1..Len(job.answer.values) : i = given + 1
    BY <1>1, <1>2
  <2>2. /\ Answer(job, i).variant \in
               IF Stream(job) = "server" THEN {"responseStreamStart", "responseStreamChunk"}
               ELSE {"responseUnaryOk"}
        /\ IF job.unknown = "variant" /\ i = Len(job.answer.values)
           THEN ValueIn(job, Answer(job, i)).status = "bad"
           ELSE /\ ValueIn(job, Answer(job, i)).status = "ok"
                /\ ValueIn(job, Answer(job, i)).value = job.answer.values[i]
    BY <1>1, MeaningAssumption
  <2> QED BY <1>2, <2>1, <2>2 DEF IsServerStream
<1>3. CASE ~(given < Len(job.answer.values))
  <2>1. given <= Len(job.answer.values)
    BY DEF GivenInv
  <2>2. /\ given = Len(job.answer.values) /\ job.answer.error # "none"
        /\ Answers(job) = given + 1
    BY <1>1, <1>3, <2>1
  <2>3. client.values = job.answer.values
    BY <2>2, AllGiven
  <2>4. /\ Answer(job, Answers(job)).variant =
               IF Stream(job) = "server" THEN "responseStreamErrorEnd" ELSE "responseUnaryError"
        /\ ErrorIn(job, Answer(job, Answers(job))) = job.answer.error
    BY <1>1, <2>2, MeaningAssumption
  <2> QED BY <2>2, <2>3, <2>4 DEF IsServerStream
<1> QED BY <1>2, <1>3

\* One more value is given: it is the answer's next.
LEMMA OneMore ==
    ASSUME TypeOK, GivenInv, NEW given \in Nat, given = Len(client.values),
           given < Len(job.answer.values),
           ~(job.unknown = "variant" /\ given + 1 = Len(job.answer.values)),
           NEW more, more = Append(client.values, job.answer.values[given + 1])
    PROVE  /\ more \in Seq(Range(job.answer.values)) /\ Len(more) = given + 1
           /\ given + 1 <= Len(job.answer.values)
           /\ job.unknown = "variant" => given + 1 < Len(job.answer.values)
           /\ \A i \in 1..given + 1 : more[i] = job.answer.values[i]
<1>1. /\ job.answer.values \in Seq(Range(job.answer.values))
      /\ client.values \in Seq(Range(job.answer.values))
      /\ Len(job.answer.values) \in Nat
  BY Calls DEF TypeOK
<1>2. PICK i \in 1..Len(job.answer.values) : i = given + 1
  BY <1>1
<1>3. job.answer.values[i] \in Range(job.answer.values)
  BY <1>1, ElementOfSeq
<1>4. /\ more \in Seq(Range(job.answer.values)) /\ Len(more) = Len(client.values) + 1
      /\ \A x \in 1..Len(client.values) : more[x] = client.values[x]
      /\ more[Len(client.values) + 1] = job.answer.values[i]
  BY <1>1, <1>2, <1>3, AppendProperties
<1>5. \A x \in 1..given : client.values[x] = job.answer.values[x]
  BY DEF GivenInv
<1>6. \A x \in 1..given + 1 : x \in 1..given \/ x = given + 1
  OBVIOUS
<1>7. \A x \in 1..given + 1 : more[x] = job.answer.values[x]
  BY <1>2, <1>4, <1>5, <1>6
<1> QED BY <1>1, <1>2, <1>4, <1>7

\* The answer of a call without an answer stream is read at once, when it has
\* ended.
LEMMA ClientReadsAnswerKeeps ==
    ASSUME IInv, ClientReadsAnswer
    PROVE  IInv'
<1> DEFINE messages == DecodeAll(down.bytes)
<1>1. TypeOK /\ GivenInv
  BY DEF IInv
<1>2. /\ client.phase = "reading" /\ ~IsServerStream /\ down.ended = "fin"
      /\ UNCHANGED <<job, up, server, broken>>
      /\ down' = [down EXCEPT !.bytes = <<>>]
  BY DEF ClientReadsAnswer
<1>3. PICK written, pos, given, read \in Nat :
          /\ written = EndOf(job, "down", server.sent)
          /\ pos = written - Len(down.bytes) /\ pos <= written
          /\ down.bytes = Part(job, "down", pos, written)
          /\ given = Len(client.values)
          /\ ~IsServerStream => pos = 0 /\ given = 0 /\ client.batch = <<>>
  BY <1>2, Reads
<1>4. server.phase = "ended"
  BY <1>2 DEF IInv, EndsInv
<1>5. /\ job \in Jobs /\ Count(job, "down") = Answers(job)
      /\ server.sent \in 0..Count(job, "down")
  BY <1>1, Calls DEF TypeOK
<1>6. Answers(job) = 1
  BY <1>2, <1>5, JobsAssumption DEF IsServerStream
<1>7. server.sent = 0 \/ server.sent = 1
  BY <1>5, <1>6
<1>8. PICK sent \in 0..Count(job, "down") : sent = server.sent
  BY <1>5
<1>9. /\ messages.status = "ok" /\ messages.value = Messages(job, "down", 0, sent)
  <2> DEFINE end == [n \in 0..Count(job, "down") |-> EndOf(job, "down", n)]
  <2>1. /\ DecodeAll(SubSeq(AllBytes(job, "down"), 1, end[sent])).status = "ok"
        /\ DecodeAll(SubSeq(AllBytes(job, "down"), 1, end[sent])).value
               = Messages(job, "down", 0, sent)
    BY <1>5, FramingAssumption
  <2>2. end[sent] = written
    BY <1>3, <1>8
  <2>3. down.bytes = SubSeq(AllBytes(job, "down"), 1, written)
    <3>1. down.bytes = Part(job, "down", 0, written)
      BY <1>2, <1>3
    <3>2. 0 + 1 = 1
      OBVIOUS
    <3> QED BY <3>1, <3>2 DEF Part
  <2> QED BY <2>1, <2>2, <2>3
<1>10. /\ Len(messages.value) = sent
       /\ sent = 1 => messages.value[1] = Answer(job, 1)
  <2>1. 0 <= sent /\ sent <= Count(job, "down") /\ sent \in Nat
    BY <1>7, <1>8
  <2>2. /\ Len(Messages(job, "down", 0, sent)) = sent - 0
        /\ \A i \in 1..sent - 0 : Messages(job, "down", 0, sent)[i] = Said(job, "down", 0 + i)
    BY <1>5, <2>1, MessagesAre DEF Way
  <2>3. Said(job, "down", 1) = Answer(job, 1)
    BY DEF Said
  <2> QED BY <1>9, <2>1, <2>2, <2>3
<1>13. /\ Len(messages.value) # 1 => Fail("not one answer")
       /\ Len(messages.value) = 1 =>
              LET answer == messages.value[1]
                  value == ValueIn(job, answer)
              IN  /\ answer.variant = "responseUnaryError" => Fail(ErrorIn(job, answer))
                  /\ answer.variant = "responseUnaryOk" =>
                         IF value.status = "bad" THEN Fail("malformed")
                         ELSE client' = [client EXCEPT !.phase = "done",
                                                       !.values = <<value.value>>]
  <2>1. PICK found \in {DecodeAll(down.bytes)} :
            IF found.status = "bad" THEN Fail("malformed")
            ELSE IF Len(found.value) # 1 THEN Fail("not one answer")
            ELSE IF found.value[1].variant = "responseUnaryError"
            THEN Fail(ErrorIn(job, found.value[1]))
            ELSE IF found.value[1].variant # "responseUnaryOk" THEN Fail("not an answer")
            ELSE \E value \in {ValueIn(job, found.value[1])} :
                     IF value.status = "bad" THEN Fail("malformed")
                     ELSE client' = [client EXCEPT !.phase = "done",
                                                   !.values = <<value.value>>]
    BY Zenon DEF ClientReadsAnswer
  <2>2. found = messages
    OBVIOUS
  <2>3. found.status # "bad"
    BY <1>9, <2>2
  <2>4. CASE Len(found.value) # 1
    BY <2>1, <2>2, <2>3, <2>4, Zenon
  <2>5. CASE Len(found.value) = 1 /\ found.value[1].variant = "responseUnaryError"
    <3>1. found.value[1].variant # "responseUnaryOk"
      BY <2>5
    <3> QED BY <2>1, <2>2, <2>3, <2>5, <3>1, Zenon
  <2>6. CASE Len(found.value) = 1 /\ found.value[1].variant = "responseUnaryOk"
    <3>1. found.value[1].variant # "responseUnaryError"
      BY <2>6
    <3>2. PICK value \in {ValueIn(job, found.value[1])} :
              IF value.status = "bad" THEN Fail("malformed")
              ELSE client' = [client EXCEPT !.phase = "done", !.values = <<value.value>>]
      BY <2>1, <2>3, <2>6, <3>1, Zenon
    <3>3. value = ValueIn(job, found.value[1])
      OBVIOUS
    <3> HIDE DEF messages
    <3> QED BY <2>2, <2>6, <3>1, <3>2, <3>3, Zenon
  <2>7. CASE /\ Len(found.value) = 1
             /\ found.value[1].variant \notin {"responseUnaryError", "responseUnaryOk"}
    <3>1. /\ found.value[1].variant # "responseUnaryError"
          /\ found.value[1].variant # "responseUnaryOk"
      BY <2>7
    <3> QED BY <2>2, <2>7, <3>1, Zenon
  <2> QED BY <2>4, <2>5, <2>6, <2>7, Zenon
<1> HIDE DEF messages
<1>11. CASE server.sent = 0
  <2>1. Fail("not one answer")
    <3>1. Len(messages.value) # 1
      BY <1>8, <1>10, <1>11
    <3> QED BY <1>13, <3>1, Zenon
  <2>2. "not one answer" \in Errors /\ server.sent < Answers(job)
    BY <1>6, <1>11 DEF Errors
  <2> QED BY <1>2, <1>4, <2>1, <2>2, ClientFails
<1>12. CASE server.sent = 1
  <2>1. given < Answers(job) /\ given + 1 = 1 /\ given = 0
    BY <1>2, <1>3, <1>6
  <2>2. \/ /\ given < Len(job.answer.values)
           /\ Answer(job, 1).variant = "responseUnaryOk"
           /\ IF job.unknown = "variant" /\ given + 1 = Len(job.answer.values)
              THEN ValueIn(job, Answer(job, 1)).status = "bad"
              ELSE /\ ValueIn(job, Answer(job, 1)).status = "ok"
                   /\ ValueIn(job, Answer(job, 1)).value = job.answer.values[given + 1]
        \/ /\ client.values = job.answer.values
           /\ Answer(job, 1).variant = "responseUnaryError"
           /\ ErrorIn(job, Answer(job, 1)) = job.answer.error
    BY <1>1, <1>2, <1>3, <2>1, AnswerIs
  <2>3. messages.value[1] = Answer(job, 1) /\ Len(messages.value) = 1
    BY <1>8, <1>10, <1>12
  <2>4. CASE /\ client.values = job.answer.values
             /\ Answer(job, 1).variant = "responseUnaryError"
             /\ ErrorIn(job, Answer(job, 1)) = job.answer.error
    <3>1. Fail(job.answer.error)
      BY <1>13, <2>3, <2>4, Zenon
    <3>2. job.answer.error \in Errors
      BY DEF Errors
    <3> QED BY <1>2, <2>4, <3>1, <3>2, ClientFails
  <2>5. CASE /\ given < Len(job.answer.values)
             /\ Answer(job, 1).variant = "responseUnaryOk"
             /\ job.unknown = "variant" /\ given + 1 = Len(job.answer.values)
             /\ ValueIn(job, Answer(job, 1)).status = "bad"
    <3>1. Fail("malformed")
      BY <1>13, <2>3, <2>5, Zenon
    <3>2. "malformed" \in Errors
      BY DEF Errors
    <3> QED BY <1>2, <1>3, <2>5, <3>1, <3>2, ClientFails
  <2>6. CASE /\ given < Len(job.answer.values)
             /\ Answer(job, 1).variant = "responseUnaryOk"
             /\ ~(job.unknown = "variant" /\ given + 1 = Len(job.answer.values))
             /\ ValueIn(job, Answer(job, 1)).status = "ok"
             /\ ValueIn(job, Answer(job, 1)).value = job.answer.values[given + 1]
    <3> DEFINE more == Append(client.values, job.answer.values[given + 1])
    <3>1. client' = [client EXCEPT !.phase = "done", !.values = <<job.answer.values[given + 1]>>]
      <4>1. ValueIn(job, Answer(job, 1)).status # "bad"
        BY <2>6
      <4> QED BY <1>13, <2>3, <2>6, <4>1, Zenon
    <3>2. <<job.answer.values[given + 1]>> = more
      <4>1. client.values = <<>>
        BY <1>1, <1>3, <2>1, EmptySeq DEF TypeOK
      <4>2. \A x : <<x>> = Append(<<>>, x)
        OBVIOUS
      <4> QED BY <4>1, <4>2
    <3>3. /\ more \in Seq(Range(job.answer.values)) /\ Len(more) = given + 1
          /\ given + 1 <= Len(job.answer.values)
          /\ job.unknown = "variant" => given + 1 < Len(job.answer.values)
          /\ \A i \in 1..given + 1 : more[i] = job.answer.values[i]
      BY <1>1, <1>3, <2>6, OneMore
    <3> HIDE DEF more
    <3>4. /\ client'.phase = "done" /\ client'.values = more /\ client'.sent = client.sent
      BY <1>1, <3>1, <3>2 DEF TypeOK
    <3>5. TypeOK'
      <4>1. client' \in [phase : {"sending", "reading", "done", "failed", "left"},
                         sent : 0..Count(job, "up"), buffer : Seq(Byte),
                         batch : Seq(SaidIn(job, "down")),
                         values : Seq(Range(job.answer.values)), error : Errors]
        BY <1>1, <3>1, <3>2, <3>3 DEF TypeOK
      <4>2. down' \in [bytes : Seq(Byte), ended : {"no", "fin", "reset", "stopped"}]
        BY <1>1, <1>2, NoElements DEF TypeOK
      <4>3. Errors' = Errors
        BY <1>2 DEF Errors
      <4> QED BY <1>1, <1>2, <4>1, <4>2, <4>3 DEF TypeOK
    <3>6. ServerInv'
      BY <1>2, <3>4, ServerKept
    <3>7. GivenInv'
      BY <1>2, <3>3, <3>4 DEF GivenInv
    <3>8. EndsInv'
      <4>1. down'.ended = "fin"
        BY <1>1, <1>2 DEF TypeOK
      <4> QED BY <1>2, <1>4, <4>1 DEF EndsInv, IsServerStream
    <3>9. OutcomeInv'
      <4>1. /\ Len(job.answer.values) \in Nat
            /\ IF job.answer.error = "none" THEN Answers(job) = Len(job.answer.values)
               ELSE Answers(job) = Len(job.answer.values) + 1
        BY <1>1, Calls
      <4>2. job.answer.error = "none" /\ Len(job.answer.values) = 1
        BY <1>6, <2>1, <2>6, <4>1
      <4>3. TypeOK' /\ GivenInv' /\ Len(client'.values) = Len(job'.answer.values)
        BY <1>2, <2>1, <3>3, <3>4, <3>5, <3>7, <4>2
      <4>4. client'.values = job'.answer.values
        <5>1. /\ job.answer.values \in Seq(Range(job.answer.values))
              /\ \A i \in 1..Len(more) : more[i] = job.answer.values[i]
              /\ Len(more) = Len(job.answer.values)
          BY <1>1, <1>2, <2>1, <3>3, <4>2, Calls
        <5> QED BY <1>2, <3>3, <3>4, <5>1, SeqEqual
      <4> QED BY <1>2, <1>6, <1>12, <3>4, <4>2, <4>4 DEF OutcomeInv, Answers
    <3> QED BY <3>4, <3>5, <3>6, <3>7, <3>8, <3>9 DEF IInv
  <2> QED BY <2>2, <2>4, <2>5, <2>6
<1> QED BY <1>7, <1>11, <1>12

\* The pieces in which bytes are read have the sizes of the job.
LEMMA PieceOf ==
    ASSUME NEW bytes, NEW n \in Pieces(bytes)
    PROVE  n > 0 /\ \E p \in job.pieces : n = PieceSize(p, bytes)
  BY DEF Pieces, PieceSize

\* A piece of a server stream: its complete messages are those behind what the
\* consumer has, and the bytes behind them stay in the buffer.
LEMMA ClientReadsKeeps ==
    ASSUME IInv, ClientReads
    PROVE  IInv'
<1>1. TypeOK
  BY DEF IInv
<1>2. /\ client.phase = "reading" /\ IsServerStream /\ client.batch = <<>>
      /\ UNCHANGED <<job, up, server, broken>>
  BY DEF ClientReads
<1>3. PICK written, pos, given, read \in Nat :
          /\ written = EndOf(job, "down", server.sent)
          /\ pos = written - Len(down.bytes) /\ pos <= written
          /\ down.bytes = Part(job, "down", pos, written)
          /\ given = Len(client.values)
          /\ read = given + Len(client.batch) /\ given <= read
          /\ Complete(job, "down", read, pos) /\ read <= Count(job, "down")
          /\ client.buffer = Part(job, "down", EndOf(job, "down", read), pos)
  BY <1>2, Reads
<1>4. read = given
  BY <1>2, <1>3
<1>5. PICK sent \in 0..Count(job, "down") : sent = server.sent
  BY <1>1 DEF TypeOK
<1>6. job \in Jobs /\ Count(job, "down") \in Nat /\ "down" \in Way
  BY <1>1, Calls DEF Way
<1>7. PICK n \in Pieces(down.bytes) :
          \E prefix \in {DecodePrefix(client.buffer \o SubSeq(down.bytes, 1, n))} :
              IF prefix.status = "bad" THEN Raise("malformed")
              ELSE /\ client' = [client EXCEPT
                        !.buffer = Unread(client.buffer \o SubSeq(down.bytes, 1, n), prefix.next),
                        !.batch = prefix.value]
                   /\ down' = [down EXCEPT !.bytes = SubSeq(@, n + 1, Len(@))]
  BY Zenon DEF ClientReads
<1>8. PICK p \in job.pieces : n = PieceSize(p, down.bytes)
  BY PieceOf
<1>9. PICK bytes : bytes = down.bytes
  OBVIOUS
<1>10. PICK buffered : buffered = client.buffer \o Taken(down.bytes, n)
  OBVIOUS
<1>11. PICK to \in read..Count(job, "down") :
           ReadTo(job, "down", sent, pos, read, n, bytes, buffered, to)
  <2>1. pos <= EndOf(job, "down", sent) /\ bytes = Part(job, "down", pos, EndOf(job, "down", sent))
    BY <1>3, <1>5, <1>9
  <2>2. n = PieceSize(p, bytes)
    BY <1>8, <1>9
  <2>3. /\ buffered = Part(job, "down", EndOf(job, "down", read), pos) \o Taken(bytes, n)
        /\ Complete(job, "down", read, pos)
    BY <1>3, <1>9, <1>10
  <2> QED BY <1>6, <2>1, <2>2, <2>3, ReadMore
<1>12. /\ client' = [client EXCEPT
               !.buffer = Part(job, "down", EndOf(job, "down", to), pos + n),
               !.batch = Messages(job, "down", read, to)]
       /\ down' = [down EXCEPT !.bytes = Part(job, "down", pos + n, written)]
  <2>1. PICK prefix \in {DecodePrefix(client.buffer \o SubSeq(down.bytes, 1, n))} :
              IF prefix.status = "bad" THEN Raise("malformed")
              ELSE /\ client' = [client EXCEPT
                        !.buffer = Unread(client.buffer \o SubSeq(down.bytes, 1, n), prefix.next),
                        !.batch = prefix.value]
                   /\ down' = [down EXCEPT !.bytes = SubSeq(@, n + 1, Len(@))]
    BY <1>7
  <2>2. buffered = client.buffer \o SubSeq(down.bytes, 1, n)
    BY <1>10, Zenon DEF Taken
  <2>3. prefix = DecodePrefix(buffered)
    BY <2>2, Zenon
  <2>4. prefix.status # "bad"
    BY <1>11, <2>3 DEF ReadTo
  <2>5. /\ client' = [client EXCEPT !.buffer = Unread(buffered, prefix.next),
                                    !.batch = prefix.value]
        /\ down' = [down EXCEPT !.bytes = SubSeq(down.bytes, n + 1, Len(down.bytes))]
    BY <2>1, <2>2, <2>4, Zenon
  <2>6. SubSeq(down.bytes, n + 1, Len(down.bytes)) = Part(job, "down", pos + n, written)
    <3>1. Unread(bytes, n) = Part(job, "down", pos + n, EndOf(job, "down", server.sent))
      BY <1>5, <1>11 DEF ReadTo
    <3> QED BY <1>3, <1>9, <3>1, Zenon DEF Unread
  <2> QED BY <1>11, <2>3, <2>5, <2>6, Zenon DEF ReadTo
<1>13. PICK now \in Nat : now = pos + n
  BY <1>11 DEF ReadTo
<1>14. /\ to \in Nat /\ given <= to /\ to <= Count(job, "down")
       /\ now <= written /\ written <= Len(AllBytes(job, "down"))
       /\ EndOf(job, "down", to) \in Nat /\ EndOf(job, "down", to) <= now
       /\ now <= Len(AllBytes(job, "down"))
  <2>1. to \in Nat /\ given <= to /\ to <= Count(job, "down") /\ to \in 0..Count(job, "down")
    BY <1>4, <1>6
  <2>2. /\ EndOf(job, "down", to) \in Nat /\ written <= Len(AllBytes(job, "down"))
        /\ Len(AllBytes(job, "down")) \in Nat
    BY <1>3, <1>5, <1>6, <2>1, Ends
  <2>3. now <= written
    BY <1>3, <1>5, <1>11, <1>13 DEF ReadTo
  <2>4. EndOf(job, "down", to) <= now
    BY <1>11, <1>13 DEF Complete, ReadTo
  <2>5. now <= Len(AllBytes(job, "down"))
    BY <2>2, <2>3
  <2> QED BY <2>1, <2>2, <2>3, <2>4, <2>5
<1>15. /\ Messages(job, "down", given, to) \in Seq(SaidIn(job, "down"))
       /\ Len(Messages(job, "down", given, to)) = to - given
  BY <1>6, <1>14, MessagesAre
<1>16. /\ Part(job, "down", EndOf(job, "down", to), now) \in Seq(Byte)
       /\ Part(job, "down", now, written) \in Seq(Byte)
       /\ Len(Part(job, "down", now, written)) = written - now
  <2>1. PICK end \in Nat : end = EndOf(job, "down", to)
    BY <1>14
  <2>2. Part(job, "down", end, now) \in Seq(Byte)
    <3>1. end <= now /\ now <= Len(AllBytes(job, "down"))
      BY <1>14, <2>1
    <3> QED BY <1>6, <3>1, PartType
  <2>3. /\ Part(job, "down", now, written) \in Seq(Byte)
        /\ Len(Part(job, "down", now, written)) = written - now
    <3>1. now <= written /\ written <= Len(AllBytes(job, "down"))
      BY <1>14
    <3> QED BY <1>6, <3>1, PartType
  <2> QED BY <2>1, <2>2, <2>3
<1>17. /\ client'.phase = "reading" /\ client'.sent = client.sent
       /\ client'.values = client.values /\ client'.error = client.error
       /\ client'.buffer = Part(job, "down", EndOf(job, "down", to), now)
       /\ client'.batch = Messages(job, "down", given, to)
       /\ down'.bytes = Part(job, "down", now, written) /\ down'.ended = down.ended
  BY <1>1, <1>2, <1>4, <1>12, <1>13 DEF TypeOK
<1>18. TypeOK'
  <2>1. client' \in [phase : {"sending", "reading", "done", "failed", "left"},
                     sent : 0..Count(job, "up"), buffer : Seq(Byte),
                     batch : Seq(SaidIn(job, "down")),
                     values : Seq(Range(job.answer.values)), error : Errors]
    BY <1>1, <1>4, <1>12, <1>13, <1>15, <1>16 DEF TypeOK
  <2>2. down' \in [bytes : Seq(Byte), ended : {"no", "fin", "reset", "stopped"}]
    BY <1>1, <1>12, <1>13, <1>16 DEF TypeOK
  <2>3. Errors' = Errors
    BY <1>2 DEF Errors
  <2> QED BY <1>1, <1>2, <2>1, <2>2, <2>3 DEF TypeOK
<1>19. ServerInv'
  BY <1>2, <1>17, ServerKept
<1>20. EndsInv' /\ GivenInv' /\ OutcomeInv'
  BY <1>2, <1>17 DEF IInv, EndsInv, GivenInv, OutcomeInv, IsServerStream
<1>21. ClientReadsOn'
  <2>1. Len(down'.bytes) = written - now /\ Len(client'.batch) = to - given
    BY <1>15, <1>16, <1>17
  <2>2. /\ written - Len(down'.bytes) = now /\ Len(down'.bytes) <= written
        /\ given + Len(client'.batch) = to
    BY <1>14, <2>1
  <2>3. EndOf(job', "down", server'.sent) = written /\ Len(client'.values) = given
    BY <1>2, <1>3, <1>17
  <2>4. Complete(job', "down", to, now)
    BY <1>2, <1>11, <1>13 DEF ReadTo
  <2> QED BY <1>2, <1>17, <2>2, <2>3, <2>4 DEF ClientReadsOn, IsServerStream
<1> QED BY <1>17, <1>18, <1>19, <1>20, <1>21 DEF IInv

\* The next message of the batch is given to the consumer, or ends the call.
LEMMA ClientYieldsKeeps ==
    ASSUME IInv, ClientYields
    PROVE  IInv'
<1> DEFINE message == Head(client.batch)
<1>1. TypeOK /\ GivenInv
  BY DEF IInv
<1>2. /\ client.phase = "reading" /\ client.batch # <<>>
      /\ UNCHANGED <<job, up, server, broken>>
  BY DEF ClientYields
<1>3. PICK written, pos, given, read \in Nat :
          /\ written = EndOf(job, "down", server.sent)
          /\ pos = written - Len(down.bytes) /\ pos <= written
          /\ down.bytes = Part(job, "down", pos, written)
          /\ given = Len(client.values)
          /\ read = given + Len(client.batch) /\ given <= read
          /\ Complete(job, "down", read, pos) /\ read <= Count(job, "down")
          /\ client.batch = Messages(job, "down", given, read)
          /\ client.buffer = Part(job, "down", EndOf(job, "down", read), pos)
          /\ ~IsServerStream => pos = 0 /\ given = 0 /\ client.batch = <<>>
  BY <1>2, Reads
<1>4. IsServerStream
  BY <1>2, <1>3
<1>5. job \in Jobs /\ Count(job, "down") = Answers(job) /\ Answers(job) \in Nat /\ "down" \in Way
  BY <1>1, Calls DEF Way
<1>6. given <= read /\ read <= Count(job, "down")
  BY <1>3
<1>7. client.batch = Messages(job, "down", given, read)
  BY <1>3
<1>8. /\ given < read
      /\ message = Said(job, "down", given + 1)
      /\ Tail(client.batch) = Messages(job, "down", given + 1, read)
  <2>1. Messages(job, "down", given, read) # <<>>
    BY <1>2, <1>7
  <2>2. /\ given < read
        /\ Head(Messages(job, "down", given, read)) = Said(job, "down", given + 1)
        /\ Tail(Messages(job, "down", given, read)) = Messages(job, "down", given + 1, read)
    BY <1>5, <1>6, <2>1, MessagesTail
  <2> QED BY <1>7, <2>2
<1>9. message = Answer(job, given + 1)
  BY <1>8 DEF Said
<1>10. \/ /\ given < Len(job.answer.values)
         /\ message.variant \in {"responseStreamStart", "responseStreamChunk"}
         /\ IF job.unknown = "variant" /\ given + 1 = Len(job.answer.values)
            THEN ValueIn(job, message).status = "bad"
            ELSE /\ ValueIn(job, message).status = "ok"
                 /\ ValueIn(job, message).value = job.answer.values[given + 1]
      \/ /\ client.values = job.answer.values
         /\ message.variant = "responseStreamErrorEnd"
         /\ ErrorIn(job, message) = job.answer.error
  <2>1. given < Answers(job)
    <3>1. given < read /\ read <= Answers(job)
      BY <1>5, <1>8, <1>6
    <3> QED BY <1>5, <3>1
  <2> HIDE DEF message
  <2> QED BY <1>1, <1>3, <1>4, <1>9, <2>1, AnswerIs
<1> HIDE DEF message
<1>11. CASE /\ client.values = job.answer.values
           /\ message.variant = "responseStreamErrorEnd"
           /\ ErrorIn(job, message) = job.answer.error
  <2>1. Fail(job.answer.error) /\ down' = Cancelled
    BY <1>11, Zenon DEF ClientYields, Raise, message
  <2>2. job.answer.error \in Errors
    BY DEF Errors
  <2> QED BY <1>2, <1>11, <2>1, <2>2, ClientFails
<1>12. ASSUME message.variant \in {"responseStreamStart", "responseStreamChunk"}
       PROVE  IF ValueIn(job, message).status = "bad" THEN Raise("malformed")
              ELSE /\ client' = [client EXCEPT !.batch = Tail(client.batch),
                                !.values = Append(client.values, ValueIn(job, message).value)]
                   /\ UNCHANGED down
  <2>1. message.variant # "responseStreamErrorEnd"
    BY <1>12
  <2>2. PICK value \in {ValueIn(job, message)} :
            IF value.status = "bad" THEN Raise("malformed")
            ELSE /\ client' = [client EXCEPT !.batch = Tail(client.batch),
                                             !.values = Append(client.values, value.value)]
                 /\ UNCHANGED down
    BY <1>12, <2>1, Zenon DEF ClientYields, message
  <2>3. value = ValueIn(job, message)
    OBVIOUS
  <2> QED BY <2>2, <2>3, Zenon
<1>13. CASE /\ given < Len(job.answer.values)
            /\ message.variant \in {"responseStreamStart", "responseStreamChunk"}
            /\ job.unknown = "variant" /\ given + 1 = Len(job.answer.values)
            /\ ValueIn(job, message).status = "bad"
  <2>1. Fail("malformed") /\ down' = Cancelled
    BY <1>12, <1>13, Zenon DEF Raise
  <2>2. "malformed" \in Errors
    BY DEF Errors
  <2> QED BY <1>2, <1>3, <1>13, <2>1, <2>2, ClientFails
<1>14. CASE /\ given < Len(job.answer.values)
            /\ message.variant \in {"responseStreamStart", "responseStreamChunk"}
            /\ ~(job.unknown = "variant" /\ given + 1 = Len(job.answer.values))
            /\ ValueIn(job, message).status = "ok"
            /\ ValueIn(job, message).value = job.answer.values[given + 1]
  <2>1. PICK more : more = Append(client.values, job.answer.values[given + 1])
    OBVIOUS
  <2>2. PICK rest : rest = Messages(job, "down", given + 1, read)
    OBVIOUS
  <2>3. client' = [client EXCEPT !.batch = rest, !.values = more] /\ down' = down
    <3>1. ValueIn(job, message).status # "bad"
      BY <1>14
    <3> QED BY <1>8, <1>12, <1>14, <2>1, <2>2, <3>1, Zenon
  <2>4. /\ more \in Seq(Range(job.answer.values)) /\ Len(more) = given + 1
        /\ given + 1 <= Len(job.answer.values)
        /\ job.unknown = "variant" => given + 1 < Len(job.answer.values)
        /\ \A i \in 1..given + 1 : more[i] = job.answer.values[i]
    BY <1>1, <1>3, <1>14, <2>1, OneMore
  <2>5. rest \in Seq(SaidIn(job, "down")) /\ Len(rest) = read - (given + 1)
    <3>1. PICK next \in Nat : next = given + 1
      OBVIOUS
    <3>2. next <= read /\ read <= Count(job, "down")
      BY <1>8, <1>6, <3>1
    <3>3. /\ Messages(job, "down", next, read) \in Seq(SaidIn(job, "down"))
          /\ Len(Messages(job, "down", next, read)) = read - next
      BY <1>5, <3>2, MessagesAre
    <3> QED BY <2>2, <3>1, <3>3
  <2>6. /\ client'.phase = "reading" /\ client'.sent = client.sent
        /\ client'.values = more /\ client'.error = client.error
        /\ client'.buffer = client.buffer /\ client'.batch = rest
    BY <1>1, <1>2, <2>3 DEF TypeOK
  <2>7. TypeOK'
    <3>1. client' \in [phase : {"sending", "reading", "done", "failed", "left"},
                       sent : 0..Count(job, "up"), buffer : Seq(Byte),
                       batch : Seq(SaidIn(job, "down")),
                       values : Seq(Range(job.answer.values)), error : Errors]
      BY <1>1, <2>3, <2>4, <2>5 DEF TypeOK
    <3>2. Errors' = Errors
      BY <1>2 DEF Errors
    <3> QED BY <1>1, <1>2, <2>3, <3>1, <3>2 DEF TypeOK
  <2>8. ServerInv'
    BY <1>2, <2>6, ServerKept
  <2>9. EndsInv' /\ OutcomeInv'
    BY <1>2, <2>3, <2>6 DEF IInv, EndsInv, OutcomeInv, IsServerStream
  <2>10. GivenInv'
    BY <1>2, <2>4, <2>6 DEF GivenInv
  <2>11. ClientReadsOn'
    <3>1. Len(client'.values) + Len(client'.batch) = read
      BY <1>8, <2>4, <2>5, <2>6
    <3>2. ClientReadsOn
      BY <1>2 DEF IInv
    <3> QED BY <1>2, <1>3, <1>4, <2>2, <2>3, <2>4, <2>6, <3>1, <3>2
            DEF ClientReadsOn, IsServerStream
  <2> QED BY <2>6, <2>7, <2>8, <2>9, <2>10, <2>11 DEF IInv
<1> QED BY <1>10, <1>11, <1>13, <1>14

\* All that was written is read when as much of it is.
LEMMA CompleteAll ==
    ASSUME NEW j \in Jobs, NEW way \in Way, NEW m \in 0..Count(j, way), NEW n,
           Complete(j, way, n, EndOf(j, way, m))
    PROVE  n = m
<1>1. Count(j, way) \in Nat
  BY Ends
<1>2. /\ n \in 0..Count(j, way) /\ EndOf(j, way, n) <= EndOf(j, way, m)
      /\ \A k \in 0..Count(j, way) : n < k => EndOf(j, way, m) < EndOf(j, way, k)
  BY DEF Complete
<1>3. EndOf(j, way, n) \in Nat /\ EndOf(j, way, m) \in Nat
  BY <1>2, Ends
<1>4. ~(n < m)
  BY <1>2, <1>3
<1>5. ~(m < n)
  <2>1. m < n => EndOf(j, way, m) < EndOf(j, way, n)
    BY <1>2, Ends
  <2> QED BY <1>2, <1>3, <2>1
<1> QED BY <1>1, <1>2, <1>4, <1>5

\* At the end of a server stream everything is read and given: there is no half
\* of a message left.
LEMMA ClientEndsKeeps ==
    ASSUME IInv, ClientEnds
    PROVE  IInv'
<1>1. TypeOK /\ GivenInv
  BY DEF IInv
<1>2. /\ client.phase = "reading" /\ IsServerStream /\ client.batch = <<>>
      /\ down.bytes = <<>> /\ down.ended = "fin"
      /\ UNCHANGED <<job, up, server, down, broken>>
  BY DEF ClientEnds
<1>3. PICK written, pos, given, read \in Nat :
          /\ written = EndOf(job, "down", server.sent)
          /\ pos = written - Len(down.bytes)
          /\ given = Len(client.values)
          /\ read = given + Len(client.batch)
          /\ Complete(job, "down", read, pos)
          /\ client.buffer = Part(job, "down", EndOf(job, "down", read), pos)
  BY <1>2, Reads
<1>4. server.phase = "ended" /\ server.sent = Answers(job)
  BY <1>2 DEF IInv, EndsInv
<1>5. /\ job \in Jobs /\ Count(job, "down") = Answers(job) /\ "down" \in Way
      /\ Len(job.answer.values) \in Nat
      /\ IF job.answer.error = "none" THEN Answers(job) = Len(job.answer.values)
         ELSE Answers(job) = Len(job.answer.values) + 1
      /\ server.sent \in 0..Count(job, "down")
  BY <1>1, Calls DEF Way, TypeOK
<1>6. pos = EndOf(job, "down", server.sent) /\ read = given
  BY <1>2, <1>3
<1>7. read = server.sent
  BY <1>3, <1>5, <1>6, CompleteAll
<1>8. client.buffer = <<>>
  BY <1>3, <1>5, <1>6, <1>7, NoPart
<1>9. client' = [client EXCEPT !.phase = "done"]
  BY <1>8 DEF ClientEnds
<1>10. given = Len(job.answer.values) /\ job.answer.error = "none"
  BY <1>1, <1>3, <1>4, <1>5, <1>6, <1>7 DEF GivenInv
<1>11. client.values = job.answer.values
  BY <1>1, <1>3, <1>10, AllGiven
<1>12. /\ client'.phase = "done" /\ client'.sent = client.sent
       /\ client'.values = client.values
  BY <1>1, <1>9 DEF TypeOK
<1>13. TypeOK'
  <2>1. Errors' = Errors
    BY <1>2 DEF Errors
  <2> QED BY <1>1, <1>2, <1>9, <2>1 DEF TypeOK
<1>14. Answers(job') = Answers(job)
  BY <1>2
<1>15. OutcomeInv'
  BY <1>2, <1>4, <1>10, <1>11, <1>12, <1>14 DEF OutcomeInv
<1> QED BY <1>2, <1>12, <1>13, <1>15, ClientStops

\* The consumer has had enough.
LEMMA ConsumerLeavesKeeps ==
    ASSUME IInv, ConsumerLeaves
    PROVE  IInv'
<1>1. TypeOK
  BY DEF IInv
<1>2. /\ client.phase = "reading" /\ UNCHANGED <<job, up, server, broken>>
      /\ client' = [client EXCEPT !.phase = "left", !.batch = <<>>, !.buffer = <<>>]
      /\ down' = Cancelled
  BY DEF ConsumerLeaves
<1>3. /\ client'.phase = "left" /\ client'.sent = client.sent
      /\ client'.values = client.values
      /\ down'.ended = down.ended \/ down'.ended = "stopped"
  BY <1>1, <1>2 DEF TypeOK, Cancelled
<1>4. TypeOK'
  <2>1. /\ client' \in [phase : {"sending", "reading", "done", "failed", "left"},
                        sent : 0..Count(job, "up"), buffer : Seq(Byte),
                        batch : Seq(SaidIn(job, "down")),
                        values : Seq(Range(job.answer.values)), error : Errors]
    <3>1. <<>> \in Seq(Byte) /\ <<>> \in Seq(SaidIn(job, "down"))
      BY NoElements
    <3> QED BY <1>1, <1>2, <3>1 DEF TypeOK
  <2>2. down' \in [bytes : Seq(Byte), ended : {"no", "fin", "reset", "stopped"}]
    BY <1>1, <1>2, NoElements DEF TypeOK, Cancelled
  <2>3. Errors' = Errors
    BY <1>2 DEF Errors
  <2> QED BY <1>1, <1>2, <2>1, <2>2, <2>3 DEF TypeOK
<1>5. OutcomeInv'
  BY <1>3 DEF OutcomeInv
<1> QED BY <1>2, <1>3, <1>4, <1>5, ClientStops

-----------------------------------------------------------------------------
(* The daemon reads *)

\* What has arrived and what was found in it, by names.
LEMMA Arrives ==
    ASSUME IInv, server.phase = "reading"
    PROVE  \E written, pos, read \in Nat :
               /\ written = EndOf(job, "up", client.sent)
               /\ pos = server.bytesRead /\ pos <= written
               /\ up.bytes = Part(job, "up", pos, written)
               /\ read = Len(server.inbox) /\ read <= Count(job, "up")
               /\ Complete(job, "up", read, pos)
               /\ server.inbox = Messages(job, "up", 0, read)
               /\ server.buffer = Part(job, "up", EndOf(job, "up", read), pos)
               /\ server.sent = 0 /\ up.ended # "stopped"
<1>1. TypeOK /\ ServerInv /\ ServerReadsOn
  BY DEF IInv, ServerInv
<1>2. job \in Jobs /\ client.sent \in 0..Count(job, "up") /\ server.bytesRead \in Nat
  BY <1>1 DEF TypeOK
<1>3. EndOf(job, "up", client.sent) \in Nat
  BY <1>2, Ends DEF Way
<1>4. Len(server.inbox) \in Nat
  BY <1>1, LenProperties DEF TypeOK
<1>5. PICK written \in Nat : written = EndOf(job, "up", client.sent)
  BY <1>3
<1>6. PICK pos \in Nat : pos = server.bytesRead
  BY <1>2
<1>7. PICK read \in Nat : read = Len(server.inbox)
  BY <1>4
<1>8. /\ pos <= written /\ up.bytes = Part(job, "up", pos, written)
      /\ Complete(job, "up", read, pos)
      /\ server.buffer = Part(job, "up", EndOf(job, "up", read), pos)
      /\ server.sent = 0 /\ up.ended # "stopped"
  BY <1>1, <1>5, <1>6, <1>7 DEF ServerReadsOn
<1>9. read <= Count(job, "up") /\ server.inbox = Messages(job, "up", 0, read)
  BY <1>1, <1>7 DEF ServerInv
<1> QED BY <1>5, <1>6, <1>7, <1>8, <1>9

\* The client's side when nothing is written to it.
LEMMA ClientKept ==
    ASSUME IInv, UNCHANGED <<job, client>>, down'.bytes = down.bytes,
           server'.sent = server.sent, server.phase # "ended"
    PROVE  /\ GivenInv' /\ OutcomeInv'
           /\ client'.phase \in {"sending", "reading"} => ClientReadsOn'
<1>1. GivenInv' /\ (client'.phase \in {"sending", "reading"} => ClientReadsOn')
  BY DEF IInv, GivenInv, ClientReadsOn, IsServerStream
<1>2. Answers(job') = Answers(job)
  OBVIOUS
<1>3. OutcomeInv'
  BY <1>2 DEF IInv, OutcomeInv
<1> QED BY <1>1, <1>3

\* The daemon's task breaks off: the stream is not ended as if the answer were
\* complete unless that is seen from its length, or nobody reads.
LEMMA AbandonKeeps ==
    ASSUME IInv, Abandon, UNCHANGED <<job, client, broken>>, server.phase # "ended",
           broken \/ down.ended = "stopped" \/ ~IsServerStream
    PROVE  IInv'
<1>1. TypeOK /\ EndsInv /\ ServerInv
  BY DEF IInv
<1>2. /\ server' = [server EXCEPT !.phase = "ended"] /\ up' = Dropped
      /\ \E end \in IF broken THEN {"reset"} ELSE {"fin", "reset"} :
             down' = IF down.ended = "no" THEN [down EXCEPT !.ended = end] ELSE down
  BY DEF Abandon
<1>3. PICK end \in {"fin", "reset"} :
          /\ broken => end = "reset"
          /\ down' = IF down.ended = "no" THEN [down EXCEPT !.ended = end] ELSE down
  BY <1>2
<1>4. /\ server'.phase = "ended" /\ server'.sent = server.sent
      /\ server'.inbox = server.inbox /\ server'.handled = server.handled
  BY <1>1, <1>2 DEF TypeOK
<1>5. /\ down'.bytes = down.bytes
      /\ down'.ended = IF down.ended = "no" THEN end ELSE down.ended
  BY <1>1, <1>3 DEF TypeOK
<1>6. up'.ended = "fin" => up.ended = "fin"
  BY <1>1, <1>2 DEF TypeOK, Dropped
<1>7. TypeOK'
  <2>1. server' \in [phase : {"reading", "answering", "ended"}, buffer : Seq(Byte),
                     bytesRead : Nat, inbox : Seq(SaidIn(job, "up")),
                     sent : 0..Count(job, "down"), handled : Nat]
    BY <1>1, <1>2 DEF TypeOK
  <2>2. up' \in [bytes : Seq(Byte), ended : {"no", "fin", "stopped"}]
    BY <1>1, <1>2, NoElements DEF TypeOK, Dropped
  <2>3. down' \in [bytes : Seq(Byte), ended : {"no", "fin", "reset", "stopped"}]
    BY <1>1, <1>3 DEF TypeOK
  <2>4. Errors' = Errors
    BY DEF Errors
  <2> QED BY <1>1, <2>1, <2>2, <2>3, <2>4 DEF TypeOK
<1>8. ServerInv'
  BY <1>1, <1>4, <1>6 DEF ServerInv
<1>9. EndsInv'
  <2>1. down.ended = "no" \/ down.ended = "stopped"
    BY <1>1 DEF EndsInv
  <2>2. down'.ended = "fin" => ~IsServerStream
    BY <1>3, <1>5, <2>1
  <2>3. down'.ended = "stopped" => down.ended = "stopped"
    BY <1>3, <1>5
  <2> QED BY <1>1, <1>4, <2>2, <2>3 DEF EndsInv, IsServerStream
<1> QED BY <1>4, <1>5, <1>7, <1>8, <1>9, ClientKept DEF IInv

\* A piece of the request stream: its complete messages follow those that were
\* found, and the bytes behind them stay in the buffer.
LEMMA ServerReadsKeeps ==
    ASSUME IInv, ServerReads
    PROVE  IInv'
<1>1. TypeOK /\ ServerInv
  BY DEF IInv
<1>2. /\ server.phase = "reading" /\ ~broken /\ UNCHANGED <<job, client, broken>>
  BY DEF ServerReads
<1>3. PICK written, pos, read \in Nat :
          /\ written = EndOf(job, "up", client.sent)
          /\ pos = server.bytesRead /\ pos <= written
          /\ up.bytes = Part(job, "up", pos, written)
          /\ read = Len(server.inbox) /\ read <= Count(job, "up")
          /\ Complete(job, "up", read, pos)
          /\ server.inbox = Messages(job, "up", 0, read)
          /\ server.buffer = Part(job, "up", EndOf(job, "up", read), pos)
          /\ server.sent = 0 /\ up.ended # "stopped"
  BY <1>2, Arrives
<1>4. PICK sent \in 0..Count(job, "up") : sent = client.sent
  BY <1>1 DEF TypeOK
<1>5. /\ job \in Jobs /\ Count(job, "up") \in Nat /\ "up" \in Way
      /\ Count(job, "up") = Len(job.requests)
  BY <1>1, Calls DEF Way
<1>6. PICK n \in Pieces(up.bytes) :
          \E prefix \in {DecodePrefix(server.buffer \o SubSeq(up.bytes, 1, n))} :
            IF server.bytesRead + n > MaxSequence \/ prefix.status = "bad" THEN Abandon
            ELSE /\ server' = [server EXCEPT
                        !.bytesRead = @ + n,
                        !.buffer = Unread(server.buffer \o SubSeq(up.bytes, 1, n), prefix.next),
                        !.inbox = @ \o prefix.value]
                 /\ up' = [up EXCEPT !.bytes = SubSeq(@, n + 1, Len(@))]
                 /\ UNCHANGED down
  BY Zenon DEF ServerReads
<1>7. PICK p \in job.pieces : n = PieceSize(p, up.bytes)
  BY PieceOf
<1>8. PICK bytes : bytes = up.bytes
  OBVIOUS
<1>9. PICK buffered : buffered = server.buffer \o Taken(up.bytes, n)
  OBVIOUS
<1>10. PICK to \in read..Count(job, "up") :
           ReadTo(job, "up", sent, pos, read, n, bytes, buffered, to)
  <2>1. pos <= EndOf(job, "up", sent) /\ bytes = Part(job, "up", pos, EndOf(job, "up", sent))
    BY <1>3, <1>4, <1>8
  <2>2. n = PieceSize(p, bytes)
    BY <1>7, <1>8
  <2>3. /\ buffered = Part(job, "up", EndOf(job, "up", read), pos) \o Taken(bytes, n)
        /\ Complete(job, "up", read, pos)
    BY <1>3, <1>8, <1>9
  <2> QED BY <1>5, <2>1, <2>2, <2>3, ReadMore
<1>11. PICK prefix \in {DecodePrefix(buffered)} :
            IF server.bytesRead + n > MaxSequence \/ prefix.status = "bad" THEN Abandon
            ELSE /\ server' = [server EXCEPT
                        !.bytesRead = @ + n,
                        !.buffer = Unread(buffered, prefix.next),
                        !.inbox = @ \o prefix.value]
                 /\ up' = [up EXCEPT !.bytes = SubSeq(@, n + 1, Len(@))]
                 /\ UNCHANGED down
  <2>1. buffered = server.buffer \o SubSeq(up.bytes, 1, n)
    BY <1>9, Zenon DEF Taken
  <2> QED BY <1>6, <2>1, Zenon
<1>12. prefix = DecodePrefix(buffered) /\ prefix.status # "bad"
  BY <1>10 DEF ReadTo
<1>13. PICK now \in Nat : now = pos + n
  BY <1>10 DEF ReadTo
<1>14. n \in Nat /\ now <= written
  BY <1>3, <1>4, <1>10, <1>13 DEF ReadTo
<1>15. CASE server.bytesRead + n > MaxSequence
  <2>1. Abandon
    BY <1>11, <1>15
  <2>2. ~IsServerStream
    <3>1. SUFFICES ASSUME IsServerStream PROVE FALSE
      OBVIOUS
    <3>2. Count(job, "up") = 1 /\ EndOf(job, "up", 1) <= MaxSequence /\ MaxSequence \in Nat
      BY <1>5, <3>1, JobsAssumption DEF IsServerStream
    <3>3. /\ EndOf(job, "up", sent) <= Len(AllBytes(job, "up"))
          /\ Len(AllBytes(job, "up")) = EndOf(job, "up", Count(job, "up"))
          /\ Len(AllBytes(job, "up")) \in Nat
      BY <1>5, Ends
    <3>4. written <= EndOf(job, "up", 1) /\ EndOf(job, "up", 1) \in Nat
      BY <1>3, <1>4, <3>2, <3>3
    <3>5. now > MaxSequence
      BY <1>3, <1>13, <1>15
    <3> QED BY <1>14, <3>2, <3>4, <3>5
  <2> QED BY <1>2, <2>1, <2>2, AbandonKeeps
<1>16. CASE ~(server.bytesRead + n > MaxSequence)
  <2>1. /\ to \in Nat /\ read <= to /\ to <= Count(job, "up")
    BY <1>5
  <2>2. PICK all : all = Messages(job, "up", 0, to)
    OBVIOUS
  <2>3. server.inbox \o prefix.value = all
    <3>1. prefix.value = Messages(job, "up", read, to)
      BY <1>10, <1>12 DEF ReadTo
    <3>2. 0 \in Nat /\ 0 <= read
      OBVIOUS
    <3>3. Messages(job, "up", 0, read) \o Messages(job, "up", read, to) = Messages(job, "up", 0, to)
      BY <1>5, <2>1, <3>2, MessagesJoin
    <3> QED BY <1>3, <2>2, <3>1, <3>3
  <2>4. all \in Seq(SaidIn(job, "up")) /\ Len(all) = to
    <3>1. 0 \in Nat /\ 0 <= to /\ to - 0 = to
      BY <2>1
    <3>2. /\ Messages(job, "up", 0, to) \in Seq(SaidIn(job, "up"))
          /\ Len(Messages(job, "up", 0, to)) = to - 0
      BY <1>5, <2>1, <3>1, MessagesAre
    <3> QED BY <2>2, <3>1, <3>2
  <2>5. PICK held : held = Part(job, "up", EndOf(job, "up", to), now)
    OBVIOUS
  <2>6. PICK left : left = Part(job, "up", now, written)
    OBVIOUS
  <2>7. /\ to \in 0..Count(job, "up")
        /\ EndOf(job, "up", to) \in Nat /\ EndOf(job, "up", to) <= now
        /\ written <= Len(AllBytes(job, "up")) /\ now <= Len(AllBytes(job, "up"))
    <3>1. to \in 0..Count(job, "up")
      BY <1>5, <2>1
    <3>2. /\ EndOf(job, "up", to) \in Nat /\ EndOf(job, "up", sent) <= Len(AllBytes(job, "up"))
          /\ Len(AllBytes(job, "up")) \in Nat
      BY <1>5, <3>1, Ends
    <3>3. EndOf(job, "up", to) <= now
      BY <1>10, <1>13 DEF Complete, ReadTo
    <3>4. written <= Len(AllBytes(job, "up"))
      BY <1>3, <1>4, <3>2
    <3>5. now <= Len(AllBytes(job, "up"))
      BY <1>14, <3>2, <3>4
    <3> QED BY <3>1, <3>2, <3>3, <3>4, <3>5
  <2>8. held \in Seq(Byte)
    <3>1. PICK end \in Nat : end = EndOf(job, "up", to)
      BY <2>7
    <3>2. end <= now /\ now <= Len(AllBytes(job, "up"))
      BY <2>7, <3>1
    <3>3. Part(job, "up", end, now) \in Seq(Byte)
      BY <1>5, <3>2, PartType
    <3> QED BY <2>5, <3>1, <3>3
  <2>9. left \in Seq(Byte)
    <3>1. Part(job, "up", now, written) \in Seq(Byte)
      BY <1>5, <1>14, <2>7, PartType
    <3> QED BY <2>6, <3>1
  <2>10. /\ server' = [server EXCEPT !.bytesRead = now, !.buffer = held, !.inbox = all]
         /\ up' = [up EXCEPT !.bytes = left] /\ down' = down
    <3>1. /\ server' = [server EXCEPT !.bytesRead = server.bytesRead + n,
                            !.buffer = Unread(buffered, prefix.next),
                            !.inbox = server.inbox \o prefix.value]
          /\ up' = [up EXCEPT !.bytes = SubSeq(up.bytes, n + 1, Len(up.bytes))]
          /\ down' = down
      BY <1>11, <1>12, <1>16, Zenon
    <3>2. Unread(buffered, prefix.next) = held
      BY <1>10, <1>12, <1>13, <2>5 DEF ReadTo
    <3>3. SubSeq(up.bytes, n + 1, Len(up.bytes)) = left
      <4>1. Unread(bytes, n) = left
        BY <1>3, <1>4, <1>10, <1>13, <2>6 DEF ReadTo
      <4> QED BY <1>8, <4>1, Zenon DEF Unread
    <3>4. server.bytesRead + n = now
      BY <1>3, <1>13
    <3> QED BY <2>3, <3>1, <3>2, <3>3, <3>4, Zenon
  <2>11. /\ server'.phase = "reading" /\ server'.sent = 0
         /\ server'.handled = server.handled /\ server'.bytesRead = now
         /\ server'.buffer = held /\ server'.inbox = all
         /\ up'.bytes = left /\ up'.ended = up.ended
    BY <1>1, <1>2, <1>3, <2>10 DEF TypeOK
  <2>12. TypeOK'
    <3>1. server' \in [phase : {"reading", "answering", "ended"}, buffer : Seq(Byte),
                       bytesRead : Nat, inbox : Seq(SaidIn(job, "up")),
                       sent : 0..Count(job, "down"), handled : Nat]
      BY <1>1, <2>4, <2>8, <2>10 DEF TypeOK
    <3>2. up' \in [bytes : Seq(Byte), ended : {"no", "fin", "stopped"}]
      BY <1>1, <2>9, <2>10 DEF TypeOK
    <3>3. Errors' = Errors
      BY <1>2 DEF Errors
    <3> QED BY <1>1, <1>2, <2>10, <3>1, <3>2, <3>3 DEF TypeOK
  <2>13. ServerReadsOn'
    <3>1. Complete(job, "up", to, now)
      BY <1>10, <1>13 DEF ReadTo
    <3> QED BY <1>2, <1>3, <1>14, <2>4, <2>5, <2>6, <2>11, <3>1 DEF ServerReadsOn
  <2>14. ServerInv'
    <3>1. server.handled \in Nat /\ server.handled <= read
      BY <1>1, <1>3 DEF ServerInv, TypeOK
    <3>2. server'.handled <= Len(server'.inbox) /\ Len(server'.inbox) = to
      BY <2>1, <2>4, <2>11, <3>1
    <3>3. up'.ended = "fin" => client'.sent = Count(job', "up") /\ client'.phase # "sending"
      BY <1>1, <1>2, <2>11 DEF ServerInv
    <3>4. server'.inbox = Messages(job', "up", 0, Len(server'.inbox))
      BY <1>2, <2>2, <2>11, <3>2
    <3>5. Len(server'.inbox) <= Count(job', "up")
      BY <1>2, <2>1, <3>2
    <3> QED BY <2>13, <3>2, <3>3, <3>4, <3>5 DEF ServerInv
  <2>15. EndsInv'
    BY <1>2, <1>3, <2>10, <2>11 DEF IInv, EndsInv, IsServerStream
  <2> QED BY <1>2, <1>3, <2>10, <2>11, <2>12, <2>14, <2>15, ClientKept DEF IInv
<1> QED BY <1>15, <1>16

-----------------------------------------------------------------------------
(* The daemon answers *)

\* It takes what it was sent, and decides on an answer.
LEMMA ServerHandlesKeeps ==
    ASSUME IInv, ServerHandles \/ ServerTakes \/ ServerDecides
    PROVE  IInv'
<1>1. TypeOK /\ ServerInv
  BY DEF IInv
<1>2. /\ server.phase = "reading" /\ UNCHANGED <<job, client, up, down, broken>>
      /\ \/ /\ Len(server.inbox) = 1
            /\ server' = [server EXCEPT !.phase = "answering", !.handled = 1]
         \/ /\ server.handled < Len(server.inbox)
            /\ server' = [server EXCEPT !.handled = @ + 1]
         \/ server' = [server EXCEPT !.phase = "answering"]
  BY DEF ServerHandles, ServerTakes, ServerDecides
<1>3. Len(server.inbox) \in Nat /\ server.handled \in Nat
  BY <1>1, LenProperties DEF TypeOK
<1>4. server.handled <= Len(server.inbox)
  BY <1>1 DEF ServerInv
<1>5. PICK phase \in {"reading", "answering"}, handled \in Nat :
          /\ server' = [server EXCEPT !.phase = phase, !.handled = handled]
          /\ handled <= Len(server.inbox)
  <2>1. CASE /\ Len(server.inbox) = 1
             /\ server' = [server EXCEPT !.phase = "answering", !.handled = 1]
    <3>1. PICK one \in Nat : one = 1
      OBVIOUS
    <3>2. one <= Len(server.inbox) /\ server' = [server EXCEPT !.phase = "answering", !.handled = one]
      BY <2>1, <3>1
    <3> QED BY <3>2
  <2>2. CASE /\ server.handled < Len(server.inbox)
             /\ server' = [server EXCEPT !.handled = @ + 1]
    <3>1. PICK next \in Nat : next = server.handled + 1
      BY <1>3
    <3>2. next <= Len(server.inbox)
      BY <1>3, <2>2, <3>1
    <3>3. server' = [server EXCEPT !.phase = "reading", !.handled = next]
      BY <1>1, <1>2, <2>2, <3>1 DEF TypeOK
    <3> QED BY <3>2, <3>3
  <2>3. CASE server' = [server EXCEPT !.phase = "answering"]
    <3>1. server' = [server EXCEPT !.phase = "answering", !.handled = server.handled]
      BY <1>1, <2>3 DEF TypeOK
    <3> QED BY <1>3, <1>4, <3>1
  <2> QED BY <1>2, <2>1, <2>2, <2>3
<1>6. /\ server'.phase \in {"reading", "answering"} /\ server'.handled \in Nat
      /\ server'.handled <= Len(server.inbox)
      /\ server'.buffer = server.buffer /\ server'.bytesRead = server.bytesRead
      /\ server'.inbox = server.inbox /\ server'.sent = server.sent
  BY <1>1, <1>5 DEF TypeOK
<1>7. TypeOK'
  <2>1. server' \in [phase : {"reading", "answering", "ended"}, buffer : Seq(Byte),
                     bytesRead : Nat, inbox : Seq(SaidIn(job, "up")),
                     sent : 0..Count(job, "down"), handled : Nat]
    BY <1>1, <1>5 DEF TypeOK
  <2>2. Errors' = Errors
    BY <1>2 DEF Errors
  <2> QED BY <1>1, <1>2, <2>1, <2>2 DEF TypeOK
<1>8. ServerInv'
  <2>1. ServerReadsOn
    BY <1>1, <1>2 DEF ServerInv
  <2>2. ServerReadsOn'
    BY <1>2, <1>6, <2>1 DEF ServerReadsOn
  <2> QED BY <1>1, <1>2, <1>6, <2>2 DEF ServerInv
<1>9. EndsInv'
  BY <1>2, <1>6 DEF IInv, EndsInv, IsServerStream
<1> QED BY <1>2, <1>6, <1>7, <1>8, <1>9, ClientKept DEF IInv

\* The next message of the answer is written behind those that were.
LEMMA ServerWritesKeeps ==
    ASSUME IInv, ServerWrites
    PROVE  IInv'
<1> DEFINE old == EndOf(job, "down", server.sent)
           new == EndOf(job, "down", server.sent + 1)
<1>1. TypeOK /\ EndsInv
  BY DEF IInv
<1>2. /\ server.phase = "answering" /\ server.sent < Answers(job)
      /\ UNCHANGED <<job, client, broken>>
  BY DEF ServerWrites
<1>3. CASE broken \/ down.ended = "stopped"
  <2>1. Abandon
    BY <1>3 DEF ServerWrites
  <2> QED BY <1>2, <1>3, <2>1, AbandonKeeps
<1>4. CASE ~(broken \/ down.ended = "stopped")
  <2>1. /\ server' = [server EXCEPT !.sent = server.sent + 1]
        /\ down' = [down EXCEPT !.bytes = down.bytes \o Encode(Answer(job, server.sent + 1))]
        /\ up' = up
    BY <1>4 DEF ServerWrites
  <2>2. /\ job \in Jobs /\ Count(job, "down") = Answers(job) /\ Answers(job) \in Nat
        /\ server.sent \in 0..Count(job, "down") /\ "down" \in Way
    BY <1>1, Calls DEF TypeOK, Way
  <2>3. server.sent + 1 \in 1..Count(job, "down") /\ server.sent + 1 \in 0..Count(job, "down")
    BY <1>2, <2>2
  <2>4. /\ old \in Nat /\ new \in Nat /\ new <= Len(AllBytes(job, "down")) /\ old < new
        /\ Len(AllBytes(job, "down")) \in Nat
    BY <2>2, <2>3, Ends
  <2>5. Encode(Answer(job, server.sent + 1)) = Part(job, "down", old, new)
    <3>1. \A n \in 1..Count(job, "down") : Encode(Said(job, "down", n)) =
              Part(job, "down", EndOf(job, "down", n - 1), EndOf(job, "down", n))
      BY <2>2, Ends
    <3>2. (server.sent + 1) - 1 = server.sent
      BY <2>2
    <3>3. Encode(Said(job, "down", server.sent + 1)) = Part(job, "down", old, new)
      BY <2>3, <3>1, <3>2
    <3> QED BY <3>3 DEF Said
  <2> HIDE DEF old, new
  <2>6. PICK added : added = Part(job, "down", old, new)
    OBVIOUS
  <2>7. added \in Seq(Byte) /\ Len(added) = new - old
    <3>1. old <= new
      BY <2>4
    <3>2. /\ Part(job, "down", old, new) \in Seq(Byte)
          /\ Len(Part(job, "down", old, new)) = new - old
      BY <2>2, <2>4, <3>1, PartType
    <3> QED BY <2>6, <3>2
  <2>8. /\ down.bytes \o added \in Seq(Byte)
        /\ Len(down.bytes \o added) = Len(down.bytes) + (new - old)
    <3>1. down.bytes \in Seq(Byte)
      BY <1>1 DEF TypeOK
    <3>2. /\ down.bytes \o added \in Seq(Byte)
          /\ Len(down.bytes \o added) = Len(down.bytes) + Len(added)
      BY <2>7, <3>1, ConcatProperties
    <3> QED BY <2>7, <3>2
  <2>9. /\ server'.phase = "answering" /\ server'.sent = server.sent + 1
        /\ server'.handled = server.handled /\ server'.inbox = server.inbox
        /\ down'.bytes = down.bytes \o added /\ down'.ended = down.ended
    BY <1>1, <1>2, <2>1, <2>5, <2>6 DEF TypeOK
  <2>10. TypeOK'
    <3>1. server' \in [phase : {"reading", "answering", "ended"}, buffer : Seq(Byte),
                       bytesRead : Nat, inbox : Seq(SaidIn(job, "up")),
                       sent : 0..Count(job, "down"), handled : Nat]
      BY <1>1, <2>1, <2>3 DEF TypeOK
    <3>2. down' \in [bytes : Seq(Byte), ended : {"no", "fin", "reset", "stopped"}]
      <4>1. down' = [down EXCEPT !.bytes = down.bytes \o added]
        BY <2>1, <2>5, <2>6
      <4> QED BY <1>1, <2>8, <4>1 DEF TypeOK
    <3>3. Errors' = Errors
      BY <1>2 DEF Errors
    <3> QED BY <1>1, <1>2, <2>1, <3>1, <3>2, <3>3 DEF TypeOK
  <2>11. ServerInv'
    BY <1>2, <2>1, <2>9 DEF IInv, ServerInv
  <2>12. EndsInv'
    <3>1. down.ended \in {"no", "stopped"}
      BY <1>1, <1>2 DEF EndsInv
    <3> QED BY <1>1, <1>2, <2>9, <3>1 DEF EndsInv
  <2>13. GivenInv'
    BY <1>2 DEF IInv, GivenInv
  <2>14. ASSUME client'.phase \in {"sending", "reading"} PROVE ClientReadsOn'
    <3>1. PICK written, pos, given, read \in Nat :
              /\ written = EndOf(job, "down", server.sent)
              /\ pos = written - Len(down.bytes) /\ pos <= written
              /\ down.bytes = Part(job, "down", pos, written)
              /\ given = Len(client.values)
              /\ read = given + Len(client.batch)
              /\ Complete(job, "down", read, pos)
              /\ client.batch = Messages(job, "down", given, read)
              /\ client.buffer = Part(job, "down", EndOf(job, "down", read), pos)
              /\ ~IsServerStream => pos = 0 /\ given = 0 /\ client.batch = <<>>
      BY <1>2, <2>14, Reads
    <3>2. written = old /\ Len(down.bytes) \in Nat /\ Len(down.bytes) = old - pos
      <4>1. written = old
        BY <3>1 DEF old
      <4>2. Len(down.bytes) \in Nat
        BY <1>1, LenProperties DEF TypeOK
      <4>3. pos = written - Len(down.bytes)
        BY <3>1
      <4> QED BY <4>1, <4>2, <4>3
    <3>3. down'.bytes = Part(job, "down", pos, new)
      <4>1. pos <= old /\ old <= new /\ down.bytes = Part(job, "down", pos, old)
        BY <2>4, <3>1, <3>2
      <4>2. Part(job, "down", pos, old) \o Part(job, "down", old, new)
                = Part(job, "down", pos, new)
        BY <2>2, <2>4, <4>1, PartsJoin
      <4> QED BY <2>6, <2>9, <4>1, <4>2
    <3>4. Len(down'.bytes) = new - pos
      <4>1. Len(down'.bytes) = Len(down.bytes) + (new - old)
        BY <2>8, <2>9, Zenon
      <4> QED BY <2>4, <3>2, <4>1
    <3>5. EndOf(job', "down", server'.sent) = new
      BY <1>2, <2>9 DEF new
    <3>6. new - Len(down'.bytes) = pos /\ Len(down'.bytes) <= new
      BY <2>4, <3>4
    <3> QED BY <1>2, <3>1, <3>3, <3>5, <3>6 DEF ClientReadsOn, IsServerStream
  <2>15. OutcomeInv'
    <3>1. client.phase # "done"
      BY <1>2, <2>2 DEF IInv, OutcomeInv
    <3> QED BY <1>2, <3>1 DEF IInv, OutcomeInv
  <2> QED BY <2>10, <2>11, <2>12, <2>13, <2>14, <2>15 DEF IInv
<1> QED BY <1>3, <1>4

\* The whole answer is written, and the stream is ended.
LEMMA ServerFinishesKeeps ==
    ASSUME IInv, ServerFinishes
    PROVE  IInv'
<1>1. TypeOK /\ EndsInv /\ ServerInv
  BY DEF IInv
<1>2. /\ server.phase = "answering" /\ server.sent = Answers(job)
      /\ server' = [server EXCEPT !.phase = "ended"] /\ up' = Dropped
      /\ down' = IF down.ended = "no" THEN [down EXCEPT !.ended = "fin"] ELSE down
      /\ UNCHANGED <<job, client, broken>>
  BY DEF ServerFinishes
<1>3. /\ server'.phase = "ended" /\ server'.sent = server.sent
      /\ server'.inbox = server.inbox /\ server'.handled = server.handled
      /\ down'.bytes = down.bytes
      /\ down'.ended = IF down.ended = "no" THEN "fin" ELSE down.ended
  BY <1>1, <1>2 DEF TypeOK
<1>4. up'.ended = "fin" => up.ended = "fin"
  BY <1>1, <1>2 DEF TypeOK, Dropped
<1>5. TypeOK'
  <2>1. server' \in [phase : {"reading", "answering", "ended"}, buffer : Seq(Byte),
                     bytesRead : Nat, inbox : Seq(SaidIn(job, "up")),
                     sent : 0..Count(job, "down"), handled : Nat]
    BY <1>1, <1>2 DEF TypeOK
  <2>2. up' \in [bytes : Seq(Byte), ended : {"no", "fin", "stopped"}]
    BY <1>1, <1>2, NoElements DEF TypeOK, Dropped
  <2>3. down' \in [bytes : Seq(Byte), ended : {"no", "fin", "reset", "stopped"}]
    BY <1>1, <1>2 DEF TypeOK
  <2>4. Errors' = Errors
    BY <1>2 DEF Errors
  <2> QED BY <1>1, <1>2, <2>1, <2>2, <2>3, <2>4 DEF TypeOK
<1>6. ServerInv'
  BY <1>1, <1>2, <1>3, <1>4 DEF ServerInv
<1>7. EndsInv'
  <2>1. Answers(job') = Answers(job)
    BY <1>2
  <2>2. down'.ended = "stopped" => down.ended = "stopped"
    BY <1>3
  <2> QED BY <1>1, <1>2, <1>3, <2>1, <2>2 DEF EndsInv
<1> QED BY <1>2, <1>3, <1>5, <1>6, <1>7, ClientKept DEF IInv

\* Reading fails with the transport only: no request stream ends inside a message.
LEMMA ServerReadFailsKeeps ==
    ASSUME IInv, ServerReadFails
    PROVE  IInv'
<1>1. TypeOK /\ ServerInv
  BY DEF IInv
<1>2. /\ server.phase = "reading" /\ Abandon /\ UNCHANGED <<job, client, broken>>
      /\ broken \/ (up.bytes = <<>> /\ up.ended = "fin" /\ server.buffer # <<>>)
  BY DEF ServerReadFails
<1>3. SUFFICES ASSUME ~broken PROVE FALSE
  BY <1>2, AbandonKeeps
<1>4. PICK written, pos, read \in Nat :
          /\ written = EndOf(job, "up", client.sent)
          /\ pos = server.bytesRead /\ pos <= written
          /\ up.bytes = Part(job, "up", pos, written)
          /\ Complete(job, "up", read, pos)
          /\ server.buffer = Part(job, "up", EndOf(job, "up", read), pos)
  BY <1>2, Arrives
<1>5. /\ job \in Jobs /\ "up" \in Way /\ client.sent \in 0..Count(job, "up")
  BY <1>1 DEF TypeOK, Way
<1>6. written <= Len(AllBytes(job, "up")) /\ Len(AllBytes(job, "up")) \in Nat
  BY <1>4, <1>5, Ends
<1>7. pos = written
  <2>1. Len(Part(job, "up", pos, written)) = written - pos
    BY <1>4, <1>5, <1>6, PartType
  <2>2. Part(job, "up", pos, written) = <<>>
    BY <1>2, <1>3, <1>4
  <2>3. Len(Part(job, "up", pos, written)) = 0
    BY <2>2
  <2> QED BY <2>1, <2>3
<1>8. read = client.sent
  <2>1. Complete(job, "up", read, EndOf(job, "up", client.sent))
    BY <1>4, <1>7
  <2> QED BY <1>5, <2>1, CompleteAll
<1>9. server.buffer = Part(job, "up", pos, pos)
  BY <1>4, <1>7, <1>8
<1>10. server.buffer = <<>>
  BY <1>5, <1>9, NoPart
<1> QED BY <1>2, <1>3, <1>10

\* The transport fails, or nothing happens: what has arrived stays what it is.
LEMMA TransportFailsKeeps ==
    ASSUME IInv, TransportFails \/ UNCHANGED vars
    PROVE  IInv'
<1>1. UNCHANGED <<job, client, up, server, down>> /\ broken' \in BOOLEAN
  BY DEF TransportFails, IInv, TypeOK, vars
<1>2. TypeOK'
  <2>1. Errors' = Errors
    BY <1>1 DEF Errors
  <2> QED BY <1>1, <2>1 DEF IInv, TypeOK
<1>3. ServerInv' /\ EndsInv' /\ GivenInv' /\ ClientReadsOn' = ClientReadsOn
  BY <1>1 DEF IInv, ServerInv, ServerReadsOn, EndsInv, GivenInv, ClientReadsOn, IsServerStream
<1>4. OutcomeInv'
  BY <1>1 DEF IInv, OutcomeInv
<1> QED BY <1>1, <1>2, <1>3, <1>4 DEF IInv

-----------------------------------------------------------------------------
(* The theorems *)

\* Every step keeps the invariant.
LEMMA NextKeeps == IInv /\ [Next]_vars => IInv'
<1> SUFFICES ASSUME IInv, [Next]_vars PROVE IInv'
  OBVIOUS
<1>1. CASE TransportFails \/ UNCHANGED vars
  BY <1>1, TransportFailsKeeps
<1>2. CASE ClientNext
  <2>1. CASE ClientWrites
    BY <2>1, ClientWritesKeeps
  <2>2. CASE ClientCloses
    BY <2>2, ClientClosesKeeps
  <2>3. CASE ClientWriteFails \/ ClientReadFails
    BY <2>3, TransportKeeps
  <2>4. CASE ClientReadsAnswer
    BY <2>4, ClientReadsAnswerKeeps
  <2>5. CASE ClientReads
    BY <2>5, ClientReadsKeeps
  <2>6. CASE ClientYields
    BY <2>6, ClientYieldsKeeps
  <2>7. CASE ClientEnds
    BY <2>7, ClientEndsKeeps
  <2> QED BY <1>2, <2>1, <2>2, <2>3, <2>4, <2>5, <2>6, <2>7 DEF ClientNext
<1>3. CASE ServerNext
  <2>1. CASE ServerReads
    BY <2>1, ServerReadsKeeps
  <2>2. CASE ServerHandles \/ ServerTakes \/ ServerDecides
    BY <2>2, ServerHandlesKeeps
  <2>3. CASE ServerWrites
    BY <2>3, ServerWritesKeeps
  <2>4. CASE ServerFinishes
    BY <2>4, ServerFinishesKeeps
  <2>5. CASE ServerReadFails
    BY <2>5, ServerReadFailsKeeps
  <2> QED BY <1>3, <2>1, <2>2, <2>3, <2>4, <2>5 DEF ServerNext
<1>4. CASE ConsumerLeaves
  BY <1>4, ConsumerLeavesKeeps
<1> QED BY <1>1, <1>2, <1>3, <1>4 DEF Next

\* The state is always what the invariant says of it.
THEOREM Invariance == Spec => []IInv
<1>1. Init => IInv
  BY InitInv
<1>2. IInv /\ [Next]_vars => IInv'
  BY NextKeeps
<1> QED BY <1>1, <1>2, PTL DEF Spec

\* The beginning of a sequence, up to its length and without its last.
LEMMA Beginning ==
    ASSUME NEW S, NEW s \in Seq(S), NEW t \in Seq(S), Len(t) <= Len(s),
           \A i \in 1..Len(t) : t[i] = s[i]
    PROVE  /\ IsPrefix(t, s)
           /\ Len(t) < Len(s) => IsPrefix(t, Front(s))
           /\ Len(t) + 1 = Len(s) => t = Front(s)
<1>1. Len(s) \in Nat /\ Len(t) \in Nat
  BY LenProperties
<1>2. ASSUME NEW m \in Nat, m <= Len(s)
      PROVE  /\ SubSeq(s, 1, m) \in Seq(S) /\ Len(SubSeq(s, 1, m)) = m
             /\ \A i \in 1..m : SubSeq(s, 1, m)[i] = s[i]
  <2>1. \A i \in 1..m : s[i] \in S
    BY <1>1, <1>2, ElementOfSeq
  <2>2. /\ SubSeq(s, 1, m) \in Seq(S)
        /\ Len(SubSeq(s, 1, m)) = IF 1 <= m THEN m - 1 + 1 ELSE 0
        /\ \A i \in 1..m - 1 + 1 : SubSeq(s, 1, m)[i] = s[1 + i - 1]
    BY <2>1, SubSeqProperties
  <2>3. m - 1 + 1 = m /\ \A i \in 1..m : 1 + i - 1 = i
    OBVIOUS
  <2> QED BY <2>2, <2>3
<1>3. SubSeq(t, 1, Len(t)) = t
  BY <1>1, SubSeqFull
<1>4. SubSeq(s, 1, Len(t)) = t
  <2>1. /\ SubSeq(s, 1, Len(t)) \in Seq(S) /\ Len(SubSeq(s, 1, Len(t))) = Len(t)
        /\ \A i \in 1..Len(t) : SubSeq(s, 1, Len(t))[i] = s[i]
    BY <1>1, <1>2
  <2>2. \A i \in 1..Len(t) : SubSeq(s, 1, Len(t))[i] = t[i]
    BY <2>1
  <2> QED BY <2>1, <2>2, SeqEqual
<1>5. IsPrefix(t, s)
  BY <1>3, <1>4 DEF IsPrefix
<1>6. ASSUME Len(t) < Len(s)
      PROVE  /\ IsPrefix(t, Front(s))
             /\ Len(t) + 1 = Len(s) => t = Front(s)
  <2>1. PICK m \in Nat : m = Len(s) - 1
    BY <1>1, <1>6
  <2>2. m <= Len(s) /\ Len(t) <= m
    BY <1>1, <1>6, <2>1
  <2>3. PICK front : front = SubSeq(s, 1, m)
    OBVIOUS
  <2>4. /\ front \in Seq(S) /\ Len(front) = m
        /\ \A i \in 1..m : front[i] = s[i]
    BY <1>2, <2>2, <2>3
  <2>5. Front(s) = front
    BY <2>1, <2>3 DEF Front
  <2>6. \A i \in 1..Len(t) : i \in 1..m
    BY <1>1, <2>2
  <2>7. \A i \in 1..Len(t) : t[i] = front[i]
    BY <2>4, <2>6
  <2>8. SubSeq(front, 1, Len(t)) = t
    <3>1. /\ SubSeq(front, 1, Len(t)) \in Seq(S) /\ Len(SubSeq(front, 1, Len(t))) = Len(t)
          /\ \A i \in 1..Len(t) : SubSeq(front, 1, Len(t))[i] = front[i]
      <4>1. \A i \in 1..Len(t) : front[i] \in S
        BY <2>4, <2>6, ElementOfSeq
      <4>2. /\ SubSeq(front, 1, Len(t)) \in Seq(S)
            /\ Len(SubSeq(front, 1, Len(t))) = IF 1 <= Len(t) THEN Len(t) - 1 + 1 ELSE 0
            /\ \A i \in 1..Len(t) - 1 + 1 : SubSeq(front, 1, Len(t))[i] = front[1 + i - 1]
        BY <1>1, <4>1, SubSeqProperties
      <4>3. Len(t) - 1 + 1 = Len(t) /\ \A i \in 1..Len(t) : 1 + i - 1 = i
        BY <1>1
      <4> QED BY <1>1, <4>2, <4>3
    <3>2. \A i \in 1..Len(t) : SubSeq(front, 1, Len(t))[i] = t[i]
      BY <2>7, <3>1
    <3> QED BY <3>1, <3>2, SeqEqual
  <2>9. IsPrefix(t, Front(s))
    BY <1>3, <2>2, <2>4, <2>5, <2>8 DEF IsPrefix
  <2>10. ASSUME Len(t) + 1 = Len(s) PROVE t = Front(s)
    <3>1. Len(t) = Len(front)
      BY <1>1, <2>1, <2>4, <2>10
    <3>2. t = front
      BY <2>4, <2>7, <3>1, SeqEqual
    <3> QED BY <2>5, <3>2
  <2> QED BY <2>9, <2>10
<1>7. Len(t) + 1 = Len(s) => Len(t) < Len(s)
  BY <1>1
<1> QED BY <1>5, <1>6, <1>7

\* A caller is given the values of the answer, in order and each as it was, and
\* all of them when the call completes.
THEOREM ValuesAreInOrder == Spec => []ValuesInOrder
<1>1. IInv => ValuesInOrder
  <2> SUFFICES ASSUME IInv PROVE ValuesInOrder
    OBVIOUS
  <2>1. TypeOK /\ GivenInv /\ OutcomeInv
    BY DEF IInv
  <2>2. PICK all : all = job.answer.values
    OBVIOUS
  <2>3. PICK given : given = client.values
    OBVIOUS
  <2>4. /\ all \in Seq(Range(job.answer.values)) /\ given \in Seq(Range(job.answer.values))
        /\ Len(all) \in Nat /\ Len(given) \in Nat
    BY <2>1, <2>2, <2>3, Calls, LenProperties DEF TypeOK
  <2>5. /\ Len(given) <= Len(all) /\ \A i \in 1..Len(given) : given[i] = all[i]
        /\ job.unknown = "variant" => Len(given) < Len(all)
    BY <2>1, <2>2, <2>3 DEF GivenInv
  <2>6. /\ IsPrefix(given, all)
        /\ Len(given) < Len(all) => IsPrefix(given, Front(all))
        /\ Len(given) + 1 = Len(all) => given = Front(all)
    BY <2>4, <2>5, Beginning
  <2>7. Expected = IF job.unknown = "variant" THEN Front(all) ELSE all
    BY <2>2, Zenon DEF Expected
  <2>8. IsPrefix(given, Expected)
    BY <2>5, <2>6, <2>7, Zenon
  <2>9. client.phase = "done" => given = all
    BY <2>1, <2>2, <2>3 DEF OutcomeInv
  <2>10. ASSUME client.phase = "failed", client.error = "malformed" PROVE given = Expected
    <3>1. \/ given = all
          \/ job.unknown = "variant" /\ Len(given) + 1 = Len(all)
      BY <2>1, <2>2, <2>3, <2>10 DEF OutcomeInv
    <3>2. CASE given = all
      <4>1. job.unknown # "variant"
        BY <2>4, <2>5, <3>2
      <4> QED BY <2>7, <3>2, <4>1, Zenon
    <3>3. CASE job.unknown = "variant" /\ Len(given) + 1 = Len(all)
      BY <2>6, <2>7, <3>3, Zenon
    <3> QED BY <3>1, <3>2, <3>3
  <2> QED BY <2>2, <2>3, <2>8, <2>9, <2>10, Zenon DEF ValuesInOrder
<1> QED BY <1>1, Invariance, PTL

\* The handler is given the caller's requests, in order and as they were.
THEOREM RequestsDoArrive == Spec => []RequestsArrive
<1>1. IInv => RequestsArrive
  <2> SUFFICES ASSUME IInv, NEW i \in 1..server.handled
               PROVE  /\ AddressedTo(job, server.inbox[1])
                      /\ RequestIn(job, server.inbox[i]).status = "ok"
                      /\ RequestIn(job, server.inbox[i]).value = job.requests[i]
    BY DEF RequestsArrive
  <2>1. TypeOK /\ ServerInv
    BY DEF IInv
  <2>2. PICK read \in Nat : read = Len(server.inbox)
    <3>1. Len(server.inbox) \in Nat
      BY <2>1, LenProperties DEF TypeOK
    <3> QED BY <3>1
  <2>3. /\ read <= Count(job, "up") /\ server.handled <= read /\ server.handled \in Nat
        /\ server.inbox = Messages(job, "up", 0, read)
    BY <2>1, <2>2 DEF ServerInv, TypeOK
  <2>4. /\ job \in Jobs /\ "up" \in Way /\ Count(job, "up") = Len(job.requests)
        /\ Len(job.requests) \in Nat
    BY <2>1, Calls DEF Way
  <2>5. i \in 1..read /\ 1 \in 1..read /\ i \in 1..Len(job.requests)
    BY <2>3, <2>4
  <2>6. \A k \in 1..read : server.inbox[k] = Request(job, k)
    <3>1. 0 \in Nat /\ 0 <= read /\ read - 0 = read
      OBVIOUS
    <3>2. \A k \in 1..read - 0 : Messages(job, "up", 0, read)[k] = Said(job, "up", 0 + k)
      BY <2>3, <2>4, <3>1, MessagesAre
    <3>3. \A k \in 1..read : 0 + k = k
      OBVIOUS
    <3>4. \A k \in 1..read : server.inbox[k] = Said(job, "up", k)
      BY <2>3, <3>1, <3>2, <3>3
    <3> QED BY <3>4 DEF Said
  <2>7. server.inbox[1] = Request(job, 1) /\ server.inbox[i] = Request(job, i)
    BY <2>5, <2>6
  <2>8. /\ AddressedTo(job, Request(job, 1))
        /\ RequestIn(job, Request(job, i)).status = "ok"
        /\ RequestIn(job, Request(job, i)).value = job.requests[i]
    BY <2>4, <2>5, MeaningAssumption
  <2> QED BY <2>7, <2>8
<1> QED BY <1>1, Invariance, PTL

\* A call completes only with the whole of an answer that is no error, and an
\* error that is raised is the daemon's unless something broke off.
THEOREM ErrorsAreReported == Spec => []ErrorsAreAnswers
<1>1. IInv => ErrorsAreAnswers
  BY DEF IInv, OutcomeInv, ErrorsAreAnswers
<1> QED BY <1>1, Invariance, PTL
=============================================================================
