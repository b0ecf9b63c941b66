------------------------- MODULE RecordStreamProofs -------------------------
(***************************************************************************)
(* Proofs about record marking, for every word size, buffer size and mix   *)
(* of calls: the buffers keep their bounds, words stay aligned, no         *)
(* fragment is empty that is not the last of its record, and the records   *)
(* arrive as Records specifies.                                            *)
(***************************************************************************)
EXTENDS RecordStream, SequenceTheorems, WellFoundedInduction, TLAPS

-----------------------------------------------------------------------------
(* Remainders.                                                             *)

LEMMA Quotient ==
  ASSUME NEW w \in Nat \ {0}, NEW a \in Nat
  PROVE  a % w \in 0 .. w - 1 /\ a = w * (a \div w) + (a % w) /\ a \div w \in Nat
  BY SMTT(60)

LEMMA Remainder ==
  ASSUME NEW w \in Nat \ {0}, NEW q \in Nat, NEW k \in 0 .. w - 1
  PROVE  (w * q + k) % w = k
  BY SMTT(60)

LEMMA Distributes ==
  ASSUME NEW w \in Nat, NEW p \in Nat, NEW q \in Nat
  PROVE  w * (p + q) = w * p + w * q /\ w * p \in Nat
  BY SMT

\* Going on k bytes from a place and from its remainder comes to the same.
LEMMA RemainderMoves ==
  ASSUME NEW w \in Nat \ {0}, NEW a \in Nat, NEW k \in Nat
  PROVE  ((a % w) + k) % w = (a + k) % w
<1> DEFINE p == a \div w
           m == a % w
<1>1. m \in 0 .. w - 1 /\ a = w * p + m /\ p \in Nat
  BY Quotient
<1> HIDE DEF p, m
<1>2. m + k \in Nat
  BY <1>1
<1> DEFINE q == (m + k) \div w
           n == (m + k) % w
<1>3. n \in 0 .. w - 1 /\ m + k = w * q + n /\ q \in Nat
  BY <1>2, Quotient
<1> HIDE DEF q, n
<1>4. p + q \in Nat /\ a + k = w * (p + q) + n
  BY <1>1, <1>3, Distributes
<1>5. (w * (p + q) + n) % w = n
  BY <1>3, <1>4, Remainder
<1> QED
  BY <1>4, <1>5 DEF n, m

\* Sums and differences of multiples.
LEMMA Multiples ==
  ASSUME NEW w \in Nat \ {0}, NEW a \in Nat, NEW b \in Nat, a % w = 0
  PROVE  /\ b % w = 0 => (a + b) % w = 0
         /\ a + b \in Nat
         /\ (a + b) % w = 0 => b % w = 0
<1>1. ((a % w) + b) % w = (a + b) % w
  BY RemainderMoves
<1>2. (a % w) + b = b
  OBVIOUS
<1> QED
  BY <1>1, <1>2

LEMMA Farther ==
  ASSUME NEW w \in Nat \ {0}, NEW p \in Nat, NEW q \in Nat, p < q
  PROVE  w * p + w <= w * q
<1> DEFINE d == q - p - 1
<1>1. d \in Nat /\ q = p + 1 + d
  OBVIOUS
<1> HIDE DEF d
<1>2. /\ w * q = w * (p + 1) + w * d /\ w * (p + 1) = w * p + w * 1
      /\ w * d \in Nat
  BY <1>1, Distributes
<1> QED
  BY <1>1, <1>2, Distributes

\* Between two multiples there is room for a word.
LEMMA MultiplesApart ==
  ASSUME NEW w \in Nat \ {0}, NEW a \in Nat, NEW b \in Nat,
         a % w = 0, b % w = 0, a < b
  PROVE  a + w <= b
<1> DEFINE p == a \div w
           q == b \div w
<1>1. a = w * p /\ p \in Nat /\ b = w * q /\ q \in Nat
  BY Quotient
<1> HIDE DEF p, q
<1>2. p < q
  BY <1>1, Farther
<1> QED
  BY <1>1, <1>2, Farther

-----------------------------------------------------------------------------
(* Sequences.                                                              *)

LEMMA LeastIsLeast ==
  ASSUME NEW a \in Nat, NEW b \in Nat
  PROVE  Least(a, b) \in Nat /\ Least(a, b) <= a /\ Least(a, b) <= b
  BY DEF Least

LEMMA FunctionIsSeq ==
  ASSUME NEW S, NEW n \in Nat, NEW f \in [1 .. n -> S]
  PROVE  f \in Seq(S) /\ Len(f) = n
  BY SMT

LEMMA FrontAndRest ==
  ASSUME NEW S, NEW s \in Seq(S), NEW k \in 0 .. Len(s)
  PROVE  /\ SubSeq(s, 1, k) \in Seq(S) /\ Len(SubSeq(s, 1, k)) = k
         /\ From(s, k) \in Seq(S) /\ Len(From(s, k)) = Len(s) - k
         /\ \A i \in 1 .. Len(s) - k : From(s, k)[i] = s[i + k]
<1>1. \A i \in 1 .. Len(s) : s[i] \in S
  BY ElementOfSeq
<1>2. Len(s) \in Nat
  OBVIOUS
<1>3. /\ SubSeq(s, 1, k) \in Seq(S)
      /\ Len(SubSeq(s, 1, k)) = IF 1 <= k THEN k - 1 + 1 ELSE 0
  BY <1>1, <1>2, SubSeqProperties
<1>4. /\ SubSeq(s, k + 1, Len(s)) \in Seq(S)
      /\ Len(SubSeq(s, k + 1, Len(s)))
           = IF k + 1 <= Len(s) THEN Len(s) - (k + 1) + 1 ELSE 0
      /\ \A i \in 1 .. Len(s) - (k + 1) + 1 :
           SubSeq(s, k + 1, Len(s))[i] = s[k + 1 + i - 1]
  BY <1>1, <1>2, SubSeqProperties
<1> QED
  BY <1>2, <1>3, <1>4 DEF From

-----------------------------------------------------------------------------
(* The sender.                                                             *)

\* Out of the open header, nothing in the output buffer is the header of an
\* empty fragment, and there is room for data behind the open header.
OutSound ==
  /\ Len(o.buf) % Word = 0 /\ o.todo % Word = 0
  /\ o.frag + Word < OutSize
  /\ \A i \in 1 .. Len(o.buf) : i \notin o.frag + 1 .. o.frag + Word
                                => o.buf[i] # EmptyFragment

IInv == TypeOK /\ WordsAligned /\ NoEmptyFragment /\ OutSound

LEMMA WordFacts ==
  /\ Word \in Nat \ {0} /\ Tags \in Nat \ {0}
  /\ OutSize \in Nat /\ OutSize % Word = 0 /\ OutSize > 2 * Word
  /\ InSize \in Nat /\ InSize % Word = 0
  /\ Word % Word = 0 /\ 0 % Word = 0
<1>1. Word \in Nat \ {0} /\ OutSize \in Nat
  BY RecordAssumption
<1>2. Word % Word = 0 /\ 0 % Word = 0
  <2>1. (Word * 1 + 0) % Word = 0 /\ (Word * 0 + 0) % Word = 0
    BY <1>1, Remainder
  <2>2. Word * 1 + 0 = Word /\ Word * 0 + 0 = 0
    BY <1>1
  <2> QED
    BY <2>1, <2>2
<1> QED
  BY <1>1, <1>2, RecordAssumption

\* A header fills a word; its bytes are those of an empty fragment only when
\* it says so.
LEMMA HeaderBytes ==
  ASSUME NEW len \in Nat, NEW last \in BOOLEAN
  PROVE  /\ Header(len, last) \in Seq(Byte) /\ Len(Header(len, last)) = Word
         /\ \A i \in 1 .. Word : /\ Header(len, last)[i] \in Byte
                                 /\ len > 0 \/ last = TRUE =>
                                      Header(len, last)[i] # EmptyFragment
<1>1. Word \in Nat \ {0}
  BY WordFacts
<1>2. \A k \in 1 .. Word : HeaderByte(k, len, last) \in Byte
  BY <1>1 DEF HeaderByte, Byte
<1>3. Header(len, last) \in [1 .. Word -> Byte]
  BY <1>2 DEF Header
<1>4. \A i \in 1 .. Word : Header(len, last)[i] = <<i, len, last>>
  BY DEF Header, HeaderByte
<1>5. ASSUME NEW i \in 1 .. Word, len > 0 \/ last = TRUE
      PROVE  <<i, len, last>> # EmptyFragment
  <2>1. EmptyFragment = <<1, 0, FALSE>>
    BY DEF EmptyFragment, HeaderByte
  <2>2. CASE len > 0
    <3>1. <<i, len, last>>[2] > 0 /\ EmptyFragment[2] = 0
      BY <2>1, <2>2
    <3> QED
      BY <3>1
  <2>3. CASE last = TRUE
    <3>1. <<i, len, last>>[3] = TRUE /\ EmptyFragment[3] = FALSE
      BY <2>1, <2>3
    <3>2. <<i, len, last>>[3] # EmptyFragment[3]
      BY <3>1
    <3> QED
      BY <3>2, Zenon
  <2> QED
    BY <1>5, <2>2, <2>3
<1> QED
  BY <1>1, <1>2, <1>3, <1>4, <1>5, FunctionIsSeq

\* Filling the open header in.
LEMMA HeadedBytes ==
  ASSUME TypeOK, OutSound, NEW last \in BOOLEAN
  PROVE  /\ Headed(last) \in Seq(Byte) /\ Len(Headed(last)) = Len(o.buf)
         /\ last = TRUE \/ Len(o.buf) > o.frag + Word =>
              \A i \in 1 .. Len(o.buf) : Headed(last)[i] # EmptyFragment
<1> DEFINE len == Len(o.buf) - o.frag - Word
<1>1. /\ o.buf \in Seq(Byte) /\ Len(o.buf) \in Nat /\ o.frag \in Nat
      /\ Word \in Nat \ {0} /\ len \in Nat
  BY WordFacts, SMTT(30) DEF TypeOK
<1> HIDE DEF len
<1>2. \A i \in 1 .. Len(o.buf) : o.buf[i] \in Byte
  BY <1>1, ElementOfSeq
<1>3. \A i \in 1 .. Word : Header(len, last)[i] \in Byte
  BY <1>1, HeaderBytes
<1>4. Headed(last) = [i \in 1 .. Len(o.buf) |->
                        IF i > o.frag /\ i <= o.frag + Word
                          THEN Header(len, last)[i - o.frag] ELSE o.buf[i]]
  BY DEF Headed, len
<1>5. Headed(last) \in [1 .. Len(o.buf) -> Byte]
  BY <1>1, <1>2, <1>3, <1>4
<1>6. ASSUME last = TRUE \/ Len(o.buf) > o.frag + Word, NEW i \in 1 .. Len(o.buf)
      PROVE  Headed(last)[i] # EmptyFragment
  <2>1. last = TRUE \/ len > 0
    BY <1>1, <1>6 DEF len
  <2>2. CASE i > o.frag /\ i <= o.frag + Word
    <3>1. i - o.frag \in 1 .. Word
      BY <1>1, <2>2
    <3> QED
      BY <1>1, <1>4, <2>1, <2>2, <3>1, HeaderBytes
  <2>3. CASE ~(i > o.frag /\ i <= o.frag + Word)
    <3>1. i \notin o.frag + 1 .. o.frag + Word
      BY <1>1, <2>3
    <3> QED
      BY <1>4, <2>3, <3>1 DEF OutSound
  <2> QED
    BY <2>2, <2>3
<1> QED
  BY <1>1, <1>5, <1>6, FunctionIsSeq

LEMMA FreshBuffer ==
  /\ FreshOut \in [buf : Seq(Byte), frag : Nat, frag_sent : BOOLEAN, todo : Nat]
  /\ Len(FreshOut.buf) = Word /\ FreshOut.frag = 0 /\ FreshOut.todo = 0
  BY HeaderBytes DEF FreshOut

\* A flush that ends a record, or has data, leaves the invariant.
LEMMA FlushSound ==
  ASSUME IInv, NEW last \in BOOLEAN, NEW sent \in BOOLEAN, NEW todo \in Nat,
         todo % Word = 0, last = TRUE \/ Len(o.buf) > o.frag + Word,
         FlushOut(last, sent, todo)
  PROVE  IInv'
<1> DEFINE h == Headed(last)
<1>1. /\ o' = [FreshOut EXCEPT !.frag_sent = sent, !.todo = todo]
      /\ wire' = wire \o h /\ UNCHANGED <<r, next, out>>
  BY DEF FlushOut
<1>2. /\ o' \in [buf : Seq(Byte), frag : Nat, frag_sent : BOOLEAN, todo : Nat]
      /\ o'.buf = FreshOut.buf /\ Len(o'.buf) = Word /\ o'.frag = 0 /\ o'.todo = todo
  BY <1>1, FreshBuffer
<1>3. /\ h \in Seq(Byte) /\ Len(h) = Len(o.buf)
      /\ \A i \in 1 .. Len(o.buf) : h[i] # EmptyFragment
  BY HeadedBytes DEF IInv
<1> HIDE DEF h
<1>4. wire \in Seq(Byte) /\ Len(wire) \in Nat /\ Len(o.buf) \in Nat
  BY DEF IInv, TypeOK
<1>5. /\ wire' \in Seq(Byte) /\ Len(wire') = Len(wire) + Len(o.buf)
      /\ \A i \in 1 .. Len(wire) + Len(o.buf) :
           wire'[i] = IF i <= Len(wire) THEN wire[i] ELSE h[i - Len(wire)]
  <2>1. /\ wire \o h \in Seq(Byte) /\ Len(wire \o h) = Len(wire) + Len(h)
        /\ \A i \in 1 .. Len(wire) + Len(h) :
             (wire \o h)[i] = IF i <= Len(wire) THEN wire[i] ELSE h[i - Len(wire)]
    BY <1>3, <1>4, ConcatProperties, ZenonT(60)
  <2> QED
    BY <1>1, <1>3, <2>1
<1>6. TypeOK'
  <2>1. o'.frag + Word <= Len(o'.buf) /\ Len(o'.buf) <= OutSize
    BY <1>2, WordFacts
  <2>2. UNCHANGED <<r, next>>
    BY <1>1
  <2> QED
    BY <1>2, <1>5, <2>1, <2>2 DEF IInv, TypeOK
<1>7. WordsAligned'
  BY <1>1 DEF IInv, WordsAligned
<1>8. NoEmptyFragment'
  <2>1. SUFFICES ASSUME NEW i \in 1 .. Len(wire) + Len(o.buf)
                 PROVE  wire'[i] # EmptyFragment
    BY <1>5 DEF NoEmptyFragment
  <2>2. CASE i <= Len(wire)
    BY <1>4, <1>5, <2>2 DEF IInv, NoEmptyFragment
  <2>3. CASE i > Len(wire)
    <3>1. i - Len(wire) \in 1 .. Len(o.buf)
      BY <1>4, <2>3
    <3>2. wire'[i] = h[i - Len(wire)]
      BY <1>4, <1>5, <2>3
    <3> QED
      BY <1>3, <3>1, <3>2
  <2> QED
    BY <1>4, <2>2, <2>3
<1>9. OutSound'
  <2>1. /\ Len(o'.buf) % Word = 0 /\ o'.todo % Word = 0 /\ o'.frag + Word < OutSize
    BY <1>2, WordFacts
  <2>2. \A i \in 1 .. Len(o'.buf) : i \in o'.frag + 1 .. o'.frag + Word
    BY <1>2, WordFacts
  <2> QED
    BY <2>1, <2>2 DEF OutSound
<1> QED
  BY <1>6, <1>7, <1>8, <1>9 DEF IInv

\* Storing whole words that fit.
LEMMA StoreSound ==
  ASSUME IInv, NEW k \in Nat, NEW todo \in Nat, k <= Room,
         k % Word = 0, todo % Word = 0, Store(k, todo)
  PROVE  IInv'
<1> DEFINE d == [i \in 1 .. k |-> DataByte(next + i - 1)]
<1>1. /\ o' = [o EXCEPT !.buf = o.buf \o d, !.todo = todo]
      /\ next' = (next + k) % Tags /\ UNCHANGED <<r, wire, out>>
  BY DEF Store
<1>2. /\ o.buf \in Seq(Byte) /\ Len(o.buf) \in Nat /\ Len(o.buf) <= OutSize
      /\ next \in Nat /\ Word \in Nat \ {0} /\ Tags \in Nat \ {0} /\ OutSize \in Nat
      /\ o.frag \in Nat /\ o.frag + Word <= Len(o.buf)
  BY WordFacts DEF IInv, TypeOK
<1>3. ASSUME NEW n \in Nat
      PROVE  DataByte(n) \in Byte /\ DataByte(n) # EmptyFragment
  <2>1. n % Tags \in Nat
    BY <1>2
  <2>2. DataByte(n)[1] = 0 /\ EmptyFragment[1] = 1
    BY DEF DataByte, EmptyFragment, HeaderByte
  <2>3. DataByte(n) \in Byte
    <3>1. ASSUME NEW m \in Nat, NEW b \in BOOLEAN
          PROVE  <<0, m, b>> \in Byte
      <4>1. 0 \in 0 .. Word
        BY <1>2
      <4> QED
        BY <4>1 DEF Byte
    <3> QED
      BY <2>1, <3>1 DEF DataByte
  <2> QED
    BY <2>2, <2>3
<1>4. /\ d \in [1 .. k -> Byte]
      /\ \A i \in 1 .. k : d[i] # EmptyFragment
  BY <1>2, <1>3
<1>5. d \in Seq(Byte) /\ Len(d) = k
  BY <1>4, FunctionIsSeq
<1> HIDE DEF d
<1>6. /\ o.buf \o d \in Seq(Byte) /\ Len(o.buf \o d) = Len(o.buf) + k
      /\ \A i \in 1 .. Len(o.buf) + k :
           (o.buf \o d)[i] = IF i <= Len(o.buf) THEN o.buf[i] ELSE d[i - Len(o.buf)]
  BY <1>2, <1>5, ConcatProperties
<1>7. /\ o' \in [buf : Seq(Byte), frag : Nat, frag_sent : BOOLEAN, todo : Nat]
      /\ o'.buf = o.buf \o d /\ o'.frag = o.frag /\ o'.todo = todo
  BY <1>1, <1>6 DEF IInv, TypeOK
<1>8. TypeOK'
  <2>1. o'.frag + Word <= Len(o'.buf) /\ Len(o'.buf) <= OutSize
    BY <1>2, <1>6, <1>7 DEF Room
  <2>2. next' \in 0 .. Tags - 1
    BY <1>1, <1>2
  <2>3. UNCHANGED <<r, wire>>
    BY <1>1
  <2> QED
    BY <1>7, <2>1, <2>2, <2>3 DEF IInv, TypeOK
<1>9. WordsAligned' /\ NoEmptyFragment'
  BY <1>1 DEF IInv, WordsAligned, NoEmptyFragment
<1>10. OutSound'
  <2>1. Len(o'.buf) % Word = 0 /\ o'.todo % Word = 0 /\ o'.frag + Word < OutSize
    <3>1. Len(o.buf) % Word = 0 /\ o.frag + Word < OutSize
      BY DEF IInv, OutSound
    <3>2. (Len(o.buf) + k) % Word = 0
      BY <1>2, <3>1, Multiples
    <3> QED
      BY <1>6, <1>7, <3>1, <3>2
  <2>2. ASSUME NEW i \in 1 .. Len(o.buf) + k, i \notin o.frag + 1 .. o.frag + Word
        PROVE  (o.buf \o d)[i] # EmptyFragment
    <3>1. CASE i <= Len(o.buf)
      <4>1. i \in 1 .. Len(o.buf) /\ (o.buf \o d)[i] = o.buf[i]
        BY <1>2, <1>6, <3>1
      <4>2. o.buf[i] # EmptyFragment
        BY <2>2, <4>1 DEF IInv, OutSound
      <4> QED
        BY <4>1, <4>2
    <3>2. CASE i > Len(o.buf)
      <4>1. i - Len(o.buf) \in 1 .. k /\ (o.buf \o d)[i] = d[i - Len(o.buf)]
        BY <1>2, <1>6, <3>2
      <4> QED
        BY <1>4, <4>1
    <3>3. i <= Len(o.buf) \/ i > Len(o.buf)
      BY <1>2
    <3> QED
      BY <3>1, <3>2, <3>3
  <2> QED
    BY <1>6, <1>7, <2>1, <2>2 DEF OutSound
<1> QED
  BY <1>8, <1>9, <1>10 DEF IInv

\* The rest of the buffer is whole words, and a full buffer has data behind
\* its open header.
LEMMA RoomIsWords ==
  ASSUME IInv
  PROVE  /\ Room \in Nat /\ Room % Word = 0
         /\ Room < Word => Len(o.buf) > o.frag + Word
<1>1. /\ Len(o.buf) \in Nat /\ Len(o.buf) <= OutSize /\ Len(o.buf) % Word = 0
      /\ OutSize \in Nat /\ OutSize % Word = 0 /\ Word \in Nat \ {0}
      /\ o.frag \in Nat /\ o.frag + Word < OutSize
  BY WordFacts DEF IInv, TypeOK, OutSound
<1>2. Room \in Nat /\ Len(o.buf) + Room = OutSize
  BY <1>1 DEF Room
<1>3. Room % Word = 0
  BY <1>1, <1>2, Multiples
<1>4. Len(o.buf) < OutSize => Len(o.buf) + Word <= OutSize
  BY <1>1, MultiplesApart
<1> QED
  BY <1>1, <1>2, <1>3, <1>4

\* What fits of n bytes, and what is left, are whole words too.
LEMMA SplitIsWords ==
  ASSUME IInv, NEW n \in Nat, n % Word = 0
  PROVE  /\ Least(n, Room) \in Nat /\ Least(n, Room) <= Room
         /\ Least(n, Room) % Word = 0
         /\ n - Least(n, Room) \in Nat /\ (n - Least(n, Room)) % Word = 0
<1> DEFINE k == Least(n, Room)
<1>1. Room \in Nat /\ Room % Word = 0 /\ Word \in Nat \ {0}
  BY RoomIsWords, WordFacts
<1>2. k \in Nat /\ k <= Room /\ k % Word = 0 /\ n - k \in Nat /\ k + (n - k) = n
  BY <1>1 DEF Least
<1> HIDE DEF k
<1>3. (n - k) % Word = 0
  BY <1>1, <1>2, Multiples, ZenonT(60)
<1> QED
  BY <1>2, <1>3 DEF k

\* Ending a record without sending it puts the next header down.
LEMMA BatchSound ==
  ASSUME IInv, NEW now \in BOOLEAN, EndOfRecord(now),
         ~(now \/ o.frag_sent \/ Len(o.buf) + Word >= OutSize)
  PROVE  IInv'
<1> DEFINE h == Headed(TRUE)
           e == Header(0, FALSE)
<1>1. /\ o' = [o EXCEPT !.buf = h \o e, !.frag = Len(o.buf)]
      /\ UNCHANGED <<r, wire, next, out>>
  BY DEF EndOfRecord
<1>2. /\ Len(o.buf) \in Nat /\ Word \in Nat \ {0} /\ OutSize \in Nat
      /\ Len(o.buf) + Word < OutSize /\ Len(o.buf) % Word = 0 /\ o.todo % Word = 0
      /\ Word % Word = 0
  BY WordFacts, SMTT(30) DEF IInv, TypeOK, OutSound
<1>3. /\ h \in Seq(Byte) /\ Len(h) = Len(o.buf)
      /\ \A i \in 1 .. Len(o.buf) : h[i] # EmptyFragment
  BY HeadedBytes DEF IInv
<1>4. e \in Seq(Byte) /\ Len(e) = Word
  BY HeaderBytes
<1> HIDE DEF h, e
<1>5. /\ h \o e \in Seq(Byte) /\ Len(h \o e) = Len(o.buf) + Word
      /\ \A i \in 1 .. Len(h) + Len(e) :
           (h \o e)[i] = IF i <= Len(h) THEN h[i] ELSE e[i - Len(h)]
  <2>1. Len(h) + Len(e) = Len(o.buf) + Word
    BY <1>3, <1>4
  <2>2. h \in Seq(Byte) /\ e \in Seq(Byte)
    BY <1>3, <1>4
  <2> QED
    BY <2>1, <2>2, ConcatProperties
<1>6. /\ o' \in [buf : Seq(Byte), frag : Nat, frag_sent : BOOLEAN, todo : Nat]
      /\ o'.buf = h \o e /\ o'.frag = Len(o.buf) /\ o'.todo = o.todo
  BY <1>1, <1>2, <1>5 DEF IInv, TypeOK
<1>7. TypeOK'
  <2>1. o'.frag + Word <= Len(o'.buf) /\ Len(o'.buf) <= OutSize
    BY <1>2, <1>5, <1>6
  <2>2. UNCHANGED <<r, wire, next>>
    BY <1>1
  <2> QED
    BY <1>6, <2>1, <2>2 DEF IInv, TypeOK
<1>8. WordsAligned' /\ NoEmptyFragment'
  BY <1>1 DEF IInv, WordsAligned, NoEmptyFragment
<1>9. OutSound'
  <2>1. (Len(o.buf) + Word) % Word = 0
    BY <1>2, Multiples
  <2>2. ASSUME NEW i \in 1 .. Len(o.buf) + Word,
               i \notin Len(o.buf) + 1 .. Len(o.buf) + Word
        PROVE  (h \o e)[i] # EmptyFragment
    <3>1. i \in 1 .. Len(o.buf)
      BY <1>2, <2>2
    <3>2. (h \o e)[i] = h[i]
      BY <1>2, <1>3, <1>4, <1>5, <3>1
    <3> QED
      BY <1>3, <3>1, <3>2
  <2> QED
    BY <1>2, <1>5, <1>6, <2>1, <2>2 DEF OutSound
<1> QED
  BY <1>7, <1>8, <1>9 DEF IInv

\* Every step of the sender.
LEMMA SenderSound ==
  ASSUME IInv, Sender
  PROVE  IInv'
<1>1. /\ o.todo \in Nat /\ o.todo % Word = 0 /\ Word \in Nat \ {0}
      /\ Word % Word = 0 /\ 0 % Word = 0 /\ Room \in Nat
  BY WordFacts, RoomIsWords DEF IInv, TypeOK, OutSound
<1>2. ASSUME NEW n \in Puts
      PROVE  n \in Nat /\ n % Word = 0 /\ n > 0
  BY RecordAssumption
<1>3. CASE PutLong
  <2>1. CASE Word > Room
    BY <1>1, <1>3, <2>1, RoomIsWords, FlushSound DEF PutLong
  <2>2. CASE ~(Word > Room)
    BY <1>1, <1>3, <2>2, StoreSound DEF PutLong
  <2> QED
    BY <2>1, <2>2
<1>4. CASE PutMore
  <2>1. CASE Room = 0
    <3>1. FlushOut(FALSE, TRUE, o.todo)
      BY <1>4, <2>1 DEF PutMore
    <3>2. Len(o.buf) > o.frag + Word
      BY <1>1, <2>1, RoomIsWords
    <3> QED
      BY <1>1, <3>1, <3>2, FlushSound
  <2>2. CASE Room # 0
    BY <1>1, <1>4, <2>2, SplitIsWords, StoreSound DEF PutMore
  <2> QED
    BY <2>1, <2>2
<1>5. ASSUME NEW n \in Puts, PutBytes(n)
      PROVE  IInv'
  BY <1>2, <1>5, SplitIsWords, StoreSound DEF PutBytes
<1>6. ASSUME NEW n \in Puts, PutFull(n)
      PROVE  IInv'
  <2>1. FlushOut(FALSE, TRUE, n)
    BY <1>6 DEF PutFull
  <2>2. Len(o.buf) > o.frag + Word
    BY <1>1, <1>6, RoomIsWords DEF PutFull
  <2> QED
    BY <1>2, <2>1, <2>2, FlushSound
<1>7. ASSUME NEW n \in Puts, PutInline(n)
      PROVE  IInv'
  BY <1>1, <1>2, <1>7, StoreSound DEF PutInline
<1>8. ASSUME NEW now \in BOOLEAN, EndOfRecord(now)
      PROVE  IInv'
  <2>1. CASE now \/ o.frag_sent \/ Len(o.buf) + Word >= OutSize
    <3>1. FlushOut(TRUE, FALSE, 0)
      BY <1>8, <2>1 DEF EndOfRecord
    <3> QED
      BY <1>1, <3>1, FlushSound
  <2>2. CASE ~(now \/ o.frag_sent \/ Len(o.buf) + Word >= OutSize)
    BY <1>8, <2>2, BatchSound
  <2> QED
    BY <2>1, <2>2
<1> QED
  BY <1>3, <1>4, <1>5, <1>6, <1>7, <1>8 DEF Sender

-----------------------------------------------------------------------------
(* The reader.                                                             *)

Reading == [buf : Seq(Byte), finger : Nat, fbtbc : Nat, last_frag : BOOLEAN,
            hdr : Seq(Byte), op : Op \cup {None}, pos : 0 .. Word - 1]

\* What the invariant says of the reader alone.
InSound(s) ==
  /\ s \in Reading
  /\ s.finger + Len(s.buf) <= InSize /\ Len(s.hdr) < Word
  /\ s.finger % Word = s.pos

LEMMA ReaderStep ==
  ASSUME IInv, UNCHANGED <<o, wire, next>>, InSound(r')
  PROVE  IInv'
<1>1. TypeOK'
  BY DEF IInv, TypeOK, InSound, Reading
<1>2. WordsAligned' /\ NoEmptyFragment' /\ OutSound'
  BY DEF IInv, WordsAligned, NoEmptyFragment, OutSound, InSound
<1> QED
  BY <1>1, <1>2 DEF IInv

LEMMA ReaderFacts ==
  ASSUME IInv
  PROVE  InSound(r) /\ r.buf \in Seq(Byte) /\ Len(r.buf) \in Nat /\ r.fbtbc \in Nat
BY DEF IInv, TypeOK, InSound, Reading, WordsAligned

\* Taking bytes off the buffer keeps what is left in place.
LEMMA EatenSound ==
  ASSUME IInv, NEW k \in Nat, k <= Len(r.buf)
  PROVE  InSound(Eaten(k)) /\ Eaten(k).hdr = r.hdr /\ Eaten(k).fbtbc = r.fbtbc
<1>1. InSound(r) /\ r.buf \in Seq(Byte) /\ Len(r.buf) \in Nat
  BY ReaderFacts
<1>2. Word \in Nat \ {0} /\ r.finger \in Nat /\ r \in Reading
  BY <1>1, WordFacts DEF InSound, Reading
<1>3. From(r.buf, k) \in Seq(Byte) /\ Len(From(r.buf, k)) = Len(r.buf) - k
  BY <1>1, FrontAndRest, SMTT(30)
<1>4. r.finger + k \in Nat /\ (r.pos + k) % Word = (r.finger + k) % Word
  <2>1. r.finger % Word = r.pos
    BY <1>1 DEF InSound
  <2>2. ((r.finger % Word) + k) % Word = (r.finger + k) % Word
    BY <1>2, RemainderMoves
  <2>3. (r.pos + k) % Word = (r.finger + k) % Word
    BY <2>1, <2>2, Zenon
  <2> QED
    BY <1>2, <2>3, SMTT(30)
<1>5. (r.finger + k) % Word \in 0 .. Word - 1
  BY <1>2, <1>4, Quotient
<1> DEFINE s == Eaten(k)
<1>6. s = [r EXCEPT !.buf = From(r.buf, k), !.finger = r.finger + k,
                    !.pos = (r.pos + k) % Word]
  BY DEF Eaten
<1>7. /\ s \in Reading /\ s.buf = From(r.buf, k) /\ s.finger = r.finger + k
      /\ s.pos = (r.pos + k) % Word /\ s.hdr = r.hdr /\ s.fbtbc = r.fbtbc
  BY <1>2, <1>3, <1>4, <1>5, <1>6 DEF Reading
<1> HIDE DEF s
<1>8. s.finger + Len(s.buf) <= InSize /\ Len(s.hdr) < Word /\ s.finger % Word = s.pos
  BY <1>1, <1>2, <1>3, <1>4, <1>7, WordFacts DEF InSound
<1> QED
  BY <1>7, <1>8 DEF InSound, s

\* The places of the reader that the other fields do not depend on.
LEMMA ElsewhereSound ==
  ASSUME NEW s, InSound(s), NEW fb \in Nat, NEW op \in Op \cup {None},
         NEW last \in BOOLEAN
  PROVE  /\ InSound([s EXCEPT !.fbtbc = fb]) /\ InSound([s EXCEPT !.op = op])
         /\ InSound([s EXCEPT !.fbtbc = fb, !.op = op])
         /\ InSound([s EXCEPT !.op = op, !.last_frag = last])
BY DEF InSound, Reading

\* What a copy takes exists, and its bytes are numbers.
LEMMA DataIsSeq ==
  ASSUME IInv, NEW k \in Nat, k <= Len(r.buf)
  PROVE  Data(k) \in Seq(Nat)
<1>1. \A i \in 1 .. k : r.buf[i] \in Byte
  BY ReaderFacts, ElementOfSeq
<1>2. Data(k) \in [1 .. k -> Nat]
  BY <1>1 DEF Data, Byte
<1> QED
  BY <1>2, FunctionIsSeq

LEMMA FillSound ==
  ASSUME IInv, Fill
  PROVE  IInv'
<1> DEFINE i == (r.finger + Len(r.buf)) % Word
<1>1. /\ InSound(r) /\ r \in Reading /\ Word \in Nat \ {0} /\ InSize \in Nat
      /\ r.finger \in Nat /\ r.finger % Word = r.pos
  BY ReaderFacts, WordFacts DEF InSound, Reading
<1>2. r.buf = <<>> /\ UNCHANGED <<o, next, out>>
  BY DEF Fill
<1>3. i = r.pos /\ i \in Nat /\ i \in 0 .. Word - 1
  <2>1. r.finger + Len(r.buf) = r.finger
    BY <1>1, <1>2
  <2>2. r.pos \in 0 .. Word - 1
    BY <1>1, Quotient
  <2> QED
    BY <1>1, <2>1, <2>2
<1>4. PICK n \in 1 .. Least(Len(wire), InSize - i) :
        /\ r' = [r EXCEPT !.buf = SubSeq(wire, 1, n), !.finger = i]
        /\ wire' = From(wire, n)
  BY DEF Fill
<1> HIDE DEF i
<1>5. wire \in Seq(Byte) /\ Len(wire) \in Nat
  BY DEF IInv, TypeOK
<1>6. n \in 0 .. Len(wire) /\ n <= InSize - i
  BY <1>1, <1>3, <1>5 DEF Least
<1>7. /\ SubSeq(wire, 1, n) \in Seq(Byte) /\ Len(SubSeq(wire, 1, n)) = n
      /\ wire' \in Seq(Byte) /\ Len(wire') = Len(wire) - n
      /\ \A j \in 1 .. Len(wire) - n : wire'[j] = wire[j + n]
  BY <1>4, <1>5, <1>6, FrontAndRest
<1>8. /\ r' \in Reading /\ r'.buf = SubSeq(wire, 1, n) /\ r'.finger = i
      /\ r'.pos = r.pos /\ r'.hdr = r.hdr
  BY <1>1, <1>3, <1>4, <1>7 DEF Reading
<1>9. i % Word = i
  <2>1. (Word * 0 + i) % Word = i
    BY <1>1, <1>3, Remainder
  <2>2. Word * 0 + i = i
    BY <1>1, <1>3
  <2> QED
    BY <2>1, <2>2
<1>10. InSound(r')
  BY <1>1, <1>3, <1>6, <1>7, <1>8, <1>9, SMTT(30) DEF InSound
<1>11. TypeOK'
  BY <1>2, <1>7, <1>10 DEF IInv, TypeOK, InSound, Reading
<1>12. WordsAligned'
  BY <1>10 DEF InSound, WordsAligned
<1>13. NoEmptyFragment'
  <2>1. ASSUME NEW j \in 1 .. Len(wire) - n
        PROVE  wire'[j] # EmptyFragment
    <3>1. j + n \in 1 .. Len(wire) /\ wire'[j] = wire[j + n]
      BY <1>5, <1>6, <1>7
    <3> QED
      BY <3>1 DEF IInv, NoEmptyFragment
  <2> QED
    BY <1>7, <2>1 DEF NoEmptyFragment
<1>14. OutSound'
  BY <1>2 DEF IInv, OutSound
<1> QED
  BY <1>11, <1>12, <1>13, <1>14 DEF IInv

LEMMA ReadHeaderSound ==
  ASSUME IInv, ReadHeader
  PROVE  IInv'
<1> DEFINE k    == Least(Word - Len(r.hdr), Len(r.buf))
           hdr  == r.hdr \o SubSeq(r.buf, 1, k)
           len  == hdr[1][2]
           last == hdr[1][3]
<1>1. /\ InSound(r) /\ r.buf \in Seq(Byte) /\ Len(r.buf) \in Nat
      /\ r.hdr \in Seq(Byte) /\ Len(r.hdr) \in Nat /\ Len(r.hdr) < Word
      /\ Word \in Nat \ {0}
  BY ReaderFacts, WordFacts DEF InSound, Reading
<1>2. k > 0 /\ UNCHANGED <<o, wire, next>>
  BY DEF ReadHeader
<1>3. k \in Nat /\ k <= Len(r.buf)
  <2>1. Word - Len(r.hdr) \in Nat
    BY <1>1
  <2> QED
    BY <1>1, <2>1, LeastIsLeast
<1>4. hdr \in Seq(Byte) /\ Len(hdr) = Len(r.hdr) + k
  <2>1. SubSeq(r.buf, 1, k) \in Seq(Byte) /\ Len(SubSeq(r.buf, 1, k)) = k
    BY <1>1, <1>3, FrontAndRest
  <2> QED
    BY <1>1, <2>1, ConcatProperties
<1>5. hdr[1] \in Byte
  BY <1>1, <1>2, <1>3, <1>4, ElementOfSeq
<1>6. len \in Nat /\ last \in BOOLEAN
  BY <1>5 DEF Byte
<1>7. InSound(Eaten(k))
  BY <1>3, EatenSound
<1>8. CASE Len(hdr) < Word
  <2>1. r' = [Eaten(k) EXCEPT !.hdr = hdr]
    BY <1>8 DEF ReadHeader
  <2>2. InSound(r')
    BY <1>4, <1>7, <1>8, <2>1 DEF InSound, Reading
  <2> QED
    BY <1>2, <2>2, ReaderStep
<1>9. CASE ~(Len(hdr) < Word)
  <2> DEFINE s == [Eaten(k) EXCEPT !.hdr = <<>>, !.last_frag = last, !.fbtbc = len]
  <2>1. r' = s \/ r' = [s EXCEPT !.op = None]
    BY <1>9 DEF ReadHeader
  <2> HIDE DEF k, hdr, len, last
  <2>2. InSound(s)
    <3>1. <<>> \in Seq(Byte) /\ Len(<<>>) = 0
      BY EmptySeq
    <3> DEFINE e == Eaten(k)
    <3>2. e \in Reading /\ InSound(e)
      BY <1>7 DEF InSound
    <3> HIDE DEF e
    <3>3. [e EXCEPT !.hdr = <<>>, !.last_frag = last, !.fbtbc = len] \in Reading
      BY <1>6, <3>1, <3>2 DEF Reading
    <3>4. InSound([e EXCEPT !.hdr = <<>>, !.last_frag = last, !.fbtbc = len])
      BY <1>1, <3>1, <3>2, <3>3, SMTT(30) DEF InSound, Reading
    <3> QED
      BY <3>4 DEF e
  <2> HIDE DEF s
  <2>3. InSound([s EXCEPT !.op = None])
    BY <2>2 DEF InSound, Reading
  <2>4. InSound(r')
    BY <2>1, <2>2, <2>3
  <2> QED
    BY <1>2, <2>4, ReaderStep
<1> QED
  BY <1>8, <1>9

\* The remaining steps take bytes off the buffer and count them.
LEMMA ConsumeSound ==
  ASSUME IInv, NEW k \in Nat, k <= Len(r.buf), k <= r.fbtbc,
         NEW op \in Op \cup {None}, UNCHANGED <<o, wire, next>>,
         \/ r' = [Eaten(k) EXCEPT !.fbtbc = @ - k]
         \/ r' = [Eaten(k) EXCEPT !.fbtbc = @ - k, !.op = op]
  PROVE  IInv'
<1> DEFINE e == Eaten(k)
<1>1. InSound(e) /\ e.fbtbc = r.fbtbc /\ r.fbtbc \in Nat
  BY EatenSound, ReaderFacts
<1>2. r' = [e EXCEPT !.fbtbc = e.fbtbc - k] \/ r' = [e EXCEPT !.fbtbc = e.fbtbc - k, !.op = op]
  OBVIOUS
<1> HIDE DEF e
<1>3. e.fbtbc - k \in Nat
  BY <1>1
<1> DEFINE left == e.fbtbc - k
<1>4. /\ InSound([e EXCEPT !.fbtbc = left])
      /\ InSound([e EXCEPT !.fbtbc = left, !.op = op])
  <2>1. left \in Nat
    BY <1>3
  <2> HIDE DEF left
  <2> QED
    BY <1>1, <2>1, ElsewhereSound
<1>5. InSound(r')
  BY <1>2, <1>4
<1> QED
  BY <1>5, ReaderStep

LEMMA CopySound ==
  ASSUME IInv, Copy
  PROVE  IInv'
<1> DEFINE want == r.op.want - Len(r.op.got)
           k    == Least(want, Least(r.fbtbc, Len(r.buf)))
           got  == r.op.got \o Data(k)
           s    == [Eaten(k) EXCEPT !.fbtbc = @ - k]
<1>1. /\ r.op \in Op /\ k > 0 /\ UNCHANGED <<o, wire, next>>
      /\ \/ r' = [s EXCEPT !.op = None]
         \/ r' = [s EXCEPT !.op.got = got]
  BY DEF Copy, Return, Running, IInv, TypeOK
<1>2. r.op.want \in Nat /\ r.op.got \in Seq(Nat) /\ Len(r.op.got) \in Nat
  BY <1>1 DEF Op
<1>3. Len(r.buf) \in Nat /\ r.fbtbc \in Nat
  BY ReaderFacts
<1>4. k \in Nat /\ k <= Len(r.buf) /\ k <= r.fbtbc
  <2> DEFINE there == Least(r.fbtbc, Len(r.buf))
  <2>1. there \in Nat /\ there <= Len(r.buf) /\ there <= r.fbtbc
    BY <1>3, LeastIsLeast
  <2>2. want \in Int
    BY <1>2
  <2> HIDE DEF there, want
  <2>3. Least(want, there) > 0
    BY <1>1 DEF there
  <2>4. /\ Least(want, there) \in Nat /\ Least(want, there) <= there
    BY <2>1, <2>2, <2>3 DEF Least
  <2>5. k = Least(want, there)
    BY DEF there
  <2> QED
    BY <1>3, <2>1, <2>4, <2>5
<1>5. Data(k) \in Seq(Nat)
  BY <1>4, DataIsSeq
<1>6. got \in Seq(Nat)
  BY <1>2, <1>5, ConcatProperties
<1>7. Eaten(k).op = r.op /\ Eaten(k) \in Reading
  BY <1>4, EatenSound DEF Eaten, InSound, Reading
<1> DEFINE e  == Eaten(k)
           op == [r.op EXCEPT !.got = got]
<1>8. op \in Op
  BY <1>1, <1>6 DEF Op
<1>9. \/ r' = [e EXCEPT !.fbtbc = @ - k, !.op = None]
      \/ r' = [e EXCEPT !.fbtbc = @ - k, !.op = op]
  BY <1>1, <1>7 DEF Reading
<1> HIDE DEF e, op, k
<1> QED
  BY <1>1, <1>4, <1>8, <1>9, ConsumeSound DEF e

\* Every step of the reader.
LEMMA ReaderSound ==
  ASSUME IInv, Reader
  PROVE  IInv'
<1>1. InSound(r) /\ Len(r.buf) \in Nat /\ r.fbtbc \in Nat
  BY ReaderFacts
<1>2. None \in Op \cup {None}
  OBVIOUS
<1>3. CASE Fill
  BY <1>3, FillSound
<1>4. CASE ReadHeader
  BY <1>4, ReadHeaderSound
<1>5. CASE Copy
  BY <1>5, CopySound
<1>6. CASE CopyFails \/ EofDone
  <2>1. r' = [r EXCEPT !.op = None] /\ UNCHANGED <<o, wire, next>>
    BY <1>6 DEF CopyFails, EofDone, Return
  <2>2. InSound(r')
    BY <1>1, <1>2, <2>1, ElsewhereSound
  <2> QED
    BY <2>1, <2>2, ReaderStep
<1>7. CASE SkipDone
  <2>1. /\ r' = [r EXCEPT !.op = None, !.last_frag = FALSE]
        /\ UNCHANGED <<o, wire, next>>
    BY <1>7 DEF SkipDone, Return
  <2>2. InSound(r')
    BY <1>1, <1>2, <2>1, ElsewhereSound
  <2> QED
    BY <2>1, <2>2, ReaderStep
<1>8. CASE SkipBytes
  <2> DEFINE k == Least(r.fbtbc, Len(r.buf))
  <2>1. k \in Nat /\ k <= Len(r.buf) /\ k <= r.fbtbc
    BY <1>1, LeastIsLeast
  <2>2. r' = [Eaten(k) EXCEPT !.fbtbc = @ - k] /\ UNCHANGED <<o, wire, next>>
    BY <1>8 DEF SkipBytes, Return
  <2> QED
    BY <1>2, <2>1, <2>2, ConsumeSound
<1>9. ASSUME NEW n \in Gets, GetInline(n)
      PROVE  IInv'
  <2>1. n \in Nat /\ n <= Len(r.buf) /\ n <= r.fbtbc
    BY <1>9, RecordAssumption DEF GetInline
  <2>2. r' = [Eaten(n) EXCEPT !.fbtbc = @ - n] /\ UNCHANGED <<o, wire, next>>
    BY <1>9 DEF GetInline, Return
  <2> QED
    BY <1>2, <2>1, <2>2, ConsumeSound
<1>10. ASSUME NEW name \in {"get", "skip", "eof"}, NEW want \in Nat, Call(name, want)
       PROVE  IInv'
  <2> DEFINE op == [name |-> name, want |-> want, got |-> <<>>]
  <2>1. <<>> \in Seq(Nat)
    BY EmptySeq
  <2>2. op \in Op
    BY <2>1 DEF Op
  <2>3. r' = [r EXCEPT !.op = op] /\ UNCHANGED <<o, wire, next>>
    BY <1>10 DEF Call, Return
  <2> HIDE DEF op
  <2>4. InSound(r')
    BY <1>1, <2>2, <2>3, ElsewhereSound
  <2> QED
    BY <2>3, <2>4, ReaderStep
<1>11. \A n \in Gets : n \in Nat
  BY RecordAssumption
<1> QED
  BY <1>3, <1>4, <1>5, <1>6, <1>7, <1>8, <1>9, <1>10, <1>11 DEF Reader, Go

-----------------------------------------------------------------------------
(* The theorems.                                                           *)

LEMMA InitSound == Init => IInv
<1> SUFFICES ASSUME Init
             PROVE  IInv
  OBVIOUS
<1>1. /\ o = FreshOut /\ r = FreshIn /\ wire = <<>> /\ next = 0
  BY DEF Init
<1>2. /\ o \in [buf : Seq(Byte), frag : Nat, frag_sent : BOOLEAN, todo : Nat]
      /\ Len(o.buf) = Word /\ o.frag = 0 /\ o.todo = 0
  BY <1>1, FreshBuffer
<1>3. /\ r.buf = <<>> /\ r.hdr = <<>> /\ r.finger = InSize /\ r.pos = 0
      /\ r.fbtbc = 0 /\ r.last_frag = TRUE /\ r.op = None
      /\ r \in Reading
  <2>1. <<>> \in Seq(Byte) /\ 0 \in 0 .. Word - 1 /\ InSize \in Nat
    BY WordFacts, EmptySeq
  <2> QED
    BY <1>1, <2>1 DEF FreshIn, Reading
<1>4. TypeOK
  <2>1. wire \in Seq(Byte) /\ next \in 0 .. Tags - 1
    BY <1>1, WordFacts, EmptySeq
  <2>2. o.frag + Word <= Len(o.buf) /\ Len(o.buf) <= OutSize
    BY <1>2, WordFacts
  <2>3. r.finger + Len(r.buf) <= InSize /\ Len(r.hdr) < Word
    BY <1>3, WordFacts
  <2> QED
    BY <1>2, <1>3, <2>1, <2>2, <2>3 DEF TypeOK, Reading
<1>5. WordsAligned
  BY <1>3, WordFacts DEF WordsAligned
<1>6. NoEmptyFragment
  BY <1>1 DEF NoEmptyFragment
<1>7. OutSound
  <2>1. Len(o.buf) % Word = 0 /\ o.todo % Word = 0 /\ o.frag + Word < OutSize
    BY <1>2, WordFacts
  <2>2. \A i \in 1 .. Len(o.buf) : i \in o.frag + 1 .. o.frag + Word
    BY <1>2, WordFacts
  <2> QED
    BY <2>1, <2>2 DEF OutSound
<1> QED
  BY <1>4, <1>5, <1>6, <1>7 DEF IInv

LEMMA StepSound == IInv /\ [Next]_vars => IInv'
<1> SUFFICES ASSUME IInv, [Next]_vars
             PROVE  IInv'
  OBVIOUS
<1>1. CASE Sender
  BY <1>1, SenderSound
<1>2. CASE Reader
  BY <1>2, ReaderSound
<1>3. CASE UNCHANGED vars
  BY <1>3 DEF vars, IInv, TypeOK, WordsAligned, NoEmptyFragment, OutSound
<1> QED
  BY <1>1, <1>2, <1>3 DEF Next

LEMMA AlwaysSound == Spec => []IInv
BY InitSound, StepSound, PTL DEF Spec

\* Neither buffer is ever written or read outside its bounds, whatever the
\* sizes xdrrec_create was given and however the connection cuts its reads.
THEOREM BuffersBounded == Spec => []TypeOK
<1>1. IInv => TypeOK
  BY DEF IInv
<1> QED
  BY <1>1, AlwaysSound, PTL

\* fill_input_buf keeps in_boundry's place within a word, so the longs that
\* xdrrec_getlong reads in place lie at word addresses.
THEOREM LongsAligned == Spec => []WordsAligned
<1>1. IInv => WordsAligned
  BY DEF IInv
<1> QED
  BY <1>1, AlwaysSound, PTL

\* xdrrec_endofrecord flushes when nothing would fit behind the next header,
\* so no fragment is sent that set_input_fragment takes for an error.
THEOREM FragmentsAccepted == Spec => []NoEmptyFragment
<1>1. IInv => NoEmptyFragment
  BY DEF IInv
<1> QED
  BY <1>1, AlwaysSound, PTL

-----------------------------------------------------------------------------
(* Sequences, cut and joined.                                              *)

LEMMA LeastNatural ==
  ASSUME NEW T \in SUBSET Nat, T # {}
  PROVE  \E x \in T : \A y \in T : x <= y
<1> DEFINE R == OpToRel(<, Nat)
<1>1. IsWellFoundedOn(R, Nat)
  BY NatLessThanWellFounded
<1>2. \A x, y \in Nat : y < x => <<y, x>> \in R
  BY DEF OpToRel
<1> HIDE DEF R
<1>3. PICK x \in T : \A y \in T : ~ (<<y, x>> \in R)
  BY <1>1, WFMin
<1>4. \A y \in T : y \in Nat /\ ~(y < x)
  BY <1>2, <1>3
<1> QED
  BY <1>3, <1>4

\* A sequence is what comes before a place and what comes behind it.
LEMMA Cut ==
  ASSUME NEW S, NEW s \in Seq(S), NEW k \in 0 .. Len(s)
  PROVE  s = SubSeq(s, 1, k) \o From(s, k)
<1>1. Len(s) \in Nat
  OBVIOUS
<1>2. 1 \in 1 .. Len(s) + 1 /\ k \in 1 - 1 .. Len(s) /\ Len(s) \in k .. Len(s)
  BY <1>1
<1>3. SubSeq(s, 1, k) \o SubSeq(s, k + 1, Len(s)) = SubSeq(s, 1, Len(s))
  BY <1>2, ConcatAdjacentSubSeq
<1> QED
  BY <1>3, SubSeqFull DEF From

LEMMA Associates ==
  \A S : \A s, t, u \in Seq(S) : (s \o t) \o u = s \o (t \o u)
  BY ConcatAssociative

LEMMA SameFront ==
  ASSUME NEW S, NEW u \in Seq(S), NEW x \in Seq(S), NEW v \in Seq(S), NEW w \in Seq(S),
         u \o x = v \o w, Len(u) = Len(v)
  PROVE  u = v /\ x = w
<1>1. Len(u) \in Nat /\ Len(x) \in Nat /\ Len(w) \in Nat
  OBVIOUS
<1>2. \A i \in 1 .. Len(u) : (u \o x)[i] = u[i]
  <2>1. \A i \in 1 .. Len(u) + Len(x) :
          (u \o x)[i] = IF i <= Len(u) THEN u[i] ELSE x[i - Len(u)]
    BY ConcatProperties
  <2> QED
    BY <1>1, <2>1
<1>3. \A i \in 1 .. Len(v) : (v \o w)[i] = v[i]
  <2>1. \A i \in 1 .. Len(v) + Len(w) :
          (v \o w)[i] = IF i <= Len(v) THEN v[i] ELSE w[i - Len(v)]
    BY ConcatProperties
  <2> QED
    BY <1>1, <2>1
<1>4. \A i \in 1 .. Len(u) : u[i] = v[i]
  BY <1>2, <1>3
<1>5. u = v
  BY <1>4, SeqEqual
<1>6. u \o x = u \o w
  BY <1>5
<1> QED
  BY <1>5, <1>6, ConcatSimplifications

-----------------------------------------------------------------------------
(* The parser.                                                             *)

Token == Int \cup {EOR}

\* Where the parser comes behind some bytes.
Run(h, q, z) ==
  /\ h \in [0 .. Len(z) -> Parser] /\ h[0] = q
  /\ \A i \in 1 .. Len(z) : h[i] = Parse(h[i - 1], z[i])
After(q, z) == CHOOSE e : \E h : Run(h, q, z) /\ e = h[Len(z)]

LEMMA ClosedTyped ==
  ASSUME NEW q \in Parser
  PROVE  Closed(q) \in Parser /\ Closed(q).fb = q.fb /\ Closed(q).seen = q.seen
         /\ (Closed(q).fb = 0 => Closed(q).end = <<>>)
<1>1. <<>> \in Seq(Token) /\ <<EOR>> \in Seq(Token)
  BY DEF Token
<1>2. q.toks \in Seq(Token) /\ q.end \in Seq(Token)
  BY <1>1 DEF Parser, Token
<1>3. q.toks \o q.end \in Seq(Token)
  BY <1>2, ConcatProperties
<1>4. CASE q.fb = 0
  <2>1. Closed(q) = [q EXCEPT !.toks = q.toks \o q.end, !.end = <<>>]
    BY <1>4 DEF Closed
  <2> QED
    BY <1>3, <1>4, <2>1 DEF Parser, Token
<1>5. CASE q.fb # 0
  BY <1>5 DEF Closed
<1> QED
  BY <1>4, <1>5

LEMMA FragmentTyped ==
  ASSUME NEW toks \in Seq(Token), NEW len \in Nat, NEW last \in BOOLEAN
  PROVE  /\ Fragment(toks, len, last) \in Parser
         /\ Fragment(toks, len, last).fb = len /\ Fragment(toks, len, last).seen = 0
         /\ len = 0 => Fragment(toks, len, last).end = <<>>
<1> DEFINE e == IF last THEN <<EOR>> ELSE <<>>
           a == [toks |-> toks, fb |-> len, seen |-> 0, end |-> e]
<1>1. e \in {<<>>, <<EOR>>}
  OBVIOUS
<1> HIDE DEF e
<1>2. a \in Parser /\ a.fb = len /\ a.seen = 0
  BY <1>1 DEF Parser, Token
<1>3. Fragment(toks, len, last) = Closed(a)
  BY DEF Fragment, e
<1> HIDE DEF a
<1> QED
  BY <1>2, <1>3, ClosedTyped

LEMMA ParseTyped ==
  ASSUME NEW q \in Parser, NEW x \in Byte
  PROVE  Parse(q, x) \in Parser
<1>1. x[2] \in Nat /\ x[3] \in BOOLEAN /\ Word \in Nat
  BY WordFacts DEF Byte
<1>2. CASE q.fb > 0
  <2> DEFINE t == Append(q.toks, IF x[1] = 0 THEN x[2] ELSE -1)
             a == [q EXCEPT !.fb = q.fb - 1, !.toks = t]
  <2>1. t \in Seq(Token)
    <3>1. (IF x[1] = 0 THEN x[2] ELSE -1) \in Token /\ q.toks \in Seq(Token)
      BY <1>1 DEF Token, Parser
    <3> QED
      BY <3>1, AppendProperties
  <2> HIDE DEF t
  <2>2. a \in Parser
    <3>1. q.fb - 1 \in Nat
      BY <1>2 DEF Parser
    <3> QED
      BY <2>1, <3>1 DEF Parser, Token
  <2>3. Parse(q, x) = Closed(a)
    BY <1>2 DEF Parse, t
  <2> HIDE DEF a
  <2> QED
    BY <2>2, <2>3, ClosedTyped
<1>3. CASE ~(q.fb > 0) /\ q.seen + 1 < Word
  <2>1. Parse(q, x) = [q EXCEPT !.seen = q.seen + 1]
    BY <1>3 DEF Parse
  <2> QED
    BY <2>1 DEF Parser
<1>4. CASE ~(q.fb > 0) /\ ~(q.seen + 1 < Word)
  <2>1. Parse(q, x) = Fragment(q.toks, x[2], x[3])
    BY <1>4 DEF Parse
  <2>2. q.toks \in Seq(Token)
    BY DEF Parser, Token
  <2> QED
    BY <1>1, <2>1, <2>2, FragmentTyped
<1> QED
  BY <1>2, <1>3, <1>4

LEMMA RunExists ==
  ASSUME NEW q \in Parser, NEW z \in Seq(Byte)
  PROVE  \E h : Run(h, q, z)
<1> DEFINE Upto(n) == \E h \in [0 .. n -> Parser] :
                        h[0] = q /\ \A i \in 1 .. n : h[i] = Parse(h[i - 1], z[i])
           T == {n \in 0 .. Len(z) : ~Upto(n)}
<1>1. Len(z) \in Nat
  OBVIOUS
<1>2. Upto(0)
  <2> DEFINE h == [i \in 0 .. 0 |-> q]
  <2>1. h \in [0 .. 0 -> Parser] /\ h[0] = q /\ \A i \in 1 .. 0 : h[i] = Parse(h[i - 1], z[i])
    OBVIOUS
  <2> HIDE DEF h
  <2> QED
    BY <2>1
<1>3. ASSUME NEW n \in 1 .. Len(z), Upto(n - 1)
      PROVE  Upto(n)
  <2>1. PICK h \in [0 .. n - 1 -> Parser] :
          h[0] = q /\ \A i \in 1 .. n - 1 : h[i] = Parse(h[i - 1], z[i])
    BY <1>3
  <2> DEFINE g == [i \in 0 .. n |-> IF i = n THEN Parse(h[n - 1], z[n]) ELSE h[i]]
  <2>2. h[n - 1] \in Parser /\ z[n] \in Byte
    BY <1>1
  <2>3. Parse(h[n - 1], z[n]) \in Parser
    BY <2>2, ParseTyped
  <2>4. g \in [0 .. n -> Parser]
    BY <1>1, <2>3
  <2>5. g[0] = q
    BY <1>1, <2>1
  <2>6. ASSUME NEW i \in 1 .. n
        PROVE  g[i] = Parse(g[i - 1], z[i])
    <3>1. g[i - 1] = h[i - 1]
      BY <1>1
    <3>2. CASE i = n
      <4>1. g[i] = Parse(h[n - 1], z[n])
        BY <3>2
      <4> HIDE DEF g
      <4> QED
        BY <3>1, <3>2, <4>1
    <3>3. CASE i # n
      <4>1. g[i] = h[i] /\ i \in 1 .. n - 1
        BY <1>1, <3>3
      <4> HIDE DEF g
      <4> QED
        BY <2>1, <3>1, <4>1
    <3> QED
      BY <3>2, <3>3
  <2> HIDE DEF g
  <2> QED
    BY <2>4, <2>5, <2>6
<1> HIDE DEF Upto
<1>4. T = {}
  <2>1. SUFFICES ASSUME T # {} PROVE FALSE
    OBVIOUS
  <2>2. T \in SUBSET Nat
    BY <1>1
  <2>3. PICK n \in T : \A m \in T : n <= m
    BY <2>1, <2>2, LeastNatural
  <2>4. n \in 0 .. Len(z) /\ ~Upto(n)
    BY <2>3
  <2>5. n # 0
    BY <1>2, <2>4
  <2>6. n - 1 \in 0 .. Len(z) /\ n \in 1 .. Len(z) /\ ~(n <= n - 1)
    BY <1>1, <2>4, <2>5
  <2>7. Upto(n - 1)
    BY <2>3, <2>6
  <2> QED
    BY <1>3, <2>4, <2>6, <2>7
<1>5. Upto(Len(z))
  BY <1>1, <1>4
<1> QED
  BY <1>5 DEF Upto, Run

LEMMA RunUnique ==
  ASSUME NEW q, NEW z \in Seq(Byte), NEW h, NEW g, Run(h, q, z), Run(g, q, z)
  PROVE  h = g
<1> DEFINE T == {n \in 0 .. Len(z) : h[n] # g[n]}
<1>1. Len(z) \in Nat /\ h[0] = g[0]
  BY DEF Run
<1>2. T = {}
  <2>1. SUFFICES ASSUME T # {} PROVE FALSE
    OBVIOUS
  <2>2. T \in SUBSET Nat
    BY <1>1
  <2>3. PICK n \in T : \A m \in T : n <= m
    BY <2>1, <2>2, LeastNatural
  <2>4. n \in 1 .. Len(z) /\ n - 1 \in 0 .. Len(z) /\ ~(n <= n - 1) /\ h[n] # g[n]
    BY <1>1, <2>3
  <2>5. h[n - 1] = g[n - 1]
    BY <2>3, <2>4
  <2>6. h[n] = Parse(h[n - 1], z[n]) /\ g[n] = Parse(g[n - 1], z[n])
    BY <2>4 DEF Run
  <2> QED
    BY <2>4, <2>5, <2>6
<1>3. \A n \in 0 .. Len(z) : h[n] = g[n]
  BY <1>2
<1> QED
  BY <1>3 DEF Run

LEMMA AfterRun ==
  ASSUME NEW q, NEW z \in Seq(Byte), NEW h, Run(h, q, z)
  PROVE  After(q, z) = h[Len(z)]
<1>1. \A e : (\E g : Run(g, q, z) /\ e = g[Len(z)]) <=> e = h[Len(z)]
  BY RunUnique
<1> QED
  BY <1>1 DEF After

LEMMA AfterNone ==
  ASSUME NEW q \in Parser
  PROVE  After(q, <<>>) = q
<1> DEFINE h == [i \in 0 .. 0 |-> q]
<1>1. <<>> \in Seq(Byte) /\ Len(<<>>) = 0
  OBVIOUS
<1>2. Run(h, q, <<>>)
  BY <1>1 DEF Run
<1>3. h[0] = q
  OBVIOUS
<1> HIDE DEF h
<1> QED
  BY <1>1, <1>2, <1>3, AfterRun

LEMMA AfterTyped ==
  ASSUME NEW q \in Parser, NEW z \in Seq(Byte)
  PROVE  After(q, z) \in Parser
<1>1. PICK h : Run(h, q, z)
  BY RunExists
<1>2. h[Len(z)] \in Parser
  BY <1>1 DEF Run
<1> QED
  BY <1>1, <1>2, AfterRun

LEMMA AfterOne ==
  ASSUME NEW q \in Parser, NEW x \in Byte
  PROVE  After(q, <<x>>) = Parse(q, x)
<1> DEFINE z == <<x>>
           h == [i \in 0 .. 1 |-> IF i = 0 THEN q ELSE Parse(q, x)]
<1>1. z \in Seq(Byte) /\ Len(z) = 1 /\ z[1] = x
  OBVIOUS
<1>2. h \in [0 .. 1 -> Parser] /\ h[0] = q /\ h[1] = Parse(q, x)
  BY ParseTyped
<1> HIDE DEF z, h
<1>3. \A i \in 1 .. 1 : i = 1 /\ i - 1 = 0
  OBVIOUS
<1>4. Run(h, q, z)
  BY <1>1, <1>2, <1>3 DEF Run
<1> QED
  BY <1>1, <1>2, <1>4, AfterRun DEF z

\* Bytes are parsed one part after the other.
LEMMA AfterBoth ==
  ASSUME NEW q \in Parser, NEW y \in Seq(Byte), NEW z \in Seq(Byte)
  PROVE  After(q, y \o z) = After(After(q, y), z)
<1>1. PICK h : Run(h, q, y \o z)
  <2>1. y \o z \in Seq(Byte)
    BY ConcatProperties
  <2> QED
    BY <2>1, RunExists
<1> DEFINE m == Len(y)
           n == Len(z)
           c == y \o z
<1>2. /\ m \in Nat /\ n \in Nat /\ c \in Seq(Byte) /\ Len(c) = m + n
      /\ \A i \in 1 .. m + n : c[i] = IF i <= m THEN y[i] ELSE z[i - m]
  BY ConcatProperties
<1> HIDE DEF c
<1>3. /\ h \in [0 .. m + n -> Parser] /\ h[0] = q
      /\ \A i \in 1 .. m + n : h[i] = Parse(h[i - 1], c[i])
  BY <1>1, <1>2 DEF Run, c
<1> HIDE DEF m, n
<1> DEFINE f == [i \in 0 .. m |-> h[i]]
           g == [i \in 0 .. n |-> h[m + i]]
<1>4. Run(f, q, y)
  <2>1. f \in [0 .. m -> Parser] /\ f[0] = q
    BY <1>2, <1>3
  <2>2. ASSUME NEW i \in 1 .. m
        PROVE  f[i] = Parse(f[i - 1], y[i])
    <3>1. i \in 1 .. m + n /\ i - 1 \in 0 .. m /\ i \in 0 .. m /\ c[i] = y[i]
      BY <1>2
    <3> QED
      BY <1>3, <3>1
  <2> HIDE DEF f
  <2> QED
    BY <2>1, <2>2 DEF Run, m
<1>5. After(q, y) = h[m]
  <2>1. After(q, y) = f[m] /\ f[m] = h[m]
    BY <1>2, <1>4, AfterRun DEF m
  <2> QED
    BY <2>1
<1>6. Run(g, h[m], z)
  <2>1. g \in [0 .. n -> Parser] /\ g[0] = h[m]
    BY <1>2, <1>3
  <2>2. ASSUME NEW i \in 1 .. n
        PROVE  g[i] = Parse(g[i - 1], z[i])
    <3>1. /\ m + i \in 1 .. m + n /\ i - 1 \in 0 .. n /\ i \in 0 .. n
          /\ m + (i - 1) = (m + i) - 1 /\ (m + i) - m = i /\ ~(m + i <= m)
      BY <1>2
    <3>2. c[m + i] = z[i]
      BY <1>2, <3>1
    <3>3. h[m + i] = Parse(h[(m + i) - 1], z[i])
      BY <1>3, <3>1, <3>2
    <3> QED
      BY <3>1, <3>3
  <2> HIDE DEF g
  <2> QED
    BY <2>1, <2>2 DEF Run, n
<1>7. After(h[m], z) = h[m + n]
  <2>1. After(h[m], z) = g[n] /\ g[n] = h[m + n]
    BY <1>2, <1>6, AfterRun DEF n
  <2> QED
    BY <2>1
<1>8. After(q, c) = h[m + n]
  BY <1>1, <1>2, AfterRun DEF c
<1> QED
  BY <1>5, <1>7, <1>8 DEF c

-----------------------------------------------------------------------------
(* What was parsed before stays in front of what comes.                    *)

LEMMA TokensJoin ==
  \A s, t, u \in Seq(Token) : (s \o t) \o u = s \o (t \o u)
  BY Associates

LEMMA BytesJoin ==
  \A s, t, u \in Seq(Byte) : (s \o t) \o u = s \o (t \o u)
  BY Associates

\* The tokens p were parsed before.
Pre(p, q) == [q EXCEPT !.toks = p \o @]

LEMMA PreTyped ==
  ASSUME NEW p \in Seq(Token), NEW q \in Parser
  PROVE  /\ Pre(p, q) \in Parser /\ Pre(p, q).fb = q.fb /\ Pre(p, q).seen = q.seen
         /\ Pre(p, q).end = q.end /\ Pre(p, q).toks = p \o q.toks
<1>1. q.toks \in Seq(Token)
  BY DEF Parser, Token
<1> DEFINE t == p \o q.toks
<1>2. t \in Seq(Token)
  BY <1>1, ConcatProperties
<1>3. Pre(p, q) = [q EXCEPT !.toks = t]
  BY DEF Pre
<1> HIDE DEF t
<1>4. /\ Pre(p, q) \in Parser /\ Pre(p, q).fb = q.fb /\ Pre(p, q).seen = q.seen
      /\ Pre(p, q).end = q.end /\ Pre(p, q).toks = t
  BY <1>2, <1>3 DEF Parser, Token
<1> QED
  BY <1>4 DEF t

\* Two states of the parser are the same when their fields are.
LEMMA SameState ==
  ASSUME NEW p \in Parser, NEW q \in Parser,
         p.toks = q.toks, p.fb = q.fb, p.seen = q.seen, p.end = q.end
  PROVE  p = q
  BY DEF Parser

LEMMA ClosedPre ==
  ASSUME NEW p \in Seq(Token), NEW q \in Parser
  PROVE  Closed(Pre(p, q)) = Pre(p, Closed(q))
<1> DEFINE a == Pre(p, q)
           t == p \o (q.toks \o q.end)
<1>1. /\ a \in Parser /\ a.fb = q.fb /\ a.seen = q.seen /\ a.end = q.end
      /\ a.toks = p \o q.toks
  BY PreTyped
<1>2. q.toks \in Seq(Token) /\ q.end \in Seq(Token)
  <2>1. <<>> \in Seq(Token) /\ <<EOR>> \in Seq(Token)
    BY DEF Token
  <2>2. q.toks \in Seq(Int \cup {EOR}) /\ q.end \in {<<>>, <<EOR>>}
    BY DEF Parser
  <2> QED
    BY <2>1, <2>2 DEF Token
<1>3. a.toks \o a.end = t
  <2>1. (p \o q.toks) \o q.end = p \o (q.toks \o q.end)
    BY <1>2, TokensJoin
  <2> QED
    BY <1>1, <2>1, Zenon
<1> HIDE DEF a, t
<1>4. CASE q.fb = 0
  <2>1. Closed(a) = [a EXCEPT !.toks = t, !.end = <<>>]
    BY <1>1, <1>3, <1>4 DEF Closed
  <2> DEFINE u == q.toks \o q.end
  <2>2. Closed(q) = [q EXCEPT !.toks = u, !.end = <<>>]
    BY <1>4 DEF Closed
  <2>3. t = p \o u /\ a = [q EXCEPT !.toks = p \o q.toks]
    BY DEF a, t, Pre
  <2> HIDE DEF u
  <2>4. Closed(q).toks = u
    BY <2>2 DEF Parser
  <2>5. Pre(p, Closed(q)) = [Closed(q) EXCEPT !.toks = t]
    BY <2>3, <2>4 DEF Pre
  <2>6. [Closed(q) EXCEPT !.toks = t] = [q EXCEPT !.toks = t, !.end = <<>>]
    BY <2>2 DEF Parser
  <2> DEFINE v == p \o q.toks
  <2>7. a = [q EXCEPT !.toks = v]
    BY <2>3
  <2> HIDE DEF v
  <2>8. [a EXCEPT !.toks = t, !.end = <<>>] = [q EXCEPT !.toks = t, !.end = <<>>]
    BY <2>7 DEF Parser
  <2> QED
    BY <2>1, <2>5, <2>6, <2>8 DEF a
<1>5. CASE q.fb # 0
  BY <1>1, <1>5 DEF Closed, a
<1> QED
  BY <1>4, <1>5

LEMMA FragmentPre ==
  ASSUME NEW p \in Seq(Token), NEW toks \in Seq(Token), NEW len \in Nat, NEW last \in BOOLEAN
  PROVE  Fragment(p \o toks, len, last) = Pre(p, Fragment(toks, len, last))
<1> DEFINE e == IF last THEN <<EOR>> ELSE <<>>
           a == [toks |-> toks, fb |-> len, seen |-> 0, end |-> e]
           t == p \o toks
           b == [toks |-> t, fb |-> len, seen |-> 0, end |-> e]
<1>1. e \in {<<>>, <<EOR>>}
  OBVIOUS
<1>2. Fragment(toks, len, last) = Closed(a) /\ Fragment(t, len, last) = Closed(b)
  BY DEF Fragment
<1> HIDE DEF e
<1>3. a \in Parser
  BY <1>1 DEF Parser, Token
<1>4. Pre(p, a) = b
  <2>1. Pre(p, a) = [a EXCEPT !.toks = t]
    BY DEF Pre
  <2> HIDE DEF t
  <2> QED
    BY <2>1
<1> HIDE DEF a, b
<1>5. Closed(b) = Pre(p, Closed(a))
  BY <1>3, <1>4, ClosedPre
<1> QED
  BY <1>2, <1>5

LEMMA ParsePre ==
  ASSUME NEW p \in Seq(Token), NEW q \in Parser, NEW x \in Byte
  PROVE  Parse(Pre(p, q), x) = Pre(p, Parse(q, x))
<1> DEFINE a == Pre(p, q)
<1>1. /\ a \in Parser /\ a.fb = q.fb /\ a.seen = q.seen /\ a.end = q.end
      /\ a.toks = p \o q.toks
  BY PreTyped
<1>2. q.toks \in Seq(Token) /\ x[2] \in Nat /\ x[3] \in BOOLEAN
  BY DEF Parser, Token, Byte
<1> DEFINE u == p \o q.toks
<1>3. a = [q EXCEPT !.toks = u]
  BY DEF Pre
<1> HIDE DEF a
<1>4. CASE q.fb > 0
  <2> DEFINE v == IF x[1] = 0 THEN x[2] ELSE -1
             t == Append(q.toks, v)
             c == [q EXCEPT !.fb = q.fb - 1, !.toks = t]
             w == p \o t
             d == [a EXCEPT !.fb = a.fb - 1, !.toks = Append(a.toks, v)]
  <2>1. v \in Token
    BY <1>2 DEF Token
  <2>2. Parse(q, x) = Closed(c) /\ Parse(a, x) = Closed(d)
    BY <1>1, <1>4 DEF Parse
  <2> HIDE DEF v
  <2>3. Append(a.toks, v) = w /\ t \in Seq(Token)
    <3>1. <<v>> \in Seq(Token)
      BY <2>1
    <3>2. t = q.toks \o <<v>> /\ t \in Seq(Token)
      BY <1>2, <2>1, AppendIsConcat, AppendProperties
    <3>3. u \in Seq(Token)
      BY <1>2, ConcatProperties
    <3>4. Append(a.toks, v) = u \o <<v>>
      <4> HIDE DEF u
      <4>1. Append(u, v) = u \o <<v>>
        BY <2>1, <3>3, AppendIsConcat
      <4>2. a.toks = u
        BY <1>1 DEF u
      <4> QED
        BY <4>1, <4>2
    <3>5. u \o <<v>> = p \o (q.toks \o <<v>>)
      <4>1. q.toks \in Seq(Token)
        BY <1>2
      <4> HIDE DEF v
      <4>2. (p \o q.toks) \o <<v>> = p \o (q.toks \o <<v>>)
        BY <3>1, <4>1, TokensJoin
      <4> QED
        BY <4>2, Zenon
    <3> HIDE DEF u, t
    <3> QED
      BY <3>2, <3>4, <3>5
  <2>4. q.fb - 1 \in Nat
    BY <1>4 DEF Parser
  <2>5. Append(a.toks, v) = w
    BY <2>3
  <2> HIDE DEF t, u
  <2>6. c \in Parser /\ c.toks = t
    BY <2>3, <2>4 DEF Parser, Token
  <2>7. Pre(p, c) = [c EXCEPT !.toks = w]
    BY <2>6 DEF Pre
  <2>8. d = [a EXCEPT !.fb = q.fb - 1, !.toks = w]
    BY <1>1, <2>5
  <2> HIDE DEF w
  <2>9. [c EXCEPT !.toks = w] = [a EXCEPT !.fb = q.fb - 1, !.toks = w]
    BY <1>3, <2>6 DEF Parser
  <2> HIDE DEF c, d
  <2>10. Pre(p, Closed(c)) = Closed(d)
    BY <2>6, <2>7, <2>8, <2>9, ClosedPre
  <2> QED
    BY <2>2, <2>10 DEF a
<1>5. CASE ~(q.fb > 0) /\ q.seen + 1 < Word
  <2>1. Parse(q, x) = [q EXCEPT !.seen = q.seen + 1]
    BY <1>5 DEF Parse
  <2>2. Parse(a, x) = [a EXCEPT !.seen = q.seen + 1]
    BY <1>1, <1>5 DEF Parse
  <2>3. Parse(q, x).toks = q.toks
    BY <2>1 DEF Parser
  <2>4. Pre(p, Parse(q, x)) = [Parse(q, x) EXCEPT !.toks = u]
    BY <2>3 DEF Pre
  <2> HIDE DEF u
  <2>5. [Parse(q, x) EXCEPT !.toks = u] = [a EXCEPT !.seen = q.seen + 1]
    BY <1>3, <2>1 DEF Parser
  <2> QED
    BY <2>2, <2>4, <2>5 DEF a
<1>6. CASE ~(q.fb > 0) /\ ~(q.seen + 1 < Word)
  <2>1. Parse(q, x) = Fragment(q.toks, x[2], x[3])
    BY <1>6 DEF Parse
  <2>2. Parse(a, x) = Fragment(a.toks, x[2], x[3])
    BY <1>1, <1>6 DEF Parse
  <2>3. Parse(a, x) = Fragment(p \o q.toks, x[2], x[3])
    BY <1>1, <2>2
  <2> QED
    BY <1>2, <2>1, <2>3, FragmentPre DEF a
<1> QED
  BY <1>4, <1>5, <1>6

\* What was parsed before does not matter to what follows.
LEMMA AfterPre ==
  ASSUME NEW p \in Seq(Token), NEW q \in Parser, NEW z \in Seq(Byte)
  PROVE  After(Pre(p, q), z) = Pre(p, After(q, z))
<1>1. PICK h : Run(h, q, z)
  BY RunExists
<1> DEFINE n == Len(z)
           g == [i \in 0 .. n |-> Pre(p, h[i])]
<1>2. n \in Nat /\ \A i \in 1 .. n : z[i] \in Byte
  OBVIOUS
<1>3. h \in [0 .. n -> Parser] /\ h[0] = q /\ \A i \in 1 .. n : h[i] = Parse(h[i - 1], z[i])
  BY <1>1 DEF Run
<1> HIDE DEF n
<1>4. \A i \in 0 .. n : Pre(p, h[i]) \in Parser
  BY <1>3, PreTyped
<1>5. g \in [0 .. n -> Parser] /\ g[0] = Pre(p, q)
  BY <1>2, <1>3, <1>4
<1>6. ASSUME NEW i \in 1 .. n
      PROVE  g[i] = Parse(g[i - 1], z[i])
  <2>1. i \in 0 .. n /\ i - 1 \in 0 .. n
    BY <1>2
  <2>2. g[i] = Pre(p, h[i]) /\ g[i - 1] = Pre(p, h[i - 1])
    BY <2>1
  <2> HIDE DEF g
  <2>3. h[i - 1] \in Parser /\ h[i] = Parse(h[i - 1], z[i]) /\ z[i] \in Byte
    BY <1>2, <1>3, <2>1
  <2> QED
    BY <2>2, <2>3, ParsePre
<1>7. g[n] = Pre(p, h[n])
  BY <1>2
<1> HIDE DEF g
<1>8. Run(g, Pre(p, q), z)
  BY <1>5, <1>6 DEF Run, n
<1>9. After(q, z) = h[n] /\ After(Pre(p, q), z) = g[n]
  BY <1>1, <1>8, AfterRun DEF n
<1> QED
  BY <1>7, <1>9

-----------------------------------------------------------------------------
(* The parser in the data of a fragment, and in a header.                  *)

\* What the data bytes of a fragment say.
Vals(z) == [i \in 1 .. Len(z) |-> IF z[i][1] = 0 THEN z[i][2] ELSE -1]

LEMMA ValsTyped ==
  ASSUME NEW z \in Seq(Byte)
  PROVE  Vals(z) \in Seq(Int) /\ Vals(z) \in Seq(Token) /\ Len(Vals(z)) = Len(z)
<1>1. Len(z) \in Nat /\ \A i \in 1 .. Len(z) : z[i] \in Byte
  OBVIOUS
<1>2. \A i \in 1 .. Len(z) : (IF z[i][1] = 0 THEN z[i][2] ELSE -1) \in Int
  BY <1>1 DEF Byte
<1>3. Vals(z) \in [1 .. Len(z) -> Int] /\ Vals(z) \in [1 .. Len(z) -> Token]
  BY <1>2 DEF Vals, Token
<1> QED
  BY <1>1, <1>3, FunctionIsSeq

\* q after n of the data bytes that say v.
Parsing(q, v, n) == [q EXCEPT !.fb = @ - n, !.toks = @ \o SubSeq(v, 1, n)]

LEMMA ParsingTyped ==
  ASSUME NEW q \in Parser, NEW v \in Seq(Int), NEW n \in 0 .. Len(v), n <= q.fb
  PROVE  /\ Parsing(q, v, n) \in Parser
         /\ Parsing(q, v, n).fb = q.fb - n /\ Parsing(q, v, n).seen = q.seen
         /\ Parsing(q, v, n).end = q.end
         /\ Parsing(q, v, n).toks = q.toks \o SubSeq(v, 1, n)
<1>1. q.toks \in Seq(Token) /\ q.fb - n \in Nat /\ Len(v) \in Nat
  BY DEF Parser, Token
<1>2. \A i \in 1 .. n : v[i] \in Token
  BY <1>1 DEF Token
<1>3. SubSeq(v, 1, n) \in Seq(Token)
  BY <1>1, <1>2, SubSeqProperties
<1> DEFINE t == q.toks \o SubSeq(v, 1, n)
<1>4. t \in Seq(Token)
  BY <1>1, <1>3, ConcatProperties
<1>5. Parsing(q, v, n) = [q EXCEPT !.fb = q.fb - n, !.toks = t]
  BY DEF Parsing
<1> HIDE DEF t
<1>6. /\ Parsing(q, v, n) \in Parser /\ Parsing(q, v, n).toks = t
      /\ Parsing(q, v, n).fb = q.fb - n /\ Parsing(q, v, n).seen = q.seen
      /\ Parsing(q, v, n).end = q.end
  BY <1>1, <1>4, <1>5 DEF Parser, Token
<1> QED
  BY <1>6 DEF t

\* One data byte more.
LEMMA ParsingOne ==
  ASSUME NEW q \in Parser, NEW z \in Seq(Byte), NEW i \in 1 .. Len(z), i <= q.fb
  PROVE  Parse(Closed(Parsing(q, Vals(z), i - 1)), z[i]) = Closed(Parsing(q, Vals(z), i))
<1> DEFINE v == Vals(z)
           a == Parsing(q, v, i - 1)
<1>1. /\ v \in Seq(Int) /\ v \in Seq(Token) /\ Len(v) = Len(z) /\ Len(z) \in Nat
      /\ q.fb \in Nat
  BY ValsTyped DEF Parser
<1>2. v[i] = IF z[i][1] = 0 THEN z[i][2] ELSE -1
  BY DEF Vals
<1> HIDE DEF v
<1>3. /\ a \in Parser /\ a.fb = q.fb - (i - 1) /\ a.toks = q.toks \o SubSeq(v, 1, i - 1)
  <2>1. i - 1 \in 0 .. Len(v) /\ i - 1 <= q.fb
    BY <1>1
  <2> QED
    BY <1>1, <2>1, ParsingTyped
<1>4. a.fb > 0 /\ a.fb - 1 = q.fb - i
  BY <1>1, <1>3
<1>5. Closed(a) = a
  BY <1>4 DEF Closed
<1> DEFINE w == Append(a.toks, v[i])
           t == q.toks \o SubSeq(v, 1, i)
<1>6. w = t
  <2> DEFINE f == SubSeq(v, 1, i - 1)
             l == <<v[i]>>
  <2>1. f \in Seq(Token) /\ l \in Seq(Token) /\ v[i] \in Token
    <3>1. \A k \in 1 .. i - 1 : v[k] \in Token
      BY <1>1
    <3>2. v[i] \in Token
      BY <1>1
    <3> QED
      BY <1>1, <3>1, <3>2, SubSeqProperties
  <2>2. SubSeq(v, 1, i) = f \o l
    <3>1. 1 \in 1 .. Len(v) /\ i \in 1 .. Len(v)
      BY <1>1
    <3> QED
      BY <1>1, <3>1, SubSeqRecursiveSecond
  <2>3. q.toks \in Seq(Token)
    BY DEF Parser, Token
  <2> HIDE DEF f, l
  <2>4. (q.toks \o f) \o l = q.toks \o (f \o l)
    BY <2>1, <2>3, TokensJoin
  <2>5. w = (q.toks \o f) \o l
    <3>1. q.toks \o f \in Seq(Token)
      BY <2>1, <2>3, ConcatProperties
    <3>2. Append(q.toks \o f, v[i]) = (q.toks \o f) \o <<v[i]>>
      BY <2>1, <3>1, AppendIsConcat
    <3> QED
      BY <1>3, <3>2 DEF f, l
  <2> QED
    BY <2>2, <2>4, <2>5, Zenon
<1>7. Parse(a, z[i]) = Closed([a EXCEPT !.fb = a.fb - 1, !.toks = w])
  BY <1>2, <1>4 DEF Parse
<1> DEFINE u == q.toks \o SubSeq(v, 1, i - 1)
<1>8. a = [q EXCEPT !.fb = q.fb - (i - 1), !.toks = u]
  BY DEF Parsing
<1>9. Parsing(q, v, i) = [q EXCEPT !.fb = q.fb - i, !.toks = t]
  BY DEF Parsing
<1> HIDE DEF a, w, t, u
<1>10. [a EXCEPT !.fb = a.fb - 1, !.toks = w] = [q EXCEPT !.fb = q.fb - i, !.toks = t]
  BY <1>4, <1>6, <1>8 DEF Parser
<1> QED
  BY <1>5, <1>7, <1>9, <1>10 DEF a, v

\* Data bytes that do not reach beyond the fragment.
LEMMA AfterData ==
  ASSUME NEW q \in Parser, q.fb = 0 => q.end = <<>>, NEW z \in Seq(Byte), Len(z) <= q.fb
  PROVE  After(q, z) = Closed(Parsing(q, Vals(z), Len(z)))
<1> DEFINE n == Len(z)
           v == Vals(z)
           h == [i \in 0 .. n |-> Closed(Parsing(q, v, i))]
<1>1. /\ n \in Nat /\ v \in Seq(Int) /\ Len(v) = n /\ q.fb \in Nat
      /\ q.toks \in Seq(Token)
  BY ValsTyped DEF Parser, Token
<1> HIDE DEF n, v
<1>2. \A i \in 0 .. n : Closed(Parsing(q, v, i)) \in Parser
  <2> TAKE i \in 0 .. n
  <2>1. i \in 0 .. Len(v) /\ i <= q.fb
    BY <1>1 DEF n
  <2>2. Parsing(q, v, i) \in Parser
    BY <1>1, <2>1, ParsingTyped
  <2> QED
    BY <2>2, ClosedTyped
<1>3. Closed(Parsing(q, v, 0)) = q
  <2>1. SubSeq(v, 1, 0) = <<>>
    BY SubSeqEmpty
  <2>2. q.toks \o <<>> = q.toks
    BY <1>1, ConcatEmptySeq
  <2>3. Parsing(q, v, 0) = [q EXCEPT !.fb = q.fb - 0, !.toks = q.toks \o <<>>]
    BY <2>1 DEF Parsing
  <2>4. q.fb - 0 = q.fb
    BY <1>1
  <2>5. Parsing(q, v, 0) = [q EXCEPT !.fb = q.fb, !.toks = q.toks]
    BY <2>2, <2>3, <2>4, Zenon
  <2>6. Parsing(q, v, 0) = q
    BY <2>5 DEF Parser
  <2>7. CASE q.fb = 0
    <3>1. Closed(q) = [q EXCEPT !.toks = q.toks \o <<>>, !.end = <<>>] /\ q.end = <<>>
      BY <2>7 DEF Closed
    <3>2. Closed(q) = [q EXCEPT !.toks = q.toks, !.end = q.end]
      BY <2>2, <3>1, Zenon
    <3> QED
      BY <2>6, <3>2 DEF Parser
  <2>8. CASE q.fb # 0
    BY <2>6, <2>8 DEF Closed
  <2> QED
    BY <2>7, <2>8
<1>4. h \in [0 .. n -> Parser] /\ h[0] = q
  BY <1>1, <1>2, <1>3
<1>5. ASSUME NEW i \in 1 .. n
      PROVE  h[i] = Parse(h[i - 1], z[i])
  <2>1. i \in 0 .. n /\ i - 1 \in 0 .. n /\ i \in 1 .. Len(z) /\ i <= q.fb
    BY <1>1 DEF n
  <2>2. Parse(Closed(Parsing(q, v, i - 1)), z[i]) = Closed(Parsing(q, v, i))
    BY <2>1, ParsingOne DEF v
  <2> QED
    BY <2>1, <2>2
<1>6. h[n] = Closed(Parsing(q, v, n))
  BY <1>1
<1> HIDE DEF h
<1>7. Run(h, q, z)
  BY <1>4, <1>5 DEF Run, n
<1>8. After(q, z) = h[n]
  BY <1>7, AfterRun DEF n
<1> QED
  BY <1>6, <1>8 DEF n, v

\* A part of a header, and a header.
LEMMA AfterPart ==
  ASSUME NEW q \in Parser, q.fb = 0, q.seen = 0, NEW z \in Seq(Byte), Len(z) < Word
  PROVE  After(q, z) = [q EXCEPT !.seen = Len(z)]
<1> DEFINE n == Len(z)
           h == [i \in 0 .. n |-> [q EXCEPT !.seen = i]]
<1>1. n \in Nat /\ Word \in Nat /\ n < Word
  BY WordFacts
<1> HIDE DEF n
<1>2. h \in [0 .. n -> Parser] /\ h[0] = q
  BY <1>1 DEF Parser
<1>3. ASSUME NEW i \in 1 .. n
      PROVE  h[i] = Parse(h[i - 1], z[i])
  <2>1. h[i] = [q EXCEPT !.seen = i] /\ h[i - 1] = [q EXCEPT !.seen = i - 1]
    BY <1>1
  <2> HIDE DEF h
  <2>2. h[i - 1].fb = 0 /\ h[i - 1].seen = i - 1 /\ i - 1 + 1 = i /\ i < Word
    BY <1>1, <2>1 DEF Parser
  <2>3. Parse(h[i - 1], z[i]) = [h[i - 1] EXCEPT !.seen = i]
    BY <2>2 DEF Parse
  <2> QED
    BY <2>1, <2>3 DEF Parser
<1>4. h[n] = [q EXCEPT !.seen = n]
  BY <1>1
<1> HIDE DEF h
<1>5. Run(h, q, z)
  BY <1>2, <1>3 DEF Run, n
<1>6. After(q, z) = h[n]
  BY <1>5, AfterRun DEF n
<1> QED
  BY <1>4, <1>6 DEF n

LEMMA AfterWord ==
  ASSUME NEW q \in Parser, q.fb = 0, q.seen = 0, NEW z \in Seq(Byte), Len(z) = Word
  PROVE  After(q, z) = Fragment(q.toks, z[Word][2], z[Word][3])
<1> DEFINE m == Word - 1
<1>1. Word \in Nat \ {0} /\ m \in 0 .. Len(z) /\ m \in Nat /\ m + 1 = Word
  BY WordFacts
<1> HIDE DEF m
<1> DEFINE y == SubSeq(z, 1, m)
           l == From(z, m)
           x == z[Word]
<1>2. /\ y \in Seq(Byte) /\ Len(y) = m /\ l \in Seq(Byte) /\ Len(l) = Len(z) - m
      /\ \A i \in 1 .. Len(z) - m : l[i] = z[i + m]
  <2>1. y \in Seq(Byte) /\ Len(y) = m
    BY <1>1, FrontAndRest
  <2>2. l \in Seq(Byte) /\ Len(l) = Len(z) - m
    BY <1>1, FrontAndRest
  <2>3. \A i \in 1 .. Len(z) - m : l[i] = z[i + m]
    BY <1>1, FrontAndRest, ZenonT(60)
  <2> QED
    BY <2>1, <2>2, <2>3
<1>3. z = y \o l
  BY <1>1, Cut
<1>4. x \in Byte
  BY <1>1
<1> HIDE DEF y
<1>5. l = <<x>>
  <2>1. Len(z) - m = 1 /\ 1 + m = Word
    BY <1>1
  <2>2. Len(l) = 1 /\ l[1] = x
    BY <1>2, <2>1
  <2>3. Len(<<x>>) = 1 /\ <<x>>[1] = x /\ <<x>> \in Seq(Byte)
    BY <1>4
  <2>4. \A i \in 1 .. 1 : i = 1
    OBVIOUS
  <2> HIDE DEF l, x
  <2> QED
    BY <1>2, <2>2, <2>3, <2>4, SeqEqual
<1> HIDE DEF l, x
<1>6. After(q, z) = Parse(After(q, y), x)
  BY <1>2, <1>3, <1>4, <1>5, AfterBoth, AfterOne, AfterTyped, ZenonT(60)
<1>7. After(q, y) = [q EXCEPT !.seen = m]
  <2>1. Len(y) < Word
    BY <1>1, <1>2
  <2> QED
    BY <1>2, <2>1, AfterPart
<1> DEFINE a == After(q, y)
<1>8. a.fb = 0 /\ a.toks = q.toks /\ a.seen = m
  BY <1>1, <1>7 DEF Parser
<1> HIDE DEF a
<1>9. Parse(a, x) = Fragment(q.toks, x[2], x[3])
  BY <1>1, <1>8 DEF Parse
<1> QED
  BY <1>6, <1>9 DEF a, x

-----------------------------------------------------------------------------
(* The recursive definition finds what the runs find.                      *)

\* The recursive function that parses is defined by its equation.
LEMMA ParsedEquation ==
  ASSUME NEW z \in Seq(Byte)
  PROVE  Parsed(z) = [x \in (Nat \ {0}) \X Parser |->
           IF x[1] > Len(z) THEN x[2]
           ELSE Parsed(z)[<<x[1] + 1, Parse(x[2], z[x[1]])>>]]
<1> DEFINE D == (Nat \ {0}) \X Parser
           f == [x \in D |-> IF x[1] > Len(z) THEN x[2]
                             ELSE After(x[2], From(z, x[1] - 1))]
<1>1. ASSUME NEW x \in D
      PROVE  f[x] = IF x[1] > Len(z) THEN x[2]
                    ELSE f[<<x[1] + 1, Parse(x[2], z[x[1]])>>]
  <2> DEFINE i == x[1]
             a == x[2]
             n == Len(z)
  <2>1. i \in Nat \ {0} /\ a \in Parser /\ n \in Nat
    OBVIOUS
  <2>2. CASE i > n
    BY <2>2
  <2>3. CASE ~(i > n)
    <3> DEFINE y == z[i]
               e == Parse(a, y)
               j == <<i + 1, e>>
    <3>1. i \in 1 .. n /\ y \in Byte
      BY <2>1, <2>3
    <3>2. e \in Parser
      BY <2>1, <3>1, ParseTyped
    <3> HIDE DEF e
    <3>3. j \in D /\ j[1] = i + 1 /\ j[2] = e
      BY <2>1, <3>2
    <3>4. From(z, i - 1) = <<y>> \o From(z, i) /\ From(z, i) \in Seq(Byte)
      <4>1. n \in i .. n /\ i \in 0 .. n
        BY <2>1, <3>1
      <4>2. SubSeq(z, i, n) = <<z[i]>> \o SubSeq(z, i + 1, n)
        BY <3>1, <4>1, SubSeqRecursiveFirst
      <4>3. i - 1 + 1 = i
        BY <2>1
      <4>4. From(z, i) \in Seq(Byte)
        BY <4>1, FrontAndRest
      <4> QED
        BY <4>2, <4>3, <4>4 DEF From
    <3>5. <<y>> \in Seq(Byte)
      BY <3>1
    <3>6. After(a, From(z, i - 1)) = After(After(a, <<y>>), From(z, i))
      <4> DEFINE u == <<y>>
                 v == From(z, i)
      <4>1. u \in Seq(Byte) /\ v \in Seq(Byte) /\ From(z, i - 1) = u \o v
        BY <3>4, <3>5
      <4> HIDE DEF u, v
      <4>2. After(a, u \o v) = After(After(a, u), v)
        BY <2>1, <4>1, AfterBoth
      <4>3. After(a, From(z, i - 1)) = After(After(a, u), v)
        BY <4>1, <4>2, Zenon
      <4> QED
        BY <4>3 DEF u, v
    <3>7. After(a, <<y>>) = e
      BY <2>1, <3>1, AfterOne DEF e
    <3>8. f[x] = After(e, From(z, i))
      BY <2>3, <3>6, <3>7
    <3>9. f[j] = After(e, From(z, i))
      <4>1. CASE i + 1 > n
        <5>1. i = n /\ f[j] = e
          BY <2>1, <2>3, <3>3, <4>1
        <5>2. From(z, n) = <<>>
          BY <2>1, SubSeqEmpty DEF From
        <5> QED
          BY <3>2, <5>1, <5>2, AfterNone
      <4>2. CASE ~(i + 1 > n)
        <5>1. i + 1 - 1 = i
          BY <2>1
        <5>2. f[j] = After(e, From(z, i + 1 - 1))
          BY <3>3, <4>2
        <5> QED
          BY <5>1, <5>2
      <4> QED
        BY <4>1, <4>2
    <3> QED
      BY <2>3, <3>8, <3>9 DEF e
  <2> QED
    BY <2>2, <2>3
<1> HIDE DEF f
<1>2. f = [x \in D |-> IF x[1] > Len(z) THEN x[2]
                       ELSE f[<<x[1] + 1, Parse(x[2], z[x[1]])>>]]
  <2>1. f = [x \in D |-> f[x]]
    BY DEF f
  <2> HIDE DEF D
  <2> QED
    BY <1>1, <2>1
<1> QED
  BY <1>2 DEF Parsed

LEMMA ParsedIsAfter ==
  ASSUME NEW q \in Parser, NEW z \in Seq(Byte)
  PROVE  Parsed(z)[<<1, q>>] = After(q, z)
<1> DEFINE n == Len(z)
           f == Parsed(z)
<1>1. PICK h : Run(h, q, z)
  BY RunExists
<1>2. /\ h \in [0 .. n -> Parser] /\ h[0] = q /\ n \in Nat
      /\ \A i \in 1 .. n : h[i] = Parse(h[i - 1], z[i])
  BY <1>1 DEF Run
<1>3. ASSUME NEW i \in Nat \ {0}, NEW a \in Parser
      PROVE  f[<<i, a>>] = IF i > n THEN a ELSE f[<<i + 1, Parse(a, z[i])>>]
  <2> DEFINE x == <<i, a>>
  <2>1. x \in (Nat \ {0}) \X Parser /\ x[1] = i /\ x[2] = a
    OBVIOUS
  <2> HIDE DEF x
  <2>2. f[x] = IF x[1] > n THEN x[2] ELSE f[<<x[1] + 1, Parse(x[2], z[x[1]])>>]
    BY <2>1, ParsedEquation
  <2> QED
    BY <2>1, <2>2 DEF x
<1> HIDE DEF f, n
<1> DEFINE T == {i \in 0 .. n : f[<<1, q>>] # f[<<i + 1, h[i]>>]}
<1>4. T = {}
  <2>1. SUFFICES ASSUME T # {} PROVE FALSE
    OBVIOUS
  <2>2. T \in SUBSET Nat
    BY <1>2
  <2>3. PICK i \in T : \A m \in T : i <= m
    BY <2>1, <2>2, LeastNatural
  <2>4. i \in 0 .. n /\ f[<<1, q>>] # f[<<i + 1, h[i]>>]
    BY <2>3
  <2>5. i # 0
    <3>1. 0 + 1 = 1
      OBVIOUS
    <3> QED
      BY <1>2, <2>4, <3>1
  <2>6. i - 1 \in 0 .. n /\ i \in 1 .. n /\ ~(i <= i - 1) /\ i - 1 + 1 = i /\ i \in Nat \ {0}
    BY <1>2, <2>4, <2>5
  <2>7. f[<<1, q>>] = f[<<i, h[i - 1]>>]
    <3>1. f[<<1, q>>] = f[<<i - 1 + 1, h[i - 1]>>]
      BY <2>3, <2>6
    <3> QED
      BY <2>6, <3>1
  <2>8. h[i - 1] \in Parser /\ h[i] = Parse(h[i - 1], z[i]) /\ ~(i > n)
    BY <1>2, <2>6
  <2>9. f[<<i, h[i - 1]>>] = f[<<i + 1, h[i]>>]
    BY <1>3, <2>6, <2>8
  <2> QED
    BY <2>4, <2>7, <2>9
<1>5. f[<<1, q>>] = f[<<n + 1, h[n]>>]
  <2>1. n \in 0 .. n
    BY <1>2
  <2>2. f[<<1, q>>] # f[<<n + 1, h[n]>>] => n \in T
    BY <2>1
  <2> HIDE DEF T
  <2> QED
    BY <1>4, <2>2
<1>6. n + 1 \in Nat \ {0} /\ n + 1 > n /\ h[n] \in Parser
  BY <1>2
<1>7. f[<<n + 1, h[n]>>] = h[n]
  BY <1>3, <1>6
<1>8. After(q, z) = h[n]
  BY <1>1, AfterRun DEF n
<1> QED
  BY <1>5, <1>7, <1>8 DEF f

-----------------------------------------------------------------------------
(* Bytes that are headers where headers are due, and data where data is.   *)

\* What the bytes x that the parser comes to at e must be: a header that is
\* accepted, or data.
Starts(x) ==
  \E l \in Nat, b \in BOOLEAN, w \in Seq(Byte) :
    (l > 0 \/ b = TRUE) /\ x = Header(l, b) \o w
Due(e, x) == /\ e.fb = 0 /\ e.seen = 0 => Starts(x)
             /\ e.fb > 0 => x[1][1] = 0
Ok(q, z) ==
  \A y, x \in Seq(Byte) : z = y \o x /\ x # <<>> => Due(After(q, y), x)

\* Two ways to cut bytes, and what lies between the cuts.
Joins(u, x, y, z) == u \o x = y \o z /\ Len(u) <= Len(y)
Between(u, x, y, z, t) == y = u \o t /\ x = t \o z

LEMMA BytesCut ==
  ASSUME NEW u \in Seq(Byte), NEW x \in Seq(Byte), NEW y \in Seq(Byte), NEW z \in Seq(Byte),
         Joins(u, x, y, z)
  PROVE  \E t \in Seq(Byte) : Between(u, x, y, z, t)
<1>0. u \o x = y \o z /\ Len(u) <= Len(y)
  BY DEF Joins
<1>1. Len(u) \in 0 .. Len(y) /\ Len(u) \in Nat /\ Len(y) \in Nat
  BY <1>0
<1> DEFINE v == SubSeq(y, 1, Len(u))
           t == From(y, Len(u))
<1>2. /\ v \in Seq(Byte) /\ Len(v) = Len(u) /\ t \in Seq(Byte) /\ y = v \o t
  BY <1>1, FrontAndRest, Cut
<1> HIDE DEF v, t
<1>3. (v \o t) \o z = v \o (t \o z) /\ t \o z \in Seq(Byte)
  BY <1>2, BytesJoin, ConcatProperties, SMTT(30)
<1>4. u \o x = v \o (t \o z)
  BY <1>0, <1>2, <1>3, Zenon
<1>5. u = v /\ x = t \o z
  BY <1>2, <1>3, <1>4, SameFront
<1> QED
  BY <1>2, <1>5 DEF Between

LEMMA DueMore ==
  ASSUME NEW e \in Parser, NEW t \in Seq(Byte), NEW z \in Seq(Byte), t # <<>>, Due(e, t)
  PROVE  Due(e, t \o z)
<1>1. ASSUME Starts(t)
      PROVE  Starts(t \o z)
  <2>1. PICK l \in Nat, b \in BOOLEAN, w \in Seq(Byte) :
          (l > 0 \/ b = TRUE) /\ t = Header(l, b) \o w
    BY <1>1 DEF Starts
  <2> DEFINE h == Header(l, b)
             v == w \o z
  <2>2. h \in Seq(Byte)
    BY HeaderBytes
  <2>3. v \in Seq(Byte)
    BY ConcatProperties
  <2> HIDE DEF h
  <2>4. (h \o w) \o z = h \o (w \o z)
    BY <2>2, BytesJoin
  <2>5. t \o z = h \o v
    BY <2>1, <2>4, Zenon DEF h
  <2> HIDE DEF v
  <2> QED
    BY <2>1, <2>3, <2>5 DEF Starts, h
<1>2. (t \o z)[1] = t[1]
  <2>1. Len(t) \in Nat /\ Len(t) > 0 /\ Len(z) \in Nat
    BY EmptySeq
  <2>2. \A i \in 1 .. Len(t) + Len(z) :
          (t \o z)[i] = IF i <= Len(t) THEN t[i] ELSE z[i - Len(t)]
    BY ConcatProperties
  <2>3. 1 \in 1 .. Len(t) + Len(z) /\ 1 <= Len(t)
    BY <2>1
  <2> QED
    BY <2>2, <2>3
<1> QED
  BY <1>1, <1>2 DEF Due

\* A stream is well formed when its parts are, one after the other.
LEMMA OkRest ==
  ASSUME NEW q \in Parser, NEW y \in Seq(Byte), NEW z \in Seq(Byte), Ok(q, y \o z)
  PROVE  Ok(After(q, y), z)
<1> SUFFICES ASSUME NEW u \in Seq(Byte), NEW x \in Seq(Byte), z = u \o x, x # <<>>
             PROVE  Due(After(After(q, y), u), x)
  BY DEF Ok
<1>1. (y \o u) \o x = y \o (u \o x)
  BY BytesJoin
<1>2. y \o u \in Seq(Byte)
  BY ConcatProperties
<1>3. y \o z = (y \o u) \o x
  BY <1>1, Zenon
<1> DEFINE v == y \o u
<1>4. After(q, v) = After(After(q, y), u)
  BY AfterBoth
<1>5. v \in Seq(Byte) /\ y \o z = v \o x
  BY <1>2, <1>3
<1> HIDE DEF v
<1>6. Due(After(q, v), x)
  BY <1>5, Zenon DEF Ok
<1> QED
  BY <1>4, <1>6, Zenon

LEMMA OkBoth ==
  ASSUME NEW q \in Parser, NEW y \in Seq(Byte), NEW z \in Seq(Byte),
         Ok(q, y), Ok(After(q, y), z)
  PROVE  Ok(q, y \o z)
<1> SUFFICES ASSUME NEW u \in Seq(Byte), NEW x \in Seq(Byte), y \o z = u \o x, x # <<>>
             PROVE  Due(After(q, u), x)
  BY DEF Ok
<1>1. Len(u) \in Nat /\ Len(y) \in Nat
  OBVIOUS
<1>2. CASE Len(u) < Len(y)
  <2>0. PICK t \in Seq(Byte) : Between(u, x, y, z, t)
    <3>1. Len(u) <= Len(y)
      BY <1>1, <1>2
    <3>2. Joins(u, x, y, z)
      BY <3>1, Zenon DEF Joins
    <3> QED
      BY <3>2, BytesCut
  <2>1. y = u \o t /\ x = t \o z
    BY <2>0 DEF Between
  <2>2. t # <<>>
    <3>1. ASSUME t = <<>>
          PROVE  FALSE
      <4>1. u \o <<>> = u
        BY ConcatEmptySeq
      <4>2. y = u
        BY <2>1, <3>1, <4>1, Zenon
      <4> QED
        BY <1>1, <1>2, <4>2
    <3> QED
      BY <3>1
  <2>3. Due(After(q, u), t)
    BY <2>1, <2>2, Zenon DEF Ok
  <2>4. After(q, u) \in Parser
    BY AfterTyped
  <2>5. Due(After(q, u), t \o z)
    BY <2>2, <2>3, <2>4, DueMore
  <2> QED
    BY <2>1, <2>5, Zenon
<1>3. CASE Len(y) <= Len(u)
  <2>0. PICK t \in Seq(Byte) : Between(y, z, u, x, t)
    <3>1. Joins(y, z, u, x)
      BY <1>3, Zenon DEF Joins
    <3> QED
      BY <3>1, BytesCut
  <2>1. u = y \o t /\ z = t \o x
    BY <2>0 DEF Between
  <2>2. Due(After(After(q, y), t), x)
    BY <2>1, Zenon DEF Ok
  <2>3. After(q, y \o t) = After(After(q, y), t)
    BY AfterBoth
  <2> QED
    BY <2>1, <2>2, <2>3, Zenon
<1> QED
  BY <1>1, <1>2, <1>3

LEMMA OkPre ==
  ASSUME NEW p \in Seq(Token), NEW q \in Parser, NEW z \in Seq(Byte), Ok(Pre(p, q), z)
  PROVE  Ok(q, z)
<1> SUFFICES ASSUME NEW u \in Seq(Byte), NEW x \in Seq(Byte), z = u \o x, x # <<>>
             PROVE  Due(After(q, u), x)
  BY DEF Ok
<1>1. Due(After(Pre(p, q), u), x)
  BY Zenon DEF Ok
<1>2. After(Pre(p, q), u) = Pre(p, After(q, u)) /\ After(q, u) \in Parser
  BY AfterPre, AfterTyped
<1>3. After(Pre(p, q), u).fb = After(q, u).fb /\ After(Pre(p, q), u).seen = After(q, u).seen
  BY <1>2, PreTyped
<1> QED
  BY <1>1, <1>3, Zenon DEF Due

LEMMA OkNone ==
  ASSUME NEW q
  PROVE  Ok(q, <<>>)
<1> SUFFICES ASSUME NEW u \in Seq(Byte), NEW x \in Seq(Byte), <<>> = u \o x, x # <<>>
             PROVE  FALSE
  BY DEF Ok
<1>1. Len(u) \in Nat /\ Len(x) \in Nat /\ Len(x) > 0
  BY EmptySeq
<1>2. Len(u \o x) = Len(u) + Len(x)
  BY ConcatProperties
<1>3. Len(u \o x) = Len(<<>>)
  BY Zenon
<1>4. Len(<<>>) = 0
  BY EmptySeq
<1> QED
  BY <1>1, <1>2, <1>3, <1>4

\* A fragment: a header, and the data it counts.
Trailer(b) == IF b THEN <<EOR>> ELSE <<>>
AllData(z) == \A i \in 1 .. Len(z) : z[i][1] = 0

LEMMA HeaderParsed ==
  ASSUME NEW q \in Parser, q.fb = 0, q.seen = 0, NEW l \in Nat, NEW b \in BOOLEAN
  PROVE  After(q, Header(l, b)) = Fragment(q.toks, l, b)
<1> DEFINE h == Header(l, b)
<1>1. h \in Seq(Byte) /\ Len(h) = Word /\ Word \in Nat \ {0}
  BY HeaderBytes, WordFacts
<1>2. h[Word][2] = l /\ h[Word][3] = b
  BY <1>1 DEF Header, HeaderByte
<1> HIDE DEF h
<1>3. After(q, h) = Fragment(q.toks, h[Word][2], h[Word][3])
  BY <1>1, AfterWord
<1> QED
  BY <1>2, <1>3 DEF h

\* Behind n of a fragment's data bytes.
LEMMA WithinFragment ==
  ASSUME NEW p \in Seq(Token), NEW l \in Nat, NEW b \in BOOLEAN, NEW z \in Seq(Byte),
         Len(z) <= l
  PROVE  After(Fragment(p, l, b), z) = Fragment(p \o Vals(z), l - Len(z), b)
<1> DEFINE e == Trailer(b)
           f == [toks |-> p, fb |-> l, seen |-> 0, end |-> e]
           q == Fragment(p, l, b)
           n == Len(z)
           v == Vals(z)
           t == p \o v
           g == [toks |-> t, fb |-> l - n, seen |-> 0, end |-> e]
<1>1. n \in Nat /\ v \in Seq(Token) /\ Len(v) = n /\ v \in Seq(Int) /\ l - n \in Nat
  BY ValsTyped
<1>2. t \in Seq(Token)
  BY <1>1, ConcatProperties
<1>3. e \in {<<>>, <<EOR>>}
  BY DEF Trailer
<1>4. q = Closed(f) /\ Fragment(t, l - n, b) = Closed(g)
  BY DEF Fragment, Trailer
<1>5. q \in Parser /\ q.fb = l /\ (l = 0 => q.end = <<>>)
  BY FragmentTyped
<1> HIDE DEF n, v
<1>6. After(q, z) = Closed(Parsing(q, v, n))
  BY <1>5, AfterData DEF n, v
<1>7. CASE l > 0
  <2>1. q = f
    BY <1>4, <1>7 DEF Closed
  <2>2. SubSeq(v, 1, n) = v
    BY <1>1, SubSeqFull
  <2>3. Parsing(f, v, n) = [f EXCEPT !.fb = f.fb - n, !.toks = f.toks \o SubSeq(v, 1, n)]
    BY DEF Parsing
  <2> DEFINE m == l - n
  <2> HIDE DEF e
  <2>4. f.fb - n = m /\ f.toks \o SubSeq(v, 1, n) = t
    BY <2>2
  <2> HIDE DEF m, t
  <2>5. Parsing(f, v, n) = [f EXCEPT !.fb = m, !.toks = t]
    BY <2>3, <2>4, Zenon
  <2>6. [f EXCEPT !.fb = m, !.toks = t] = [toks |-> t, fb |-> m, seen |-> 0, end |-> e]
    <3>1. m \in Nat /\ f \in Parser
      BY <1>1, <1>3 DEF m, Parser, Token
    <3> DEFINE c == [f EXCEPT !.fb = m, !.toks = t]
               d == [toks |-> t, fb |-> m, seen |-> 0, end |-> e]
    <3>2. d \in Parser /\ d.toks = t /\ d.fb = m /\ d.seen = 0 /\ d.end = e
      BY <1>2, <1>3, <3>1 DEF Parser, Token
    <3>3. f.seen = 0 /\ f.end = e
      OBVIOUS
    <3> HIDE DEF f
    <3>4. c \in Parser /\ c.toks = t /\ c.fb = m /\ c.seen = 0 /\ c.end = e
      BY <1>2, <3>1, <3>3 DEF Parser, Token
    <3> HIDE DEF c, d
    <3>5. c = d
      BY <3>2, <3>4, SameState
    <3> QED
      BY <3>5 DEF c, d
  <2>7. Parsing(q, v, n) = g
    BY <2>1, <2>5, <2>6, Zenon DEF m
  <2> QED
    BY <1>4, <1>6, <2>7, Zenon DEF t, v, n
<1>8. CASE l = 0
  <2>1. z = <<>> /\ n = 0
    BY <1>1, <1>8, EmptySeq DEF n
  <2>2. Vals(<<>>) = <<>>
    BY DEF Vals
  <2>3. p \o <<>> = p
    BY ConcatEmptySeq
  <2>4. t = p
    BY <2>1, <2>2, <2>3 DEF v
  <2>5. After(q, <<>>) = q
    BY <1>5, AfterNone
  <2>6. l - n = l
    BY <1>8, <2>1
  <2> HIDE DEF t, q
  <2> QED
    BY <2>1, <2>4, <2>5, <2>6 DEF t, v, n, q
<1> QED
  BY <1>7, <1>8

LEMMA FragmentParsed ==
  ASSUME NEW q \in Parser, q.fb = 0, q.seen = 0, NEW b \in BOOLEAN, NEW z \in Seq(Byte)
  PROVE  After(q, Header(Len(z), b) \o z) = Fragment(q.toks \o Vals(z), 0, b)
<1> DEFINE l == Len(z)
           h == Header(l, b)
<1>1. l \in Nat /\ h \in Seq(Byte)
  <2>1. l \in Nat
    OBVIOUS
  <2> HIDE DEF l
  <2> QED
    BY <2>1, HeaderBytes
<1>2. After(q, h) = Fragment(q.toks, l, b)
  BY <1>1, HeaderParsed
<1>3. q.toks \in Seq(Token)
  BY DEF Parser, Token
<1>4. After(Fragment(q.toks, l, b), z) = Fragment(q.toks \o Vals(z), l - Len(z), b)
  BY <1>1, <1>3, WithinFragment
<1>5. l - Len(z) = 0
  OBVIOUS
<1> HIDE DEF h
<1>6. After(q, h \o z) = After(After(q, h), z)
  BY <1>1, AfterBoth
<1> QED
  BY <1>2, <1>4, <1>5, <1>6, Zenon DEF h

LEMMA EmptyEnded ==
  ASSUME NEW p \in Seq(Token), NEW b \in BOOLEAN
  PROVE  /\ Fragment(p, 0, b) \in Parser /\ Fragment(p, 0, b).toks = p \o Trailer(b)
         /\ Fragment(p, 0, b).fb = 0 /\ Fragment(p, 0, b).seen = 0
<1> DEFINE e == Trailer(b)
           f == [toks |-> p, fb |-> 0, seen |-> 0, end |-> e]
           t == p \o e
<1>1. Fragment(p, 0, b) = Closed(f)
  BY DEF Fragment, Trailer
<1>2. Closed(f) = [f EXCEPT !.toks = t, !.end = <<>>]
  BY DEF Closed
<1> HIDE DEF t
<1>3. Closed(f).toks = t
  BY <1>2
<1> QED
  BY <1>1, <1>3, FragmentTyped DEF t

LEMMA FragmentOk ==
  ASSUME NEW q \in Parser, q.fb = 0, q.seen = 0, NEW b \in BOOLEAN, NEW z \in Seq(Byte),
         Len(z) > 0 \/ b = TRUE, AllData(z)
  PROVE  Ok(q, Header(Len(z), b) \o z)
<1> DEFINE l == Len(z)
           h == Header(l, b)
<1>1. l \in Nat /\ h \in Seq(Byte) /\ Len(h) = Word /\ Word \in Nat \ {0}
  <2>1. l \in Nat
    OBVIOUS
  <2> HIDE DEF l
  <2> QED
    BY <2>1, HeaderBytes, WordFacts
<1>2. q.toks \in Seq(Token)
  BY DEF Parser, Token
<1> HIDE DEF l
<1>3. SUFFICES ASSUME NEW u \in Seq(Byte), NEW x \in Seq(Byte), h \o z = u \o x, x # <<>>
               PROVE  Due(After(q, u), x)
  BY DEF Ok, l
<1>4. Len(u) \in Nat
  OBVIOUS
<1>5. CASE Len(u) < Word
  <2>1. After(q, u) = [q EXCEPT !.seen = Len(u)]
    BY <1>5, AfterPart
  <2>2. After(q, u).fb = 0 /\ After(q, u).seen = Len(u)
    BY <2>1 DEF Parser
  <2>3. ASSUME Len(u) = 0
        PROVE  Starts(x)
    <3>1. u = <<>>
      BY <2>3, EmptySeq
    <3>2. <<>> \o x = x
      BY ConcatEmptySeq
    <3>3. x = h \o z
      BY <1>3, <3>1, <3>2, Zenon
    <3> QED
      BY <1>1, <3>3 DEF Starts, l
  <2> QED
    BY <2>2, <2>3 DEF Due
<1>6. CASE Word <= Len(u)
  <2> HIDE DEF h
  <2>0. PICK t \in Seq(Byte) : Between(h, z, u, x, t)
    <3>1. Joins(h, z, u, x)
      BY <1>1, <1>3, <1>6, Zenon DEF Joins
    <3> QED
      BY <1>1, <3>1, BytesCut
  <2>1. u = h \o t /\ z = t \o x
    BY <2>0 DEF Between
  <2>2. /\ Len(z) = Len(t) + Len(x) /\ Len(t) \in Nat /\ Len(x) \in Nat /\ Len(x) > 0
        /\ \A i \in 1 .. Len(t) + Len(x) :
             z[i] = IF i <= Len(t) THEN t[i] ELSE x[i - Len(t)]
    <3>1. Len(x) > 0
      BY <1>3, EmptySeq
    <3> QED
      BY <2>1, <3>1, ConcatProperties
  <2>3. x[1][1] = 0
    <3>1. Len(t) + 1 \in 1 .. Len(t) + Len(x) /\ ~(Len(t) + 1 <= Len(t)) /\ Len(t) + 1 - Len(t) = 1
      BY <2>2
    <3>2. z[Len(t) + 1] = x[1] /\ Len(t) + 1 \in 1 .. Len(z)
      BY <2>2, <3>1
    <3> QED
      BY <3>2 DEF AllData
  <2>4. After(q, u) = After(Fragment(q.toks, l, b), t)
    <3>1. After(q, h) = Fragment(q.toks, l, b)
      BY <1>1, HeaderParsed DEF h
    <3>2. After(q, h \o t) = After(After(q, h), t)
      BY <1>1, AfterBoth
    <3> QED
      BY <2>1, <3>1, <3>2, Zenon
  <2>5. After(q, u) = Fragment(q.toks \o Vals(t), l - Len(t), b)
    <3>1. Len(t) <= l
      BY <2>2 DEF l
    <3> QED
      BY <1>1, <1>2, <2>4, <3>1, WithinFragment
  <2>6. After(q, u).fb = l - Len(t) /\ l - Len(t) > 0
    <3> DEFINE p == q.toks \o Vals(t)
    <3>1. p \in Seq(Token)
      BY <1>2, ValsTyped, ConcatProperties
    <3>2. l - Len(t) \in Nat /\ l - Len(t) > 0
      BY <2>2 DEF l
    <3> HIDE DEF p
    <3>3. Fragment(p, l - Len(t), b).fb = l - Len(t)
      BY <3>1, <3>2, FragmentTyped
    <3> QED
      BY <2>5, <3>2, <3>3 DEF p
  <2> QED
    BY <2>3, <2>6 DEF Due
<1> QED
  BY <1>1, <1>4, <1>5, <1>6

\* Parsing takes nothing back.
LEMMA AfterLonger ==
  ASSUME NEW q \in Parser, NEW z \in Seq(Byte)
  PROVE  Len(After(q, z).toks) >= Len(q.toks)
<1> DEFINE p == q.toks
           a == [q EXCEPT !.toks = <<>>]
<1>1. p \in Seq(Token) /\ <<>> \in Seq(Token)
  BY DEF Parser, Token
<1>2. a \in Parser /\ a.toks = <<>>
  BY <1>1 DEF Parser, Token
<1>3. Pre(p, a) = q
  <2>1. p \o <<>> = p
    BY <1>1, ConcatEmptySeq
  <2>2. Pre(p, a) = [a EXCEPT !.toks = p \o <<>>]
    BY <1>2 DEF Pre
  <2>3. Pre(p, a) = [a EXCEPT !.toks = p]
    BY <2>1, <2>2, Zenon
  <2> QED
    BY <2>3 DEF Parser
<1> HIDE DEF p, a
<1>4. After(q, z) = Pre(p, After(a, z)) /\ After(a, z) \in Parser
  <2>1. After(Pre(p, a), z) = Pre(p, After(a, z))
    BY <1>1, <1>2, AfterPre
  <2> QED
    BY <1>2, <1>3, <2>1, AfterTyped
<1>5. After(q, z).toks = p \o After(a, z).toks /\ After(a, z).toks \in Seq(Token)
  <2>1. After(a, z).toks \in Seq(Token)
    BY <1>4 DEF Parser, Token
  <2> QED
    BY <1>1, <1>4, <2>1, PreTyped, SMTT(30)
<1> DEFINE t == After(a, z).toks
<1>6. Len(p \o t) = Len(p) + Len(t) /\ Len(p) \in Nat /\ Len(t) \in Nat
  BY <1>1, <1>5, ConcatProperties
<1>7. After(q, z).toks = p \o t
  BY <1>5
<1> HIDE DEF t
<1>8. Len(After(q, z).toks) = Len(p) + Len(t)
  BY <1>6, <1>7
<1> QED
  BY <1>6, <1>8 DEF p

-----------------------------------------------------------------------------
(* Bytes that end between two fragments, and what they say.                *)

\* The bytes z, from the parser's state q on, end between two fragments, and
\* the data d lies behind them, in a fragment that has no header yet.
FramedBy(q, z, d) ==
  /\ After(q, z).fb = 0 /\ After(q, z).seen = 0
  /\ Ok(q, z)
  /\ AllData(d)

\* The bytes and ends that they say.
Shows(q, z, d) == After(q, z).toks \o Vals(d)

LEMMA ShowsTyped ==
  ASSUME NEW q \in Parser, NEW z \in Seq(Byte), NEW d \in Seq(Byte)
  PROVE  /\ After(q, z) \in Parser /\ After(q, z).toks \in Seq(Token)
         /\ Vals(d) \in Seq(Token) /\ Shows(q, z, d) \in Seq(Token)
<1>1. After(q, z) \in Parser /\ Vals(d) \in Seq(Token)
  BY AfterTyped, ValsTyped
<1>2. After(q, z).toks \in Seq(Token)
  BY <1>1 DEF Parser, Token
<1> QED
  BY <1>1, <1>2, ConcatProperties DEF Shows

\* Giving the open fragment its header.
LEMMA HeaderAdded ==
  ASSUME NEW q \in Parser, NEW z \in Seq(Byte), NEW d \in Seq(Byte), NEW b \in BOOLEAN,
         FramedBy(q, z, d)
  PROVE  /\ After(q, z \o (Header(Len(d), b) \o d)) \in Parser
         /\ After(q, z \o (Header(Len(d), b) \o d)).fb = 0
         /\ After(q, z \o (Header(Len(d), b) \o d)).seen = 0
         /\ After(q, z \o (Header(Len(d), b) \o d)).toks = Shows(q, z, d) \o Trailer(b)
         /\ Header(Len(d), b) \o d \in Seq(Byte)
<1> DEFINE n == Len(d)
           h == Header(n, b)
           f == h \o d
           e == After(q, z)
           t == Shows(q, z, d)
<1>1. h \in Seq(Byte)
  <2>1. n \in Nat
    OBVIOUS
  <2> HIDE DEF n
  <2> QED
    BY <2>1, HeaderBytes
<1>2. f \in Seq(Byte)
  BY <1>1, ConcatProperties
<1>3. e \in Parser /\ e.toks \in Seq(Token) /\ t \in Seq(Token) /\ t = e.toks \o Vals(d)
  BY ShowsTyped DEF Shows
<1>4. After(e, f) = Fragment(t, 0, b)
  <2>1. e.fb = 0 /\ e.seen = 0
    BY DEF FramedBy
  <2> HIDE DEF e
  <2>2. After(e, Header(Len(d), b) \o d) = Fragment(e.toks \o Vals(d), 0, b)
    BY <1>3, <2>1, FragmentParsed
  <2> QED
    BY <1>3, <2>2, Zenon
<1> HIDE DEF f, t
<1>5. After(q, z \o f) = After(e, f)
  BY <1>2, AfterBoth
<1>6. /\ Fragment(t, 0, b) \in Parser /\ Fragment(t, 0, b).toks = t \o Trailer(b)
      /\ Fragment(t, 0, b).fb = 0 /\ Fragment(t, 0, b).seen = 0
  BY <1>3, EmptyEnded
<1>7. After(q, z \o f) = Fragment(t, 0, b)
  BY <1>4, <1>5
<1> QED
  BY <1>2, <1>6, <1>7, Zenon DEF f, t

LEMMA NoVals == Vals(<<>>) = <<>> /\ AllData(<<>>)
BY DEF Vals, AllData

\* Sending the open fragment.
LEMMA Ships ==
  ASSUME NEW q \in Parser, NEW z \in Seq(Byte), NEW d \in Seq(Byte), NEW b \in BOOLEAN,
         FramedBy(q, z, d), Len(d) > 0 \/ b = TRUE
  PROVE  /\ FramedBy(q, z \o (Header(Len(d), b) \o d), <<>>)
         /\ Shows(q, z \o (Header(Len(d), b) \o d), <<>>) = Shows(q, z, d) \o Trailer(b)
<1> DEFINE f == Header(Len(d), b) \o d
           e == After(q, z \o f)
           t == Shows(q, z, d)
           u == t \o Trailer(b)
<1>1. e \in Parser /\ e.fb = 0 /\ e.seen = 0 /\ e.toks = u /\ f \in Seq(Byte)
  BY HeaderAdded
<1>2. Ok(After(q, z), f)
  <2> DEFINE a == After(q, z)
  <2>1. a \in Parser /\ a.fb = 0 /\ a.seen = 0 /\ AllData(d)
    BY AfterTyped DEF FramedBy
  <2> HIDE DEF a
  <2> QED
    BY <2>1, FragmentOk DEF a
<1>3. Ok(q, z \o f)
  <2> HIDE DEF f
  <2> QED
    BY <1>1, <1>2, OkBoth DEF FramedBy
<1> HIDE DEF f, u
<1>4. FramedBy(q, z \o f, <<>>)
  BY <1>1, <1>3, NoVals DEF FramedBy
<1>5. u \in Seq(Token)
  BY <1>1 DEF Parser, Token
<1>6. Shows(q, z \o f, <<>>) = u
  <2>1. u \o <<>> = u
    BY <1>5, ConcatEmptySeq
  <2> QED
    BY <1>1, <2>1, NoVals, Zenon DEF Shows
<1> QED
  BY <1>4, <1>6 DEF f, u

\* Putting data down.
LEMMA ValsJoin ==
  ASSUME NEW d \in Seq(Byte), NEW c \in Seq(Byte)
  PROVE  /\ Vals(d \o c) = Vals(d) \o Vals(c) /\ d \o c \in Seq(Byte)
         /\ AllData(d \o c) <=> AllData(d) /\ AllData(c)
<1> DEFINE m == Len(d)
           n == Len(c)
           s == d \o c
           v == Vals(d)
           w == Vals(c)
<1>1. /\ m \in Nat /\ n \in Nat /\ s \in Seq(Byte) /\ Len(s) = m + n
      /\ \A i \in 1 .. m + n : s[i] = IF i <= m THEN d[i] ELSE c[i - m]
  BY ConcatProperties
<1>2. v \in Seq(Token) /\ Len(v) = m /\ w \in Seq(Token) /\ Len(w) = n
  BY ValsTyped
<1>3. /\ \A i \in 1 .. m : v[i] = IF d[i][1] = 0 THEN d[i][2] ELSE -1
      /\ \A i \in 1 .. n : w[i] = IF c[i][1] = 0 THEN c[i][2] ELSE -1
  BY DEF Vals
<1> HIDE DEF v, w, s
<1>4. /\ v \o w \in Seq(Token) /\ Len(v \o w) = m + n
      /\ \A i \in 1 .. m + n : (v \o w)[i] = IF i <= m THEN v[i] ELSE w[i - m]
  <2> HIDE DEF m, n
  <2>1. /\ v \o w \in Seq(Token) /\ Len(v \o w) = Len(v) + Len(w)
        /\ \A i \in 1 .. Len(v) + Len(w) :
             (v \o w)[i] = IF i <= Len(v) THEN v[i] ELSE w[i - Len(v)]
    BY <1>2, ConcatProperties
  <2> QED
    BY <1>2, <2>1
<1>5. /\ Vals(s) \in Seq(Token) /\ Len(Vals(s)) = m + n
      /\ \A i \in 1 .. m + n : Vals(s)[i] = IF s[i][1] = 0 THEN s[i][2] ELSE -1
  BY <1>1, ValsTyped DEF Vals
<1> HIDE DEF m, n
<1>6. ASSUME NEW i \in 1 .. m + n
      PROVE  Vals(s)[i] = (v \o w)[i]
  <2>1. CASE i <= m
    <3>1. i \in 1 .. m
      BY <1>1, <2>1
    <3> QED
      BY <1>1, <1>3, <1>4, <1>5, <2>1, <3>1
  <2>2. CASE ~(i <= m)
    <3>1. i - m \in 1 .. n
      BY <1>1, <2>2
    <3> QED
      BY <1>1, <1>3, <1>4, <1>5, <2>2, <3>1
  <2> QED
    BY <2>1, <2>2
<1>7. Vals(s) = v \o w
  <2> DEFINE x == v \o w
             y == Vals(s)
  <2>1. x \in Seq(Token) /\ y \in Seq(Token) /\ Len(x) = Len(y) /\ \A i \in 1 .. Len(y) : y[i] = x[i]
    BY <1>4, <1>5, <1>6
  <2> HIDE DEF x, y
  <2>2. x = y
    BY <2>1, SeqEqual
  <2> QED
    BY <2>2 DEF x, y
<1>8. AllData(s) => AllData(d) /\ AllData(c)
  <2> SUFFICES ASSUME AllData(s)
               PROVE  AllData(d) /\ AllData(c)
    OBVIOUS
  <2>1. \A i \in 1 .. m + n : s[i][1] = 0
    BY <1>1 DEF AllData
  <2>2. ASSUME NEW i \in 1 .. m
        PROVE  d[i][1] = 0
    <3>1. i \in 1 .. m + n /\ i <= m
      BY <1>1
    <3> QED
      BY <1>1, <2>1, <3>1
  <2>3. ASSUME NEW i \in 1 .. n
        PROVE  c[i][1] = 0
    <3>1. m + i \in 1 .. m + n /\ ~(m + i <= m) /\ m + i - m = i
      BY <1>1
    <3>2. s[m + i] = c[i]
      BY <1>1, <3>1
    <3> QED
      BY <2>1, <3>1, <3>2
  <2> QED
    BY <2>2, <2>3 DEF AllData, m, n
<1>9. AllData(d) /\ AllData(c) => AllData(s)
  <2> SUFFICES ASSUME AllData(d), AllData(c), NEW i \in 1 .. m + n
               PROVE  s[i][1] = 0
    BY <1>1 DEF AllData
  <2>1. CASE i <= m
    <3>1. i \in 1 .. m
      BY <1>1, <2>1
    <3> QED
      BY <1>1, <2>1, <3>1 DEF AllData, m
  <2>2. CASE ~(i <= m)
    <3>1. i - m \in 1 .. n
      BY <1>1, <2>2
    <3> QED
      BY <1>1, <2>2, <3>1 DEF AllData, n
  <2> QED
    BY <2>1, <2>2
<1> QED
  BY <1>1, <1>7, <1>8, <1>9 DEF s, v, w

LEMMA DataAdded ==
  ASSUME NEW q \in Parser, NEW z \in Seq(Byte), NEW d \in Seq(Byte), NEW c \in Seq(Byte),
         FramedBy(q, z, d), AllData(c)
  PROVE  /\ FramedBy(q, z, d \o c)
         /\ Shows(q, z, d \o c) = Shows(q, z, d) \o Vals(c)
<1>1. AllData(d \o c) /\ Vals(d \o c) = Vals(d) \o Vals(c)
  BY ValsJoin DEF FramedBy
<1>2. FramedBy(q, z, d \o c)
  BY <1>1 DEF FramedBy
<1> DEFINE t == After(q, z).toks
           v == Vals(d)
           w == Vals(c)
<1>3. t \in Seq(Token) /\ v \in Seq(Token) /\ w \in Seq(Token)
  BY ShowsTyped
<1> HIDE DEF t, v, w
<1>4. (t \o v) \o w = t \o (v \o w)
  BY <1>3, TokensJoin
<1>5. Shows(q, z, d \o c) = t \o (v \o w) /\ Shows(q, z, d) = t \o v
  BY <1>1, Zenon DEF Shows, t, v, w
<1> QED
  BY <1>2, <1>4, <1>5, Zenon DEF w

\* Taking the bytes c from the front, which say v.
LEMMA FrontTaken ==
  ASSUME NEW q \in Parser, NEW p \in Parser, NEW v \in Seq(Token),
         NEW c \in Seq(Byte), NEW z \in Seq(Byte), NEW d \in Seq(Byte),
         After(q, c) = Pre(v, p), FramedBy(q, c \o z, d)
  PROVE  /\ FramedBy(p, z, d)
         /\ Shows(q, c \o z, d) = v \o Shows(p, z, d)
<1> DEFINE a == After(q, c \o z)
           e == After(p, z)
<1>1. e \in Parser /\ e.toks \in Seq(Token) /\ Vals(d) \in Seq(Token)
  BY ShowsTyped
<1>2. a = Pre(v, e)
  <2>1. After(q, c \o z) = After(After(q, c), z)
    BY AfterBoth
  <2>2. After(Pre(v, p), z) = Pre(v, After(p, z))
    BY AfterPre
  <2> QED
    BY <2>1, <2>2, Zenon
<1>3. Ok(p, z)
  <2>1. Ok(q, c \o z)
    BY DEF FramedBy
  <2>2. Ok(After(q, c), z)
    BY <2>1, OkRest
  <2>3. Ok(Pre(v, p), z)
    BY <2>2, Zenon
  <2> QED
    BY <2>3, OkPre
<1>4. a.fb = 0 /\ a.seen = 0 /\ AllData(d)
  BY DEF FramedBy
<1> HIDE DEF a, e
<1>5. a.fb = e.fb /\ a.seen = e.seen /\ a.toks = v \o e.toks
  BY <1>1, <1>2, PreTyped
<1>6. FramedBy(p, z, d)
  BY <1>3, <1>4, <1>5 DEF FramedBy, e
<1> DEFINE t == e.toks
           w == Vals(d)
<1>7. (v \o t) \o w = v \o (t \o w)
  <2>1. t \in Seq(Token) /\ w \in Seq(Token)
    BY <1>1
  <2> HIDE DEF t, w
  <2> QED
    BY <2>1, TokensJoin
<1>8. Shows(q, c \o z, d) = a.toks \o w /\ Shows(p, z, d) = t \o w
  BY Zenon DEF Shows, a, e
<1> QED
  BY <1>5, <1>6, <1>7, <1>8, Zenon

\* The state in which a reader stands.
At(n, b) == Fragment(<<>>, n, b)

LEMMA AtTyped ==
  ASSUME NEW n \in Nat, NEW b \in BOOLEAN
  PROVE  /\ At(n, b) \in Parser /\ At(n, b).fb = n /\ At(n, b).seen = 0
         /\ At(0, b).toks = Trailer(b)
<1>1. <<>> \in Seq(Token)
  BY EmptySeq
<1>2. <<>> \o Trailer(b) = Trailer(b)
  <2>1. Trailer(b) \in Seq(Token)
    <3>1. <<>> \in Seq(Token) /\ <<EOR>> \in Seq(Token)
      BY DEF Token
    <3> QED
      BY <3>1 DEF Trailer
  <2> QED
    BY <2>1, ConcatEmptySeq
<1>3. Fragment(<<>>, 0, b).toks = <<>> \o Trailer(b)
  BY <1>1, EmptyEnded
<1> QED
  BY <1>1, <1>2, <1>3, FragmentTyped DEF At

LEMMA PreNone ==
  ASSUME NEW q \in Parser
  PROVE  Pre(<<>>, q) = q
<1>1. q.toks \in Seq(Token)
  BY DEF Parser, Token
<1>2. <<>> \o q.toks = q.toks
  BY <1>1, ConcatEmptySeq
<1>3. Pre(<<>>, q) = [q EXCEPT !.toks = q.toks]
  BY <1>2, Zenon DEF Pre
<1> QED
  BY <1>3 DEF Parser

LEMMA HeaderTaken ==
  ASSUME NEW h \in Seq(Byte), NEW z \in Seq(Byte), NEW d \in Seq(Byte), Len(h) = Word,
         FramedBy(At(0, FALSE), h \o z, d)
  PROVE  \E l \in Nat, b \in BOOLEAN :
           /\ l > 0 \/ b = TRUE
           /\ h = Header(l, b)
           /\ FramedBy(At(l, b), z, d)
           /\ Shows(At(0, FALSE), h \o z, d) = Shows(At(l, b), z, d)
<1> DEFINE q == At(0, FALSE)
           s == h \o z
<1>1. q \in Parser /\ q.fb = 0 /\ q.seen = 0 /\ q.toks = <<>>
  BY AtTyped DEF Trailer
<1>2. s \in Seq(Byte) /\ Len(s) = Word + Len(z) /\ Word \in Nat \ {0} /\ Len(z) \in Nat
  <2>1. Len(h \o z) = Len(h) + Len(z) /\ h \o z \in Seq(Byte)
    BY ConcatProperties
  <2> QED
    BY <2>1, WordFacts
<1>3. s # <<>>
  BY <1>2
<1> HIDE DEF q, s
<1>4. Starts(s)
  <2>1. <<>> \in Seq(Byte) /\ s = <<>> \o s
    BY <1>2, ConcatEmptySeq
  <2>2. Ok(q, s)
    BY DEF FramedBy, q, s
  <2>3. Due(After(q, <<>>), s)
    BY <1>2, <1>3, <2>1, <2>2, Zenon DEF Ok
  <2>4. After(q, <<>>) = q
    BY <1>1, AfterNone
  <2> QED
    BY <1>1, <2>3, <2>4 DEF Due
<1>5. PICK l \in Nat, b \in BOOLEAN, w \in Seq(Byte) :
        (l > 0 \/ b = TRUE) /\ s = Header(l, b) \o w
  BY <1>4 DEF Starts
<1>6. h = Header(l, b)
  <2> DEFINE g == Header(l, b)
  <2>1. g \in Seq(Byte) /\ Len(g) = Word
    BY HeaderBytes
  <2>2. h \o z = g \o w
    BY <1>5 DEF s
  <2> HIDE DEF g
  <2>3. h = g
    BY <2>1, <2>2, SameFront
  <2> QED
    BY <2>3 DEF g
<1>7. After(q, h) = At(l, b)
  <2>1. After(q, Header(l, b)) = Fragment(q.toks, l, b)
    BY <1>1, HeaderParsed
  <2> QED
    BY <1>1, <1>6, <2>1, Zenon DEF At
<1>8. At(l, b) \in Parser
  BY AtTyped
<1>9. <<>> \in Seq(Token) /\ After(q, h) = Pre(<<>>, At(l, b))
  BY <1>7, <1>8, PreNone, EmptySeq
<1>10. /\ FramedBy(At(l, b), z, d)
       /\ Shows(q, h \o z, d) = <<>> \o Shows(At(l, b), z, d)
  <2>1. FramedBy(q, h \o z, d)
    BY DEF q
  <2> DEFINE e == <<>>
             a == At(l, b)
  <2>2. e \in Seq(Token) /\ a \in Parser /\ After(q, h) = Pre(e, a)
    BY <1>8, <1>9
  <2> HIDE DEF e, a
  <2>3. FramedBy(a, z, d) /\ Shows(q, h \o z, d) = e \o Shows(a, z, d)
    BY <1>1, <2>1, <2>2, FrontTaken
  <2> QED
    BY <2>3 DEF e, a
<1>11. <<>> \o Shows(At(l, b), z, d) = Shows(At(l, b), z, d)
  <2>1. Shows(At(l, b), z, d) \in Seq(Token)
    BY <1>8, ShowsTyped
  <2> QED
    BY <2>1, ConcatEmptySeq
<1>12. Shows(q, h \o z, d) = Shows(At(l, b), z, d)
  BY <1>10, <1>11, Zenon
<1> QED
  BY <1>5, <1>6, <1>10, <1>12 DEF q

LEMMA DataTaken ==
  ASSUME NEW n \in Nat, NEW b \in BOOLEAN, NEW c \in Seq(Byte), NEW z \in Seq(Byte),
         NEW d \in Seq(Byte), Len(c) <= n, FramedBy(At(n, b), c \o z, d)
  PROVE  /\ AllData(c)
         /\ FramedBy(At(n - Len(c), b), z, d)
         /\ Shows(At(n, b), c \o z, d) = Vals(c) \o Shows(At(n - Len(c), b), z, d)
<1> DEFINE q == At(n, b)
           k == Len(c)
           v == Vals(c)
           p == At(n - k, b)
<1>1. k \in Nat /\ n - k \in Nat /\ v \in Seq(Token) /\ <<>> \in Seq(Token)
  BY ValsTyped, EmptySeq
<1>2. q \in Parser /\ p \in Parser
  <2> HIDE DEF k
  <2>1. At(n - k, b) \in Parser /\ At(n, b) \in Parser
    BY <1>1, AtTyped
  <2> QED
    BY <2>1
<1>3. After(q, c) = Pre(v, p)
  <2>1. After(q, c) = Fragment(<<>> \o v, n - k, b)
    BY <1>1, WithinFragment DEF At
  <2> HIDE DEF v, k
  <2>2. Fragment(v \o <<>>, n - k, b) = Pre(v, Fragment(<<>>, n - k, b))
    BY <1>1, FragmentPre
  <2>3. <<>> \o v = v /\ v \o <<>> = v
    BY <1>1, ConcatEmptySeq
  <2> QED
    BY <2>1, <2>2, <2>3, Zenon DEF At
<1>4. FramedBy(p, z, d) /\ Shows(q, c \o z, d) = v \o Shows(p, z, d)
  <2> HIDE DEF p, q, v
  <2> QED
    BY <1>1, <1>2, <1>3, FrontTaken DEF q
<1>5. ASSUME NEW i \in 1 .. k
      PROVE  c[i][1] = 0
  <2> DEFINE y == SubSeq(c, 1, i - 1)
             x == From(c, i - 1)
  <2>1. i - 1 \in 0 .. k /\ i - 1 < k /\ i - 1 < n /\ k - (i - 1) > 0
    BY <1>1
  <2>2. /\ y \in Seq(Byte) /\ Len(y) = i - 1 /\ x \in Seq(Byte) /\ Len(x) = k - (i - 1)
        /\ \A j \in 1 .. k - (i - 1) : x[j] = c[j + (i - 1)]
        /\ c = y \o x
    <3> DEFINE j == i - 1
    <3>1. j \in 0 .. Len(c)
      BY <2>1
    <3> HIDE DEF j
    <3>2. /\ SubSeq(c, 1, j) \in Seq(Byte) /\ Len(SubSeq(c, 1, j)) = j
          /\ From(c, j) \in Seq(Byte) /\ Len(From(c, j)) = Len(c) - j
          /\ \A f \in 1 .. Len(c) - j : From(c, j)[f] = c[f + j]
      BY <3>1, FrontAndRest
    <3>3. c = SubSeq(c, 1, j) \o From(c, j)
      BY <3>1, Cut
    <3> QED
      BY <3>2, <3>3 DEF j
  <2>3. x[1] = c[i] /\ x # <<>>
    <3>1. 1 \in 1 .. k - (i - 1) /\ 1 + (i - 1) = i
      BY <1>1, <2>1
    <3> QED
      BY <2>1, <2>2, <3>1
  <2>31. x \in Seq(Byte) /\ y \in Seq(Byte)
    BY <2>2
  <2> HIDE DEF x, y
  <2>4. c \o z = y \o (x \o z) /\ x \o z \in Seq(Byte)
    <3>1. (y \o x) \o z = y \o (x \o z)
      BY <2>31, BytesJoin, Zenon
    <3>2. x \o z \in Seq(Byte)
      BY <2>31, ConcatProperties
    <3> QED
      BY <2>2, <3>1, <3>2, Zenon
  <2>5. (x \o z)[1] = x[1] /\ x \o z # <<>>
    <3>1. /\ Len(x \o z) = Len(x) + Len(z) /\ Len(x) \in Nat /\ Len(z) \in Nat
          /\ \A j \in 1 .. Len(x) + Len(z) :
               (x \o z)[j] = IF j <= Len(x) THEN x[j] ELSE z[j - Len(x)]
      BY <2>31, ConcatProperties
    <3>2. Len(x) > 0
      BY <2>1, <2>2
    <3>3. 1 \in 1 .. Len(x) + Len(z) /\ 1 <= Len(x) /\ Len(x) + Len(z) # 0
      BY <3>1, <3>2
    <3> QED
      BY <3>1, <3>3
  <2> DEFINE u == x \o z
  <2>6. u \in Seq(Byte) /\ c \o z = y \o u /\ u # <<>> /\ u[1] = c[i]
    BY <2>3, <2>4, <2>5
  <2> HIDE DEF u, q
  <2>7. Due(After(q, y), u)
    <3>1. Ok(q, c \o z)
      BY DEF FramedBy, q
    <3> QED
      BY <2>2, <2>6, <3>1, Zenon DEF Ok
  <2>8. After(q, y).fb > 0
    <3> DEFINE m == n - (i - 1)
               w == <<>> \o Vals(y)
    <3>1. Len(y) <= n /\ n - Len(y) = m /\ m \in Nat /\ m > 0
      BY <1>1, <2>1, <2>2, SMTT(30)
    <3>2. w \in Seq(Token)
      BY <1>1, <2>2, ValsTyped, ConcatProperties
    <3>3. After(q, y) = Fragment(w, n - Len(y), b)
      BY <1>1, <2>31, <3>1, WithinFragment DEF At, q
    <3> HIDE DEF m, w
    <3>4. After(q, y) = Fragment(w, m, b)
      BY <3>1, <3>3
    <3> QED
      BY <3>1, <3>2, <3>4, FragmentTyped
  <2> QED
    BY <2>6, <2>7, <2>8 DEF Due
<1> QED
  BY <1>4, <1>5 DEF AllData

LEMMA EndTaken ==
  ASSUME NEW z \in Seq(Byte), NEW d \in Seq(Byte), FramedBy(At(0, TRUE), z, d)
  PROVE  /\ FramedBy(At(0, FALSE), z, d)
         /\ Shows(At(0, TRUE), z, d) = <<EOR>> \o Shows(At(0, FALSE), z, d)
<1> DEFINE q == At(0, TRUE)
           p == At(0, FALSE)
<1>1. /\ q \in Parser /\ p \in Parser /\ q.toks = <<EOR>> /\ p.toks = <<>>
      /\ q.fb = 0 /\ p.fb = 0 /\ q.seen = 0 /\ p.seen = 0
  BY AtTyped DEF Trailer
<1>2. <<EOR>> \in Seq(Token) /\ <<>> \in Seq(Byte) /\ <<>> \in Seq(Token)
  BY EmptySeq DEF Token
<1>3. q.end = <<>> /\ p.end = <<>>
  BY <1>2, FragmentTyped DEF At
<1> HIDE DEF q, p
<1>4. Pre(<<EOR>>, p) = q
  <2>1. <<EOR>> \o <<>> = <<EOR>>
    BY <1>2, ConcatEmptySeq
  <2> DEFINE a == Pre(<<EOR>>, p)
  <2>2. a \in Parser /\ a.fb = 0 /\ a.seen = 0 /\ a.end = <<>> /\ a.toks = <<EOR>>
    BY <1>1, <1>2, <1>3, <2>1, PreTyped, ZenonT(60)
  <2> HIDE DEF a
  <2>3. a = q
    BY <1>1, <1>3, <2>2, SameState
  <2> QED
    BY <2>3 DEF a
<1>5. After(q, <<>>) = Pre(<<EOR>>, p)
  BY <1>1, <1>4, AfterNone
<1>6. <<>> \o z = z
  BY ConcatEmptySeq
<1>7. FramedBy(q, <<>> \o z, d)
  BY <1>6, Zenon DEF q
<1>8. FramedBy(p, z, d) /\ Shows(q, <<>> \o z, d) = <<EOR>> \o Shows(p, z, d)
  <2> DEFINE e == <<>>
             v == <<EOR>>
  <2>1. e \in Seq(Byte) /\ v \in Seq(Token) /\ After(q, e) = Pre(v, p) /\ FramedBy(q, e \o z, d)
    BY <1>2, <1>5, <1>7
  <2> HIDE DEF e, v
  <2>2. FramedBy(p, z, d) /\ Shows(q, e \o z, d) = v \o Shows(p, z, d)
    BY <1>1, <2>1, FrontTaken
  <2> QED
    BY <2>2 DEF e, v
<1>9. Shows(q, z, d) = <<EOR>> \o Shows(p, z, d)
  BY <1>6, <1>8, Zenon
<1> QED
  BY <1>8, <1>9 DEF p, q

\* Bytes behind the end of a record are the next one's.
LEMMA MoreArrived ==
  ASSUME NEW z \in Seq(Byte), NEW d \in Seq(Byte), FramedBy(At(0, FALSE), z, d), z # <<>>
  PROVE  Len(Shows(At(0, FALSE), z, d)) > 0
<1> DEFINE q == At(0, FALSE)
<1>1. q \in Parser /\ q.fb = 0 /\ q.seen = 0 /\ q.toks = <<>>
  BY AtTyped DEF Trailer
<1> HIDE DEF q
<1>2. PICK l \in Nat, b \in BOOLEAN, w \in Seq(Byte) :
        (l > 0 \/ b = TRUE) /\ z = Header(l, b) \o w
  <2>1. <<>> \in Seq(Byte) /\ z = <<>> \o z
    BY ConcatEmptySeq
  <2>2. Ok(q, z)
    BY DEF FramedBy, q
  <2>3. Due(After(q, <<>>), z)
    BY <2>1, <2>2, Zenon DEF Ok
  <2>4. After(q, <<>>) = q
    BY <1>1, AfterNone
  <2> QED
    BY <1>1, <2>3, <2>4 DEF Due, Starts
<1> DEFINE a == At(l, b)
<1>3. /\ a \in Parser /\ a.fb = l /\ a.seen = 0 /\ (l = 0 => a.toks = Trailer(b))
      /\ After(q, z) = After(a, w)
  <2> DEFINE h == Header(l, b)
  <2>1. h \in Seq(Byte)
    BY HeaderBytes
  <2>2. After(q, h) = a
    <3>1. After(q, h) = Fragment(q.toks, l, b)
      BY <1>1, HeaderParsed
    <3> QED
      BY <1>1, <3>1, Zenon DEF At
  <2> HIDE DEF h
  <2>3. After(q, h \o w) = After(After(q, h), w)
    BY <1>1, <2>1, AfterBoth
  <2>4. After(q, z) = After(a, w)
    BY <1>2, <2>2, <2>3, Zenon DEF h
  <2> QED
    BY <2>4, AtTyped
<1> HIDE DEF a
<1>4. Len(After(q, z).toks) > 0
  <2>1. CASE l = 0
    <3>1. b = TRUE
      BY <1>2, <2>1
    <3>2. a.toks = <<EOR>>
      BY <1>3, <2>1, <3>1 DEF Trailer
    <3>3. Len(a.toks) = 1
      BY <3>2
    <3>4. Len(After(a, w).toks) >= Len(a.toks)
      BY <1>3, AfterLonger
    <3>5. After(q, z).toks \in Seq(Token)
      BY <1>1, ShowsTyped
    <3> QED
      BY <1>3, <3>3, <3>4, <3>5
  <2>2. CASE l > 0
    <3>1. w # <<>>
      <4>1. After(q, z).fb = 0
        BY DEF FramedBy, q
      <4>2. w = <<>> => After(a, w) = a
        BY <1>3, AfterNone
      <4> QED
        BY <1>3, <2>2, <4>1, <4>2
    <3> DEFINE y == SubSeq(w, 1, 1)
               x == From(w, 1)
               v == <<>> \o Vals(y)
    <3>2. 1 \in 0 .. Len(w)
      BY <3>1, EmptySeq
    <3>3. y \in Seq(Byte) /\ Len(y) = 1 /\ x \in Seq(Byte) /\ w = y \o x
      BY <3>2, FrontAndRest, Cut
    <3> HIDE DEF x, y
    <3>4. v \in Seq(Token) /\ Len(v) = 1
      <4>1. Vals(y) \in Seq(Token) /\ Len(Vals(y)) = 1
        BY <3>3, ValsTyped
      <4>2. <<>> \o Vals(y) = Vals(y)
        BY <4>1, ConcatEmptySeq
      <4> QED
        BY <4>1, <4>2
    <3> DEFINE m == l - 1
               e == Fragment(v, m, b)
    <3>5. m \in Nat
      BY <2>2
    <3>6. After(a, y) = e
      <4>1. <<>> \in Seq(Token) /\ Len(y) <= l
        BY <2>2, <3>3, EmptySeq
      <4>2. After(Fragment(<<>>, l, b), y) = Fragment(<<>> \o Vals(y), l - Len(y), b)
        BY <3>3, <4>1, WithinFragment
      <4> QED
        BY <3>3, <4>2 DEF a, At
    <3> HIDE DEF v, m
    <3>7. e \in Parser /\ Len(e.toks) >= 1
      <4>1. e \in Parser /\ v = v
        BY <3>4, <3>5, FragmentTyped
      <4>2. e = Pre(v, At(m, b))
        <5>1. v \o <<>> = v /\ <<>> \in Seq(Token)
          BY <3>4, ConcatEmptySeq
        <5>2. Fragment(v \o <<>>, m, b) = Pre(v, Fragment(<<>>, m, b))
          BY <3>4, <3>5, <5>1, FragmentPre
        <5> QED
          BY <5>1, <5>2, Zenon DEF At
      <4> DEFINE f == At(m, b)
      <4>3. f \in Parser
        BY <3>5, AtTyped
      <4>4. f.toks \in Seq(Token)
        BY <4>3 DEF Parser, Token
      <4> HIDE DEF f
      <4>5. e.toks = v \o f.toks
        BY <3>4, <4>2, <4>3, PreTyped DEF f
      <4> DEFINE u == f.toks
      <4>51. v \in Seq(Token) /\ u \in Seq(Token)
        BY <3>4, <4>4
      <4> HIDE DEF u
      <4>52. Len(v \o u) = Len(v) + Len(u) /\ Len(u) \in Nat
        BY <4>51, ConcatProperties
      <4>6. Len(v \o f.toks) = Len(v) + Len(f.toks) /\ Len(f.toks) \in Nat
        BY <4>52 DEF u
      <4> HIDE DEF e
      <4> QED
        BY <3>4, <4>1, <4>5, <4>6
    <3> HIDE DEF e
    <3>8. After(a, w) = After(e, x)
      <4>1. After(a, y \o x) = After(After(a, y), x)
        BY <1>3, <3>3, AfterBoth
      <4> QED
        BY <3>3, <3>6, <4>1, Zenon
    <3>9. Len(After(e, x).toks) >= Len(e.toks)
      BY <3>3, <3>7, AfterLonger
    <3>10. Len(After(e, x).toks) \in Nat /\ Len(e.toks) \in Nat
      <4>1. After(e, x) \in Parser
        BY <3>3, <3>7, AfterTyped
      <4> QED
        BY <3>7, <4>1 DEF Parser
    <3> QED
      BY <1>3, <3>7, <3>8, <3>9, <3>10
  <2> QED
    BY <2>1, <2>2
<1> DEFINE t == After(q, z).toks
           v == Vals(d)
<1>5. t \in Seq(Token) /\ v \in Seq(Token)
  BY <1>1, ShowsTyped
<1>6. Shows(q, z, d) = t \o v /\ Len(t) > 0
  BY <1>4 DEF Shows
<1> HIDE DEF t, v
<1>7. Len(t \o v) = Len(t) + Len(v) /\ Len(v) \in Nat /\ Len(t) \in Nat
  BY <1>5, ConcatProperties
<1>8. Len(Shows(q, z, d)) > 0
  BY <1>6, <1>7
<1> QED
  BY <1>8 DEF q

-----------------------------------------------------------------------------
(* The reader's place and the bytes ahead of it.                           *)

\* Where the reader stands, the bytes ahead of it up to the header that is
\* still open, and the data behind that header.
Where == At(r.fbtbc, r.last_frag)
Sent  == SubSeq(o.buf, 1, o.frag)
Open  == From(o.buf, o.frag + Word)
Ahead == r.hdr \o (r.buf \o (wire \o Sent))

Framed ==
  /\ FramedBy(Where, Ahead, Open)
  /\ r.hdr # <<>> => r.fbtbc = 0 /\ r.last_frag = FALSE

LEMMA BufferSplit ==
  ASSUME IInv, NEW last \in BOOLEAN
  PROVE  /\ Sent \in Seq(Byte) /\ Open \in Seq(Byte)
         /\ Len(Open) = Len(o.buf) - o.frag - Word
         /\ Headed(last) = Sent \o (Header(Len(Open), last) \o Open)
<1> DEFINE b == o.buf
           k == o.frag
           l == Len(b)
           m == k + Word
           n == l - m
           s == SubSeq(b, 1, k)
           d == From(b, m)
           h == Header(n, last)
           f == h \o d
           g == s \o f
           w == Headed(last)
<1>1. b \in Seq(Byte) /\ k \in Nat /\ Word \in Nat \ {0} /\ k + Word <= Len(b)
  BY WordFacts DEF IInv, TypeOK
<1>2. l \in Nat /\ m \in 0 .. l /\ k \in 0 .. l /\ n \in Nat /\ l - k - Word = n
  BY <1>1
<1>3. w = [i \in 1 .. l |-> IF i > k /\ i <= m THEN h[i - k] ELSE b[i]]
  <2>1. Len(o.buf) - o.frag - Word = n
    BY <1>2
  <2> QED
    BY <2>1 DEF Headed
<1>4. w \in Seq(Byte) /\ Len(w) = l
  BY HeadedBytes DEF IInv
<1> HIDE DEF m
<1>5. /\ s \in Seq(Byte) /\ Len(s) = k /\ d \in Seq(Byte) /\ Len(d) = l - m
      /\ \A i \in 1 .. l - m : d[i] = b[i + m]
  <2>1. s \in Seq(Byte) /\ Len(s) = k
    <3> HIDE DEF k, b, l
    <3> QED
      BY <1>1, <1>2, FrontAndRest DEF l
  <2>2. /\ d \in Seq(Byte) /\ Len(d) = l - m
        /\ \A i \in 1 .. l - m : d[i] = b[i + m]
    <3> HIDE DEF k, b, s
    <3> QED
      BY <1>1, <1>2, FrontAndRest
  <2> QED
    BY <2>1, <2>2
<1>6. \A i \in 1 .. k : s[i] = b[i]
  BY <1>1, <1>2
<1> HIDE DEF n, s, d
<1>7. h \in Seq(Byte) /\ Len(h) = Word
  BY <1>2, HeaderBytes
<1> HIDE DEF h, w
<1>8. /\ f \in Seq(Byte) /\ Len(f) = Len(h) + Len(d)
      /\ \A i \in 1 .. Len(h) + Len(d) : f[i] = IF i <= Len(h) THEN h[i] ELSE d[i - Len(h)]
  BY <1>5, <1>7, ConcatProperties
<1> HIDE DEF f
<1>9. /\ g \in Seq(Byte) /\ Len(g) = Len(s) + Len(f)
      /\ \A i \in 1 .. Len(s) + Len(f) : g[i] = IF i <= Len(s) THEN s[i] ELSE f[i - Len(s)]
  <2>1. s \in Seq(Byte) /\ f \in Seq(Byte)
    BY <1>5, <1>8
  <2> QED
    BY <2>1, ConcatProperties
<1> HIDE DEF g, l, k, b
<1>10. m = k + Word
  BY DEF m, k
<1>11. Len(g) = l
  <2>1. Len(f) = Len(h) + Len(d)
    BY <1>8
  <2>2. Len(g) = Len(s) + Len(f)
    BY <1>9
  <2>3. Len(g) = k + (Word + (l - m))
    BY <1>5, <1>7, <2>1, <2>2
  <2>4. k \in Nat /\ Word \in Nat /\ l \in Nat
    BY <1>1, <1>2
  <2> QED
    BY <1>10, <2>3, <2>4
<1>12. ASSUME NEW i \in 1 .. l
       PROVE  w[i] = g[i]
  <2>1. i \in 1 .. Len(s) + Len(f)
    BY <1>9, <1>11
  <2>2. g[i] = IF i <= k THEN s[i] ELSE f[i - k]
    BY <1>5, <1>9, <2>1
  <2>3. w[i] = IF i > k /\ i <= m THEN h[i - k] ELSE b[i]
    BY <1>3
  <2>4. CASE i <= k
    <3>1. i \in 1 .. k /\ ~(i > k)
      BY <1>2, <2>4
    <3> QED
      BY <1>6, <2>2, <2>3, <2>4, <3>1
  <2>5. CASE i > k /\ i <= m
    <3>1. i - k \in 1 .. Len(h) + Len(d) /\ i - k <= Len(h) /\ ~(i <= k)
      BY <1>1, <1>2, <1>5, <1>7, <1>10, <2>5
    <3>2. f[i - k] = h[i - k]
      BY <1>8, <3>1
    <3> QED
      BY <2>2, <2>3, <2>5, <3>1, <3>2
  <2>6. CASE i > m
    <3>1. /\ i - k \in 1 .. Len(h) + Len(d) /\ ~(i - k <= Len(h)) /\ ~(i <= k) /\ ~(i <= m)
          /\ i - k - Len(h) = i - m /\ i - m \in 1 .. l - m /\ i - m + m = i
      BY <1>1, <1>2, <1>5, <1>7, <1>10, <2>6
    <3>2. f[i - k] = d[i - m]
      BY <1>8, <3>1
    <3>3. d[i - m] = b[i]
      BY <1>5, <3>1
    <3> QED
      BY <2>2, <2>3, <3>1, <3>2, <3>3
  <2> QED
    BY <1>2, <2>4, <2>5, <2>6
<1>13. w = g
  BY <1>4, <1>9, <1>11, <1>12, SeqEqual
<1>14. Sent = s /\ Open = d /\ Len(Open) = n
  BY <1>5 DEF Sent, Open, s, d, b, k, m, n
<1> QED
  BY <1>2, <1>5, <1>13, <1>14 DEF w, g, f, h, l, k, b

\* Bytes that lie in several places, joined in two ways.
Joined(s, t, u) == (s \o t) \o u = s \o (t \o u)
Rejoined(h, b, w, s, f) ==
  /\ h \o ((b \o w) \o (s \o f)) = (h \o (b \o (w \o s))) \o f
  /\ h \o (b \o (w \o (s \o f))) = (h \o (b \o (w \o s))) \o f

LEMMA Joins3 ==
  ASSUME NEW s \in Seq(Byte), NEW t \in Seq(Byte), NEW u \in Seq(Byte)
  PROVE  Joined(s, t, u) /\ s \o t \in Seq(Byte)
BY BytesJoin, ConcatProperties DEF Joined

LEMMA Rejoin ==
  ASSUME NEW h \in Seq(Byte), NEW b \in Seq(Byte), NEW w \in Seq(Byte),
         NEW s \in Seq(Byte), NEW f \in Seq(Byte)
  PROVE  Rejoined(h, b, w, s, f)
<1> DEFINE sf == s \o f
           ws == w \o s
           bws == b \o ws
<1>1. sf \in Seq(Byte) /\ ws \in Seq(Byte) /\ Joined(w, s, f)
  BY Joins3
<1> HIDE DEF sf, ws
<1>2. bws \in Seq(Byte) /\ Joined(b, ws, f) /\ Joined(b, w, sf)
  BY <1>1, Joins3
<1> HIDE DEF bws
<1>3. Joined(h, bws, f)
  BY <1>2, Joins3
<1>4. /\ ws \o f = w \o sf
      /\ bws \o f = b \o (ws \o f) /\ (b \o w) \o sf = b \o (w \o sf)
      /\ (h \o bws) \o f = h \o (bws \o f)
  BY <1>1, <1>2, <1>3, Zenon DEF Joined, sf, ws, bws
<1> QED
  BY <1>4, Zenon DEF Rejoined, sf, ws, bws

LEMMA StandsTyped ==
  ASSUME IInv
  PROVE  /\ r.fbtbc \in Nat /\ r.last_frag \in BOOLEAN
         /\ Where \in Parser /\ Ahead \in Seq(Byte) /\ Open \in Seq(Byte) /\ Sent \in Seq(Byte)
         /\ r.hdr \in Seq(Byte) /\ r.buf \in Seq(Byte) /\ wire \in Seq(Byte)
<1>1. /\ r.fbtbc \in Nat /\ r.last_frag \in BOOLEAN
      /\ r.hdr \in Seq(Byte) /\ r.buf \in Seq(Byte) /\ wire \in Seq(Byte)
  BY DEF IInv, TypeOK
<1>2. Open \in Seq(Byte) /\ Sent \in Seq(Byte)
  BY BufferSplit
<1>3. Ahead \in Seq(Byte)
  <2>1. wire \o Sent \in Seq(Byte)
    BY <1>1, <1>2, ConcatProperties
  <2>2. r.buf \o (wire \o Sent) \in Seq(Byte)
    BY <1>1, <2>1, ConcatProperties
  <2> QED
    BY <1>1, <2>2, ConcatProperties DEF Ahead
<1> QED
  BY <1>1, <1>2, <1>3, AtTyped DEF Where

\* The stream of the specification, by its parts.
LEMMA UnreadIs == IInv /\ Framed => Unread = Shows(Where, Ahead, Open)
<1> SUFFICES ASSUME IInv, Framed
             PROVE  Unread = Shows(Where, Ahead, Open)
  OBVIOUS
<1> DEFINE f == Header(Len(Open), FALSE) \o Open
           x == r.buf \o wire \o Headed(FALSE)
<1>1. /\ Where \in Parser /\ Ahead \in Seq(Byte) /\ Open \in Seq(Byte) /\ Sent \in Seq(Byte)
      /\ r.hdr \in Seq(Byte) /\ r.buf \in Seq(Byte) /\ wire \in Seq(Byte)
  BY StandsTyped
<1>2. Headed(FALSE) = Sent \o f
  BY BufferSplit
<1>3. After(Where, Ahead \o f).toks = Shows(Where, Ahead, Open) \o Trailer(FALSE) /\ f \in Seq(Byte)
  BY <1>1, HeaderAdded, ZenonT(60) DEF Framed
<1> HIDE DEF f
<1>4. r.hdr \o x = Ahead \o f
  <2>1. r.hdr \o ((r.buf \o wire) \o (Sent \o f)) = (r.hdr \o (r.buf \o (wire \o Sent))) \o f
    <3>1. Rejoined(r.hdr, r.buf, wire, Sent, f)
      BY <1>1, <1>3, Rejoin
    <3> QED
      BY <3>1, Zenon DEF Rejoined
  <2> QED
    BY <1>2, <2>1, Zenon DEF Ahead
<1>5. Ahead \o f \in Seq(Byte)
  BY <1>1, <1>3, ConcatProperties
<1> HIDE DEF x
<1>6. Tokens(x) = Parsed(r.hdr \o x)[<<1, Where>>].toks
  BY DEF Tokens, Where, At
<1>7. Parsed(Ahead \o f)[<<1, Where>>] = After(Where, Ahead \o f)
  BY <1>1, <1>5, ParsedIsAfter
<1>8. Tokens(x) = Shows(Where, Ahead, Open) \o <<>>
  BY <1>3, <1>4, <1>6, <1>7 DEF Trailer
<1>9. Shows(Where, Ahead, Open) \o <<>> = Shows(Where, Ahead, Open)
  <2>1. Shows(Where, Ahead, Open) \in Seq(Token)
    BY <1>1, ShowsTyped
  <2> QED
    BY <2>1, ConcatEmptySeq
<1> QED
  BY <1>8, <1>9, Zenon DEF Unread, x

LEMMA UnreadNext ==
  (IInv /\ Framed)' => (Unread = Shows(Where, Ahead, Open))'
BY UnreadIs, PTL

-----------------------------------------------------------------------------
(* The sender's steps.                                                     *)

LEMMA NoneBetween ==
  ASSUME NEW S, NEW s \in Seq(S)
  PROVE  SubSeq(s, 1, 0) = <<>> /\ From(s, Len(s)) = <<>> /\ SubSeq(s, 1, Len(s)) = s
BY SubSeqEmpty, SubSeqFull DEF From

\* Cutting two joined sequences, at the seam and within either.
LEMMA CutJoined ==
  ASSUME NEW S, NEW s \in Seq(S), NEW t \in Seq(S)
  PROVE  /\ SubSeq(s \o t, 1, Len(s)) = s /\ From(s \o t, Len(s)) = t
         /\ \A k \in 0 .. Len(s) : /\ SubSeq(s \o t, 1, k) = SubSeq(s, 1, k)
                                   /\ From(s \o t, k) = From(s, k) \o t
<1> DEFINE c == s \o t
           m == Len(s)
           n == Len(t)
<1>1. /\ c \in Seq(S) /\ Len(c) = m + n /\ m \in Nat /\ n \in Nat
      /\ \A i \in 1 .. m + n : c[i] = IF i <= m THEN s[i] ELSE t[i - m]
  BY ConcatProperties
<1> HIDE DEF c
<1>2. ASSUME NEW k \in 0 .. m
      PROVE  SubSeq(c, 1, k) = SubSeq(s, 1, k)
  <2> DEFINE u == SubSeq(c, 1, k)
             v == SubSeq(s, 1, k)
  <2>1. k \in 0 .. Len(c)
    BY <1>1
  <2>2. u \in Seq(S) /\ Len(u) = k /\ v \in Seq(S) /\ Len(v) = k
    <3>1. u \in Seq(S) /\ Len(u) = k
      BY <1>1, <2>1, FrontAndRest
    <3>2. v \in Seq(S) /\ Len(v) = k
      BY FrontAndRest
    <3> QED
      BY <3>1, <3>2
  <2>3. ASSUME NEW i \in 1 .. k
        PROVE  u[i] = v[i]
    <3>1. u[i] = c[i]
      BY <1>1, <2>1
    <3>2. v[i] = s[i]
      BY <1>1
    <3>3. i \in 1 .. m + n /\ i <= m
      BY <1>1
    <3> QED
      BY <1>1, <3>1, <3>2, <3>3
  <2> HIDE DEF u, v
  <2>4. u = v
    BY <2>2, <2>3, SeqEqual
  <2> QED
    BY <2>4 DEF u, v
<1>3. ASSUME NEW k \in 0 .. m
      PROVE  From(c, k) = From(s, k) \o t
  <2> DEFINE u == From(c, k)
             v == From(s, k)
  <2>1. k \in 0 .. Len(c)
    BY <1>1
  <2>2. /\ u \in Seq(S) /\ Len(u) = m + n - k
        /\ \A i \in 1 .. m + n - k : u[i] = c[i + k]
    <3>1. /\ u \in Seq(S) /\ Len(u) = Len(c) - k
          /\ \A i \in 1 .. Len(c) - k : u[i] = c[i + k]
      <4> HIDE DEF m, n
      <4> QED
        BY <1>1, <2>1, FrontAndRest
    <3> QED
      BY <1>1, <3>1
  <2>3. /\ v \in Seq(S) /\ Len(v) = m - k
        /\ \A i \in 1 .. m - k : v[i] = s[i + k]
    BY FrontAndRest
  <2> HIDE DEF u, v
  <2> DEFINE w == v \o t
  <2>4. /\ w \in Seq(S) /\ Len(w) = Len(v) + n
        /\ \A i \in 1 .. Len(v) + n : w[i] = IF i <= Len(v) THEN v[i] ELSE t[i - Len(v)]
    <3>1. v \in Seq(S)
      BY <2>3
    <3> QED
      BY <3>1, ConcatProperties
  <2> HIDE DEF w, m, n
  <2>5. Len(w) = m + n - k /\ m - k \in Nat
    BY <1>1, <2>3, <2>4
  <2>6. ASSUME NEW i \in 1 .. m + n - k
        PROVE  u[i] = w[i]
    <3>1. i + k \in 1 .. m + n /\ i \in 1 .. Len(v) + n
      BY <1>1, <2>3
    <3>2. u[i] = IF i + k <= m THEN s[i + k] ELSE t[i + k - m]
      <4>1. u[i] = c[i + k]
        BY <2>2
      <4>2. c[i + k] = IF i + k <= m THEN s[i + k] ELSE t[i + k - m]
        BY <1>1, <3>1
      <4> QED
        BY <4>1, <4>2
    <3>3. w[i] = IF i <= m - k THEN v[i] ELSE t[i - (m - k)]
      BY <2>3, <2>4, <3>1
    <3>4. CASE i <= m - k
      <4>1. i \in 1 .. m - k /\ i + k <= m
        BY <1>1, <3>4
      <4> QED
        BY <2>3, <3>2, <3>3, <3>4, <4>1
    <3>5. CASE ~(i <= m - k)
      <4>1. ~(i + k <= m) /\ i + k - m = i - (m - k)
        BY <1>1, <3>5
      <4> QED
        BY <3>2, <3>3, <3>5, <4>1
    <3> QED
      BY <3>4, <3>5
  <2>7. u = w
    BY <2>2, <2>4, <2>5, <2>6, SeqEqual
  <2> QED
    BY <2>7 DEF u, v, w
<1>4. m \in 0 .. m
  BY <1>1
<1>5. SubSeq(c, 1, m) = s
  <2>1. SubSeq(s, 1, m) = s
    BY NoneBetween
  <2>2. SubSeq(c, 1, m) = SubSeq(s, 1, m)
    BY <1>2, <1>4
  <2> QED
    BY <2>1, <2>2
<1>6. From(c, m) = t
  <2>1. From(s, m) = <<>>
    BY NoneBetween
  <2>2. From(c, m) = From(s, m) \o t
    BY <1>3, <1>4
  <2>3. <<>> \o t = t
    BY ConcatEmptySeq
  <2> QED
    BY <2>1, <2>2, <2>3, Zenon
<1> QED
  BY <1>2, <1>3, <1>5, <1>6 DEF c

\* The open fragment got its header, whether it was sent or not.
LEMMA ShipStep ==
  ASSUME IInv, IInv', Framed, NEW last \in BOOLEAN,
         last = TRUE \/ Len(o.buf) > o.frag + Word,
         UNCHANGED r, wire' \o Sent' = wire \o Headed(last), Open' = <<>>
  PROVE  Framed' /\ Unread' = Unread \o Trailer(last)
<1> DEFINE d == Open
           f == Header(Len(d), last) \o d
           a == Ahead \o f
<1>1. /\ Where \in Parser /\ Ahead \in Seq(Byte) /\ d \in Seq(Byte) /\ Sent \in Seq(Byte)
      /\ r.hdr \in Seq(Byte) /\ r.buf \in Seq(Byte) /\ wire \in Seq(Byte)
  BY StandsTyped
<1>2. Headed(last) = Sent \o f
  BY BufferSplit
<1>3. FramedBy(Where, Ahead, d) /\ Where' = Where
  BY DEF Framed, Where
<1>4. last = TRUE \/ Len(d) > 0
  <2>1. Len(d) = Len(o.buf) - o.frag - Word
    BY BufferSplit
  <2>2. Len(o.buf) \in Nat /\ o.frag \in Nat /\ Word \in Nat
    BY WordFacts DEF IInv, TypeOK
  <2> HIDE DEF d
  <2> QED
    BY <2>1, <2>2
<1> HIDE DEF d
<1>5. FramedBy(Where, a, <<>>) /\ Shows(Where, a, <<>>) = Shows(Where, Ahead, d) \o Trailer(last)
  BY <1>1, <1>3, <1>4, Ships
<1>6. f \in Seq(Byte)
  BY <1>1, <1>3, HeaderAdded
<1> HIDE DEF f
<1>7. Ahead' = a
  <2>1. Rejoined(r.hdr, r.buf, wire, Sent, f)
    BY <1>1, <1>6, Rejoin
  <2>2. Ahead' = r.hdr \o (r.buf \o (wire' \o Sent'))
    BY DEF Ahead
  <2> QED
    BY <1>2, <2>1, <2>2, Zenon DEF Rejoined, Ahead
<1> HIDE DEF a
<1>8. Framed'
  <2>1. FramedBy(Where', Ahead', Open')
    BY <1>3, <1>5, <1>7, Zenon
  <2>2. r'.hdr # <<>> => r'.fbtbc = 0 /\ r'.last_frag = FALSE
    BY DEF Framed
  <2> QED
    BY <2>1, <2>2 DEF Framed
<1>9. Unread = Shows(Where, Ahead, d)
  BY UnreadIs DEF d
<1>10. Unread' = Shows(Where', Ahead', Open')
  BY <1>8, UnreadNext
<1>11. Unread' = Shows(Where, a, <<>>)
  BY <1>3, <1>7, <1>10, Zenon
<1> QED
  BY <1>5, <1>8, <1>9, <1>11, Zenon

LEMMA FlushShips ==
  ASSUME IInv, IInv', Framed, NEW last \in BOOLEAN, NEW sent \in BOOLEAN, NEW todo \in Nat,
         last = TRUE \/ Len(o.buf) > o.frag + Word, FlushOut(last, sent, todo)
  PROVE  /\ Framed' /\ Unread' = Unread \o Trailer(last)
         /\ UNCHANGED <<next, r, out>>
<1> DEFINE h == Header(0, FALSE)
           w == wire \o Headed(last)
<1>1. wire' = w /\ UNCHANGED <<r, next, out>> /\ o'.buf = h /\ o'.frag = 0
  BY DEF FlushOut, FreshOut
<1>2. h \in Seq(Byte) /\ Len(h) = Word /\ Word \in Nat
  BY HeaderBytes, WordFacts
<1>3. w \in Seq(Byte)
  BY HeadedBytes, ConcatProperties DEF IInv, TypeOK
<1> HIDE DEF h
<1>4. Sent' = <<>>
  <2>1. SubSeq(h, 1, 0) = <<>>
    BY <1>2, NoneBetween
  <2> QED
    BY <1>1, <2>1 DEF Sent
<1>5. Open' = <<>>
  <2>1. From(h, Len(h)) = <<>> /\ 0 + Word = Len(h)
    BY <1>2, NoneBetween
  <2>2. Open' = From(h, 0 + Word)
    BY <1>1 DEF Open
  <2> QED
    BY <2>1, <2>2
<1>6. wire' \o Sent' = w
  <2> HIDE DEF w
  <2>1. w \o <<>> = w
    BY <1>3, ConcatEmptySeq
  <2> QED
    BY <1>1, <1>4, <2>1, Zenon
<1>7. UNCHANGED r
  BY <1>1
<1> QED
  BY <1>1, <1>5, <1>6, <1>7, ShipStep

LEMMA BatchShips ==
  ASSUME IInv, IInv', Framed, NEW now \in BOOLEAN, EndOfRecord(now),
         ~(now \/ o.frag_sent \/ Len(o.buf) + Word >= OutSize)
  PROVE  /\ Framed' /\ Unread' = Unread \o Trailer(TRUE)
         /\ UNCHANGED <<next, r, out>>
<1> DEFINE h == Headed(TRUE)
           e == Header(0, FALSE)
           b == h \o e
           k == Len(o.buf)
<1>1. o'.buf = b /\ o'.frag = k /\ UNCHANGED <<r, wire, next, out>>
  BY DEF EndOfRecord, IInv, TypeOK
<1>2. h \in Seq(Byte) /\ Len(h) = k
  BY HeadedBytes DEF IInv
<1>3. e \in Seq(Byte) /\ Len(e) = Word /\ Word \in Nat
  BY HeaderBytes, WordFacts
<1> HIDE DEF h, e, k
<1>4. Sent' = h
  <2>1. SubSeq(h \o e, 1, Len(h)) = h
    BY <1>2, <1>3, CutJoined
  <2>2. Sent' = SubSeq(h \o e, 1, k)
    BY <1>1 DEF Sent
  <2> QED
    BY <1>2, <2>1, <2>2
<1>5. Open' = <<>>
  <2>1. b \in Seq(Byte) /\ Len(b) = Len(h) + Len(e)
    BY <1>2, <1>3, ConcatProperties
  <2> HIDE DEF b
  <2>2. From(b, Len(b)) = <<>>
    BY <2>1, NoneBetween
  <2>3. Open' = From(b, k + Word)
    BY <1>1 DEF Open
  <2>4. Len(b) = k + Word
    BY <1>2, <1>3, <2>1
  <2> QED
    BY <2>2, <2>3, <2>4
<1>6. wire' \o Sent' = wire \o Headed(TRUE)
  BY <1>1, <1>4, Zenon DEF h
<1>7. UNCHANGED r
  BY <1>1
<1> HIDE DEF b
<1>8. Framed' /\ Unread' = Unread \o Trailer(TRUE)
  BY <1>5, <1>6, <1>7, ShipStep
<1> QED
  BY <1>1, <1>8

LEMMA StoreAdds ==
  ASSUME IInv, IInv', Framed, NEW k \in Nat, NEW todo \in Nat, Store(k, todo)
  PROVE  /\ Framed' /\ Unread' = Unread \o [i \in 1 .. k |-> (next + i - 1) % Tags]
         /\ UNCHANGED <<r, out>> /\ next' = (next + k) % Tags
<1> DEFINE d == [i \in 1 .. k |-> DataByte(next + i - 1)]
           v == [i \in 1 .. k |-> (next + i - 1) % Tags]
           b == o.buf \o d
<1>1. /\ o'.buf = b /\ o'.frag = o.frag
      /\ next' = (next + k) % Tags /\ UNCHANGED <<r, wire, out>>
  BY DEF Store, IInv, TypeOK
<1>2. /\ o.buf \in Seq(Byte) /\ next \in Nat /\ Tags \in Nat \ {0} /\ Word \in Nat \ {0}
      /\ o.frag \in Nat /\ o.frag + Word <= Len(o.buf) /\ Len(o.buf) \in Nat
  BY WordFacts DEF IInv, TypeOK
<1>3. ASSUME NEW n \in Nat
      PROVE  /\ DataByte(n) \in Byte /\ DataByte(n)[1] = 0 /\ DataByte(n)[2] = n % Tags
  <2>1. n % Tags \in Nat
    BY <1>2
  <2>2. ASSUME NEW m \in Nat
        PROVE  <<0, m, FALSE>> \in Byte
    <3>1. 0 \in 0 .. Word
      BY <1>2
    <3> QED
      BY <3>1 DEF Byte
  <2> QED
    BY <2>1, <2>2 DEF DataByte
<1>4. \A i \in 1 .. k : next + i - 1 \in Nat
  BY <1>2
<1>5. d \in [1 .. k -> Byte]
  BY <1>3, <1>4
<1>6. d \in Seq(Byte) /\ Len(d) = k
  BY <1>5, FunctionIsSeq
<1>7. \A i \in 1 .. k : d[i][1] = 0 /\ d[i][2] = (next + i - 1) % Tags
  BY <1>3, <1>4
<1> HIDE DEF d
<1>8. AllData(d) /\ Vals(d) = v
  BY <1>6, <1>7 DEF AllData, Vals
<1>9. Sent' = Sent /\ Open' = Open \o d
  <2> DEFINE m == o.frag + Word
             n == o.frag
             x == o.buf
  <2>1. m \in 0 .. Len(x) /\ n \in 0 .. Len(x)
    BY <1>2
  <2>2. x \in Seq(Byte) /\ d \in Seq(Byte)
    BY <1>2, <1>6
  <2> HIDE DEF m, n, x
  <2>3. \A i \in 0 .. Len(x) : /\ SubSeq(x \o d, 1, i) = SubSeq(x, 1, i)
                              /\ From(x \o d, i) = From(x, i) \o d
    BY <2>2, CutJoined
  <2>4. SubSeq(x \o d, 1, n) = SubSeq(x, 1, n) /\ From(x \o d, m) = From(x, m) \o d
    BY <2>1, <2>3, Zenon
  <2> QED
    BY <1>1, <2>4 DEF Sent, Open, m, n, x
<1> HIDE DEF v, b
<1>10. /\ Where \in Parser /\ Ahead \in Seq(Byte) /\ Open \in Seq(Byte)
  BY StandsTyped
<1>11. /\ FramedBy(Where, Ahead, Open \o d)
       /\ Shows(Where, Ahead, Open \o d) = Shows(Where, Ahead, Open) \o Vals(d)
  BY <1>6, <1>8, <1>10, DataAdded DEF Framed
<1>12. Where' = Where /\ Ahead' = Ahead
  BY <1>1, <1>9 DEF Where, Ahead
<1>13. Framed'
  <2>1. FramedBy(Where', Ahead', Open')
    BY <1>9, <1>11, <1>12, Zenon
  <2>2. r'.hdr # <<>> => r'.fbtbc = 0 /\ r'.last_frag = FALSE
    BY <1>1 DEF Framed
  <2> QED
    BY <2>1, <2>2 DEF Framed
<1>14. Unread = Shows(Where, Ahead, Open)
  BY UnreadIs
<1>15. Unread' = Shows(Where', Ahead', Open')
  BY <1>13, UnreadNext
<1>16. Unread' = Unread \o v
  BY <1>8, <1>9, <1>11, <1>12, <1>14, <1>15, Zenon
<1> QED
  BY <1>1, <1>13, <1>16 DEF v

-----------------------------------------------------------------------------
(* The reader's steps.                                                     *)

LEMMA ReadStep ==
  ASSUME IInv, IInv', UNCHANGED o, FramedBy(Where', Ahead', Open),
         r'.hdr # <<>> => r'.fbtbc = 0 /\ r'.last_frag = FALSE
  PROVE  Framed' /\ Unread' = Shows(Where', Ahead', Open)
<1>1. Open' = Open
  BY DEF Open
<1>2. Framed'
  <2>1. FramedBy(Where', Ahead', Open')
    BY <1>1
  <2> QED
    BY <2>1 DEF Framed
<1>3. Unread' = Shows(Where', Ahead', Open')
  BY <1>2, UnreadNext
<1> QED
  BY <1>1, <1>2, <1>3, Zenon

\* Bytes that only move, from the connection or into a part of a header.
LEMMA MoveStep ==
  ASSUME IInv, IInv', Framed, UNCHANGED o, Ahead' = Ahead,
         r'.fbtbc = r.fbtbc, r'.last_frag = r.last_frag,
         \/ r'.hdr = r.hdr
         \/ r.fbtbc = 0 /\ r.last_frag = FALSE
  PROVE  Framed' /\ Unread' = Unread
<1>1. Where' = Where
  BY DEF Where
<1>2. FramedBy(Where', Ahead', Open)
  BY <1>1 DEF Framed
<1>3. r'.hdr # <<>> => r'.fbtbc = 0 /\ r'.last_frag = FALSE
  <2>1. CASE r'.hdr = r.hdr
    BY <2>1 DEF Framed
  <2>2. CASE r.fbtbc = 0 /\ r.last_frag = FALSE
    BY <2>2
  <2> QED
    BY <2>1, <2>2
<1>4. Framed' /\ Unread' = Shows(Where', Ahead', Open)
  BY <1>2, <1>3, ReadStep
<1>5. Unread = Shows(Where, Ahead, Open)
  BY UnreadIs
<1> QED
  BY <1>1, <1>4, <1>5, Zenon

LEMMA EatenFields ==
  ASSUME IInv, NEW k \in Nat, k <= Len(r.buf)
  PROVE  /\ Eaten(k) \in Reading /\ Eaten(k).buf = From(r.buf, k)
         /\ Eaten(k).hdr = r.hdr /\ Eaten(k).fbtbc = r.fbtbc
         /\ Eaten(k).last_frag = r.last_frag /\ Eaten(k).op = r.op
<1>1. Eaten(k) \in Reading
  BY EatenSound DEF InSound
<1>2. r \in Reading
  BY ReaderFacts DEF InSound
<1>3. Eaten(k) = [r EXCEPT !.buf = From(r.buf, k), !.finger = r.finger + k,
                           !.pos = (r.pos + k) % Word]
  BY DEF Eaten
<1> QED
  BY <1>1, <1>2, <1>3 DEF Reading

\* Taking k bytes of a fragment's data.
LEMMA TakeStep ==
  ASSUME IInv, IInv', Framed, UNCHANGED <<o, wire>>,
         NEW k \in Nat, k > 0, k <= Len(r.buf), k <= r.fbtbc,
         r'.buf = From(r.buf, k), r'.hdr = r.hdr,
         r'.fbtbc = r.fbtbc - k, r'.last_frag = r.last_frag
  PROVE  /\ Framed' /\ Unread = Data(k) \o Unread'
         /\ Data(k) \in Seq(Nat) /\ Len(Data(k)) = k /\ Unread' \in Seq(Token)
<1> DEFINE n == r.fbtbc
           b == r.last_frag
           c == SubSeq(r.buf, 1, k)
           y == From(r.buf, k)
           ws == wire \o Sent
           z == y \o ws
           d == Open
           l == n - k
<1>1. /\ n \in Nat /\ b \in BOOLEAN /\ d \in Seq(Byte) /\ Sent \in Seq(Byte)
      /\ r.buf \in Seq(Byte) /\ wire \in Seq(Byte) /\ Ahead \in Seq(Byte)
  BY StandsTyped
<1>2. /\ c \in Seq(Byte) /\ Len(c) = k /\ y \in Seq(Byte) /\ r.buf = c \o y
  <2>1. k \in 0 .. Len(r.buf)
    OBVIOUS
  <2>2. c \in Seq(Byte) /\ Len(c) = k /\ y \in Seq(Byte)
    BY <1>1, <2>1, FrontAndRest
  <2>3. r.buf = c \o y
    BY <1>1, <2>1, Cut
  <2> QED
    BY <2>2, <2>3
<1>3. \A i \in 1 .. k : c[i] = r.buf[i]
  BY <1>1
<1>4. ws \in Seq(Byte)
  BY <1>1, Joins3
<1>5. r.hdr = <<>> /\ l \in Nat
  BY <1>1 DEF Framed
<1> HIDE DEF c, y, ws
<1>6. z \in Seq(Byte) /\ Joined(c, y, ws) /\ c \o z \in Seq(Byte)
  <2>1. z \in Seq(Byte) /\ Joined(c, y, ws)
    BY <1>2, <1>4, Joins3
  <2> HIDE DEF z
  <2> QED
    BY <1>2, <2>1, Joins3
<1>7. Ahead = c \o z
  <2>1. Ahead = <<>> \o (r.buf \o ws)
    BY <1>5, Zenon DEF Ahead, ws
  <2>2. r.buf \o ws = c \o z
    BY <1>2, <1>6, Zenon DEF Joined
  <2>3. <<>> \o (c \o z) = c \o z
    BY <1>6, ConcatEmptySeq
  <2> QED
    BY <2>1, <2>2, <2>3, Zenon
<1>8. Ahead' = z
  <2>1. Sent' = Sent
    BY DEF Sent
  <2>2. Ahead' = <<>> \o (r'.buf \o (wire' \o Sent'))
    BY <1>5 DEF Ahead
  <2>3. Ahead' = <<>> \o z
    BY <2>1, <2>2 DEF ws, y
  <2>4. <<>> \o z = z
    BY <1>6, ConcatEmptySeq
  <2> QED
    BY <2>3, <2>4, Zenon
<1>9. Where = At(n, b) /\ Where' = At(l, b)
  BY DEF Where
<1>10. FramedBy(At(n, b), c \o z, d)
  BY <1>7, <1>9, Zenon DEF Framed
<1> HIDE DEF z, d
<1>11. /\ AllData(c) /\ FramedBy(At(l, b), z, d)
       /\ Shows(At(n, b), c \o z, d) = Vals(c) \o Shows(At(l, b), z, d)
  <2>1. Len(c) <= n /\ n - Len(c) = l
    BY <1>2
  <2>2. /\ AllData(c) /\ FramedBy(At(n - Len(c), b), z, d)
        /\ Shows(At(n, b), c \o z, d) = Vals(c) \o Shows(At(n - Len(c), b), z, d)
    <3> HIDE DEF n, b, l
    <3>1. /\ n \in Nat /\ b \in BOOLEAN /\ c \in Seq(Byte) /\ z \in Seq(Byte)
          /\ d \in Seq(Byte) /\ Len(c) <= n
      BY <1>1, <1>2, <1>6, <2>1 DEF d
    <3> QED
      BY <1>10, <3>1, DataTaken
  <2> QED
    BY <2>1, <2>2, Zenon
<1>12. Data(k) = Vals(c)
  <2>1. \A i \in 1 .. k : c[i][1] = 0
    BY <1>2, <1>11 DEF AllData
  <2>2. \A i \in 1 .. k : r.buf[i][2] = IF c[i][1] = 0 THEN c[i][2] ELSE -1
    BY <1>3, <2>1
  <2> QED
    BY <1>2, <2>2 DEF Data, Vals
<1>13. Framed' /\ Unread' = Shows(At(l, b), z, d)
  <2>1. r'.hdr = <<>>
    BY <1>5
  <2>2. FramedBy(Where', Ahead', Open)
    BY <1>8, <1>9, <1>11, Zenon DEF d
  <2>3. Framed' /\ Unread' = Shows(Where', Ahead', Open)
    BY <2>1, <2>2, ReadStep
  <2> QED
    BY <1>8, <1>9, <2>3, Zenon DEF d
<1>14. Unread = Shows(At(n, b), c \o z, d)
  <2>1. Unread = Shows(Where, Ahead, Open)
    BY UnreadIs
  <2> QED
    BY <1>7, <1>9, <2>1, Zenon DEF d
<1>15. Data(k) \in Seq(Nat) /\ Len(Data(k)) = k
  <2>1. Len(Vals(c)) = k
    BY <1>2, ValsTyped
  <2> QED
    BY <1>12, <2>1, DataIsSeq
<1>16. Unread' \in Seq(Token)
  <2>1. At(l, b) \in Parser
    <3> HIDE DEF l, b
    <3> QED
      BY <1>1, <1>5, AtTyped
  <2> QED
    BY <1>1, <1>6, <1>13, <2>1, ShowsTyped DEF d
<1> QED
  BY <1>11, <1>12, <1>13, <1>14, <1>15, <1>16, Zenon

LEMMA TokensBoth ==
  ASSUME NEW c \in Seq(Token), NEW t \in Seq(Token)
  PROVE  /\ Len(c \o t) = Len(c) + Len(t) /\ Len(t) \in Nat /\ Len(c) \in Nat
         /\ \A i \in 1 .. Len(c) : (c \o t)[i] = c[i]
<1>1. \A i \in 1 .. Len(c) + Len(t) :
        (c \o t)[i] = IF i <= Len(c) THEN c[i] ELSE t[i - Len(c)]
  BY ConcatProperties
<1>2. \A i \in 1 .. Len(c) : i \in 1 .. Len(c) + Len(t) /\ i <= Len(c)
  OBVIOUS
<1>3. Len(c \o t) = Len(c) + Len(t)
  BY ConcatProperties
<1> QED
  BY <1>1, <1>2, <1>3

\* The first k tokens of s are data, c, and t is what follows them.
DropsTo(s, k, c, t) ==
  /\ k <= Len(s) /\ \A i \in 1 .. k : s[i] # EOR
  /\ t = SubSeq(s, k + 1, Len(s)) /\ SubSeq(s, 1, k) = c

\* ... takes them off the specification's stream.
LEMMA Drops ==
  ASSUME NEW s, NEW t \in Seq(Token), NEW c \in Seq(Nat), s = c \o t, NEW k \in Nat,
         Len(c) = k
  PROVE  DropsTo(s, k, c, t)
<1>1. c \in Seq(Token) /\ \A i \in 1 .. k : c[i] \in Nat
  BY DEF Token
<1>2. /\ Len(c \o t) = Len(c) + Len(t) /\ Len(t) \in Nat
      /\ \A i \in 1 .. Len(c) : (c \o t)[i] = c[i]
  BY <1>1, TokensBoth
<1>3. k <= Len(s)
  BY <1>2
<1>4. ASSUME NEW i \in 1 .. k
      PROVE  s[i] # EOR
  <2>2. s[i] = c[i]
    BY <1>2
  <2>3. c[i] \in Int /\ EOR \notin Int
    BY <1>1, RecordAssumption
  <2> QED
    BY <2>2, <2>3
<1>5. SubSeq(c \o t, 1, Len(c)) = c /\ From(c \o t, Len(c)) = t
  BY <1>1, CutJoined
<1> QED
  BY <1>3, <1>4, <1>5 DEF From, DropsTo

LEMMA AtEnd == At(0, FALSE) \in Parser
BY AtTyped

\* The end of the record, with the last fragment used up.
LEMMA EndsHere ==
  ASSUME IInv, Framed, r.fbtbc = 0, r.last_frag = TRUE
  PROVE  /\ r.hdr = <<>> /\ FramedBy(At(0, FALSE), Ahead, Open)
         /\ Unread = <<EOR>> \o Shows(At(0, FALSE), Ahead, Open)
         /\ Shows(At(0, FALSE), Ahead, Open) \in Seq(Token)
<1>1. Ahead \in Seq(Byte) /\ Open \in Seq(Byte)
  BY StandsTyped
<1>2. Where = At(0, TRUE)
  BY DEF Where
<1>3. FramedBy(At(0, TRUE), Ahead, Open)
  BY <1>2 DEF Framed
<1>4. /\ FramedBy(At(0, FALSE), Ahead, Open)
      /\ Shows(At(0, TRUE), Ahead, Open) = <<EOR>> \o Shows(At(0, FALSE), Ahead, Open)
  BY <1>1, <1>3, EndTaken
<1>5. Unread = Shows(Where, Ahead, Open)
  BY UnreadIs
<1>6. r.hdr = <<>>
  BY DEF Framed
<1>7. Shows(At(0, FALSE), Ahead, Open) \in Seq(Token)
  <2> DEFINE q == At(0, FALSE)
  <2>1. q \in Parser
    BY AtEnd
  <2> HIDE DEF q
  <2>2. Shows(q, Ahead, Open) \in Seq(Token)
    BY <1>1, <2>1, ShowsTyped
  <2> QED
    BY <2>2 DEF q
<1> QED
  BY <1>2, <1>4, <1>5, <1>6, <1>7, Zenon

LEMMA EndFirst ==
  ASSUME NEW s, NEW t \in Seq(Token), s = <<EOR>> \o t
  PROVE  /\ s # <<>> /\ Head(s) = EOR /\ Tail(s) = t /\ Len(s) = 1 + Len(t)
         /\ s \in Seq(Token)
<1> DEFINE e == <<EOR>>
<1>1. e \in Seq(Token) /\ Len(e) = 1 /\ e[1] = EOR
  BY DEF Token
<1> HIDE DEF e
<1>2. /\ e \o t \in Seq(Token) /\ Len(e \o t) = Len(e) + Len(t) /\ Len(t) \in Nat
      /\ \A i \in 1 .. Len(e) + Len(t) : (e \o t)[i] = IF i <= Len(e) THEN e[i] ELSE t[i - Len(e)]
  <2>1. e \in Seq(Token)
    BY <1>1
  <2> QED
    BY <2>1, ConcatProperties
<1>3. From(e \o t, Len(e)) = t
  BY <1>1, CutJoined
<1>4. s = e \o t
  BY DEF e
<1>5. s \in Seq(Token) /\ Len(s) = 1 + Len(t) /\ s[1] = EOR
  <2>1. 1 \in 1 .. Len(e) + Len(t) /\ 1 <= Len(e)
    BY <1>1, <1>2
  <2> QED
    BY <1>1, <1>2, <1>4, <2>1
<1>6. SubSeq(s, 2, Len(s)) = t
  BY <1>1, <1>3, <1>4 DEF From
<1>7. s # <<>>
  BY <1>2, <1>5
<1>8. Head(s) = EOR
  BY <1>5, <1>7
<1>9. Tail(s) = SubSeq(s, 2, Len(s))
  BY <1>5, <1>7
<1> QED
  BY <1>5, <1>6, <1>7, <1>8, <1>9

-----------------------------------------------------------------------------
(* Each step is one of the specification's, or leaves its state alone.     *)

Keeps == UNCHANGED <<Unread, next, r.op, out>>
Refines == Abstract!RNext \/ Keeps

LEMMA PutRefines ==
  ASSUME IInv, IInv', Framed, NEW k \in 1 .. OutSize, NEW todo \in Nat, Store(k, todo)
  PROVE  Framed' /\ Refines
<1>1. k \in Nat /\ k \in 1 .. OutSize + InSize
  BY WordFacts
<1>2. /\ Framed' /\ Unread' = Unread \o [i \in 1 .. k |-> (next + i - 1) % Tags]
      /\ UNCHANGED <<r, out>> /\ next' = (next + k) % Tags
  BY <1>1, StoreAdds
<1>3. Abstract!Put(k)
  BY <1>2 DEF Abstract!Put
<1> QED
  BY <1>1, <1>2, <1>3 DEF Refines, Abstract!RNext

LEMMA SendRefines ==
  ASSUME IInv, IInv', Framed, Framed', NEW last \in BOOLEAN,
         Unread' = Unread \o Trailer(last), UNCHANGED <<next, r, out>>
  PROVE  Refines
<1>1. Unread \in Seq(Token)
  <2>1. Unread = Shows(Where, Ahead, Open)
    BY UnreadIs
  <2> QED
    BY <2>1, StandsTyped, ShowsTyped
<1>2. CASE last = TRUE
  <2>1. Trailer(last) = <<EOR>>
    BY <1>2 DEF Trailer
  <2>2. EOR \in Token
    BY DEF Token
  <2>3. Append(Unread, EOR) = Unread \o <<EOR>>
    BY <1>1, <2>2, AppendIsConcat
  <2>4. Unread' = Append(Unread, EOR)
    BY <2>1, <2>3, Zenon
  <2>5. Abstract!End
    BY <2>4 DEF Abstract!End
  <2> QED
    BY <2>5 DEF Refines, Abstract!RNext
<1>3. CASE last = FALSE
  <2>1. Trailer(last) = <<>>
    BY <1>3 DEF Trailer
  <2>2. Unread \o <<>> = Unread
    BY <1>1, ConcatEmptySeq
  <2>3. Unread' = Unread
    BY <2>1, <2>2, Zenon
  <2>4. Keeps
    BY <2>3 DEF Keeps
  <2> QED
    BY <2>4 DEF Refines
<1> QED
  BY <1>2, <1>3

LEMMA FlushRefines ==
  ASSUME IInv, IInv', Framed, NEW last \in BOOLEAN, NEW sent \in BOOLEAN, NEW todo \in Nat,
         last = TRUE \/ Len(o.buf) > o.frag + Word, FlushOut(last, sent, todo)
  PROVE  Framed' /\ Refines
BY FlushShips, SendRefines

LEMMA SenderRefines ==
  ASSUME IInv, IInv', Framed, Sender
  PROVE  Framed' /\ Refines
<1>1. /\ o.todo \in Nat /\ Room \in Nat /\ Room <= OutSize /\ OutSize \in Nat
      /\ Word \in 1 .. OutSize /\ Word \in Nat
  <2>1. Room \in Nat
    BY RoomIsWords
  <2>2. o.todo \in Nat /\ Len(o.buf) \in Nat
    BY DEF IInv, TypeOK
  <2> QED
    BY <2>1, <2>2, WordFacts DEF Room
<1>2. Room < Word => Len(o.buf) > o.frag + Word
  BY RoomIsWords
<1>3. ASSUME NEW n \in Nat, n > 0, Room > 0
      PROVE  Least(n, Room) \in 1 .. OutSize /\ n - Least(n, Room) \in Nat
  BY <1>1, <1>3 DEF Least
<1>4. \A n \in Puts : n \in Nat /\ n > 0
  BY RecordAssumption
<1>5. CASE PutLong
  <2>1. CASE Word > Room
    <3>1. FlushOut(FALSE, TRUE, Word)
      BY <1>5, <2>1 DEF PutLong
    <3>2. Len(o.buf) > o.frag + Word
      BY <1>1, <1>2, <2>1
    <3> QED
      BY <1>1, <3>1, <3>2, FlushRefines
  <2>2. CASE ~(Word > Room)
    <3>1. Store(Word, 0)
      BY <1>5, <2>2 DEF PutLong
    <3> QED
      BY <1>1, <3>1, PutRefines
  <2> QED
    BY <2>1, <2>2
<1>6. CASE PutMore
  <2>1. CASE Room = 0
    <3>1. FlushOut(FALSE, TRUE, o.todo)
      BY <1>6, <2>1 DEF PutMore
    <3>2. Len(o.buf) > o.frag + Word
      BY <1>1, <1>2, <2>1
    <3> QED
      BY <1>1, <3>1, <3>2, FlushRefines
  <2>2. CASE Room # 0
    <3> DEFINE n == o.todo
    <3>1. Store(Least(n, Room), n - Least(n, Room)) /\ n > 0 /\ Room > 0
      BY <1>1, <1>6, <2>2 DEF PutMore
    <3>2. Least(n, Room) \in 1 .. OutSize /\ n - Least(n, Room) \in Nat
      BY <1>1, <1>3, <3>1
    <3> HIDE DEF n
    <3> QED
      BY <3>1, <3>2, PutRefines
  <2> QED
    BY <2>1, <2>2
<1>7. ASSUME NEW n \in Puts, PutBytes(n)
      PROVE  Framed' /\ Refines
  <2>1. Store(Least(n, Room), n - Least(n, Room)) /\ n > 0 /\ Room > 0
    BY <1>4, <1>7 DEF PutBytes
  <2>2. Least(n, Room) \in 1 .. OutSize /\ n - Least(n, Room) \in Nat
    BY <1>3, <1>4, <2>1
  <2> QED
    BY <2>1, <2>2, PutRefines
<1>8. ASSUME NEW n \in Puts, PutFull(n)
      PROVE  Framed' /\ Refines
  <2>1. FlushOut(FALSE, TRUE, n) /\ Room = 0
    BY <1>8 DEF PutFull
  <2>2. Len(o.buf) > o.frag + Word
    BY <1>1, <1>2, <2>1
  <2> QED
    BY <1>4, <2>1, <2>2, FlushRefines
<1>9. ASSUME NEW n \in Puts, PutInline(n)
      PROVE  Framed' /\ Refines
  <2>1. Store(n, 0) /\ n \in 1 .. OutSize
    BY <1>1, <1>4, <1>9 DEF PutInline
  <2> QED
    BY <2>1, PutRefines
<1>10. ASSUME NEW now \in BOOLEAN, EndOfRecord(now)
       PROVE  Framed' /\ Refines
  <2>1. CASE now \/ o.frag_sent \/ Len(o.buf) + Word >= OutSize
    <3>1. FlushOut(TRUE, FALSE, 0)
      BY <1>10, <2>1 DEF EndOfRecord
    <3> QED
      BY <3>1, FlushRefines
  <2>2. CASE ~(now \/ o.frag_sent \/ Len(o.buf) + Word >= OutSize)
    <3>1. /\ Framed' /\ Unread' = Unread \o Trailer(TRUE)
          /\ UNCHANGED <<next, r, out>>
      BY <1>10, <2>2, BatchShips
    <3> QED
      BY <3>1, SendRefines
  <2> QED
    BY <2>1, <2>2
<1> QED
  BY <1>5, <1>6, <1>7, <1>8, <1>9, <1>10 DEF Sender

LEMMA FillRefines ==
  ASSUME IInv, IInv', Framed, Fill
  PROVE  Framed' /\ Refines
<1> DEFINE i == (r.finger + Len(r.buf)) % Word
<1>1. /\ r.buf \in Seq(Byte) /\ wire \in Seq(Byte) /\ Sent \in Seq(Byte) /\ r \in Reading
      /\ Word \in Nat \ {0} /\ InSize \in Nat
  BY StandsTyped, ReaderFacts, WordFacts DEF InSound
<1>2. i \in Nat
  <2>1. r.finger + Len(r.buf) \in Nat
    BY <1>1 DEF Reading
  <2> QED
    BY <1>1, <2>1, Quotient
<1>3. PICK n \in 1 .. Least(Len(wire), InSize - i) :
        /\ r' = [r EXCEPT !.buf = SubSeq(wire, 1, n), !.finger = i]
        /\ wire' = From(wire, n)
  BY DEF Fill
<1>4. r.buf = <<>> /\ UNCHANGED <<o, next, out>>
  BY DEF Fill
<1> HIDE DEF i
<1>5. n \in 0 .. Len(wire)
  BY <1>1, <1>2 DEF Least
<1> DEFINE a == SubSeq(wire, 1, n)
           b == From(wire, n)
<1>6. a \in Seq(Byte) /\ b \in Seq(Byte) /\ wire = a \o b
  BY <1>1, <1>5, FrontAndRest, Cut
<1>7. /\ r'.buf = a /\ wire' = b /\ r'.hdr = r.hdr /\ r'.fbtbc = r.fbtbc
      /\ r'.last_frag = r.last_frag /\ r'.op = r.op
  BY <1>1, <1>3 DEF Reading
<1> HIDE DEF a, b
<1>8. Ahead' = Ahead
  <2>1. Sent' = Sent
    BY <1>4 DEF Sent
  <2>2. Ahead' = r.hdr \o (a \o (b \o Sent))
    BY <1>7, <2>1 DEF Ahead
  <2>3. Joined(a, b, Sent)
    BY <1>1, <1>6, Joins3
  <2>4. a \o (b \o Sent) = wire \o Sent
    BY <1>6, <2>3, Zenon DEF Joined
  <2>5. <<>> \o (wire \o Sent) = wire \o Sent
    <3> DEFINE c == wire \o Sent
    <3>1. c \in Seq(Byte)
      BY <1>1, Joins3
    <3> HIDE DEF c
    <3>2. <<>> \o c = c
      BY <3>1, ConcatEmptySeq
    <3> QED
      BY <3>2 DEF c
  <2>6. Ahead = r.hdr \o (<<>> \o (wire \o Sent))
    BY <1>4 DEF Ahead
  <2> QED
    BY <2>2, <2>4, <2>5, <2>6, Zenon
<1>9. Framed' /\ Unread' = Unread
  <2>1. UNCHANGED o
    BY <1>4
  <2> QED
    BY <1>7, <1>8, <2>1, MoveStep
<1> QED
  BY <1>4, <1>7, <1>9 DEF Refines, Keeps

LEMMA HeaderRefines ==
  ASSUME IInv, IInv', Framed, ReadHeader
  PROVE  Framed' /\ Refines
<1> DEFINE k    == Least(Word - Len(r.hdr), Len(r.buf))
           hdr  == r.hdr \o SubSeq(r.buf, 1, k)
           len  == hdr[1][2]
           last == hdr[1][3]
           y    == From(r.buf, k)
           ws   == wire \o Sent
           z    == y \o ws
<1>1. /\ r.hdr \in Seq(Byte) /\ r.buf \in Seq(Byte) /\ wire \in Seq(Byte) /\ Sent \in Seq(Byte)
      /\ Open \in Seq(Byte) /\ Ahead \in Seq(Byte)
      /\ Len(r.hdr) \in Nat /\ Len(r.hdr) < Word /\ Word \in Nat \ {0} /\ Len(r.buf) \in Nat
  BY StandsTyped, ReaderFacts, WordFacts DEF InSound
<1>2. k > 0 /\ r.fbtbc = 0 /\ r.last_frag = FALSE /\ UNCHANGED <<o, wire, next>>
  BY DEF ReadHeader, IInv, TypeOK
<1>3. k \in Nat /\ k <= Len(r.buf) /\ k <= Word - Len(r.hdr) /\ k \in 0 .. Len(r.buf)
  <2>1. Word - Len(r.hdr) \in Nat
    BY <1>1
  <2>2. k \in Nat /\ k <= Len(r.buf) /\ k <= Word - Len(r.hdr)
    BY <1>1, <2>1, LeastIsLeast
  <2> QED
    BY <1>1, <2>2
<1> HIDE DEF k
<1> DEFINE c == SubSeq(r.buf, 1, k)
<1>4. c \in Seq(Byte) /\ Len(c) = k /\ y \in Seq(Byte) /\ r.buf = c \o y
  BY <1>1, <1>3, FrontAndRest, Cut, ZenonT(60)
<1> HIDE DEF c, y
<1>5. hdr \in Seq(Byte) /\ Len(hdr) = Len(r.hdr) + k
  <2>1. r.hdr \o c \in Seq(Byte) /\ Len(r.hdr \o c) = Len(r.hdr) + Len(c)
    BY <1>1, <1>4, ConcatProperties
  <2> QED
    BY <1>4, <2>1 DEF c
<1>6. ws \in Seq(Byte)
  BY <1>1, Joins3
<1> HIDE DEF ws
<1>7. z \in Seq(Byte) /\ Joined(c, y, ws)
  BY <1>4, <1>6, Joins3
<1> HIDE DEF z
<1>8. Ahead = hdr \o z
  <2>1. Joined(r.hdr, c, z)
    BY <1>1, <1>4, <1>7, Joins3
  <2> QED
    BY <1>4, <1>7, <2>1, Zenon DEF Joined, Ahead, ws, z, c
<1>9. ws = wire' \o Sent'
  BY <1>2 DEF ws, Sent
<1>10. /\ Eaten(k) \in Reading /\ Eaten(k).buf = y
       /\ Eaten(k).hdr = r.hdr /\ Eaten(k).fbtbc = r.fbtbc
       /\ Eaten(k).last_frag = r.last_frag /\ Eaten(k).op = r.op
  BY <1>3, EatenFields DEF y
<1>11. CASE Len(hdr) < Word
  <2>1. r' = [Eaten(k) EXCEPT !.hdr = hdr] /\ out' = out
    BY <1>11 DEF ReadHeader, k
  <2> HIDE DEF hdr
  <2>2. /\ r'.hdr = hdr /\ r'.buf = y /\ r'.fbtbc = r.fbtbc /\ r'.last_frag = r.last_frag
        /\ r'.op = r.op
    BY <1>10, <2>1 DEF Reading
  <2>3. Ahead' = Ahead
    BY <1>8, <1>9, <2>2 DEF Ahead, z
  <2>4. Framed' /\ Unread' = Unread
    <3>1. UNCHANGED o /\ r.fbtbc = 0 /\ r.last_frag = FALSE
      BY <1>2
    <3> QED
      BY <2>2, <2>3, <3>1, MoveStep
  <2> QED
    BY <1>2, <2>1, <2>2, <2>4 DEF Refines, Keeps
<1>12. CASE ~(Len(hdr) < Word)
  <2> HIDE DEF hdr
  <2>1. Len(hdr) = Word
    BY <1>1, <1>3, <1>5, <1>12
  <2> DEFINE d == Open
             h == hdr
  <2>2. Where = At(0, FALSE)
    BY <1>2 DEF Where
  <2>3. FramedBy(At(0, FALSE), h \o z, d)
    BY <1>8, <2>2, Zenon DEF Framed
  <2>4. h \in Seq(Byte) /\ d \in Seq(Byte) /\ Len(h) = Word
    BY <1>1, <1>5, <2>1
  <2> HIDE DEF d, h
  <2>5. PICK l \in Nat, b \in BOOLEAN :
          /\ l > 0 \/ b = TRUE
          /\ h = Header(l, b)
          /\ FramedBy(At(l, b), z, d)
          /\ Shows(At(0, FALSE), h \o z, d) = Shows(At(l, b), z, d)
    BY <1>7, <2>3, <2>4, HeaderTaken
  <2>6. len = l /\ last = b
    <3>1. 1 \in 1 .. Word
      BY <1>1
    <3>2. h[1] = <<1, l, b>>
      BY <2>5, <3>1 DEF Header, HeaderByte
    <3>3. <<1, l, b>>[2] = l /\ <<1, l, b>>[3] = b
      OBVIOUS
    <3>4. len = h[1][2] /\ last = h[1][3]
      BY DEF h
    <3> HIDE DEF len, last
    <3> QED
      BY <3>2, <3>3, <3>4, Zenon
  <2> DEFINE s == [Eaten(k) EXCEPT !.hdr = <<>>, !.last_frag = last, !.fbtbc = len]
  <2>7. ~(len = 0 /\ ~last)
    <3> HIDE DEF len, last
    <3>1. l > 0 => ~(len = 0)
      BY <2>6
    <3>2. b = TRUE => last
      BY <2>6
    <3> QED
      BY <2>5, <3>1, <3>2
  <2>8. r' = s /\ out' = out
    BY <1>12, <2>7 DEF ReadHeader, k, hdr
  <2> HIDE DEF len, last
  <2>9. /\ r'.hdr = <<>> /\ r'.buf = y /\ r'.fbtbc = l /\ r'.last_frag = b /\ r'.op = r.op
    BY <1>10, <2>6, <2>8 DEF Reading
  <2>10. Ahead' = z
    <3>1. Ahead' = <<>> \o z
      BY <1>9, <2>9 DEF Ahead, z
    <3>2. <<>> \o z = z
      BY <1>7, ConcatEmptySeq
    <3> QED
      BY <3>1, <3>2, Zenon
  <2>11. Where' = At(l, b)
    BY <2>9 DEF Where
  <2>12. Framed' /\ Unread' = Shows(Where', Ahead', Open)
    <3>1. FramedBy(Where', Ahead', Open)
      BY <2>5, <2>10, <2>11, Zenon DEF d
    <3>2. UNCHANGED o
      BY <1>2
    <3> QED
      BY <2>9, <3>1, <3>2, ReadStep
  <2>13. Unread = Shows(Where, Ahead, Open)
    BY UnreadIs
  <2>14. Unread' = Unread
    BY <1>8, <2>2, <2>5, <2>10, <2>11, <2>12, <2>13, Zenon DEF h, d
  <2> QED
    BY <1>2, <2>8, <2>9, <2>12, <2>14 DEF Refines, Keeps
<1> QED
  BY <1>11, <1>12

\* What the three steps that take data do to the reader.
LEMMA Takes ==
  ASSUME IInv, IInv', Framed, NEW k \in Nat, k > 0, k <= Len(r.buf), k <= r.fbtbc,
         NEW op \in Op \cup {None}, UNCHANGED <<o, wire>>,
         r' = [Eaten(k) EXCEPT !.fbtbc = @ - k, !.op = op]
  PROVE  /\ Framed' /\ r'.op = op
         /\ Abstract!Drop(k)
         /\ SubSeq(Unread, 1, k) = Data(k)
         /\ Data(k) \in Seq(Nat) /\ Len(Data(k)) = k
         /\ k \in 1 .. OutSize + InSize
<1> DEFINE e == Eaten(k)
           n == r.fbtbc - k
<1>1. /\ e \in Reading /\ e.buf = From(r.buf, k) /\ e.hdr = r.hdr /\ e.fbtbc = r.fbtbc
      /\ e.last_frag = r.last_frag /\ e.op = r.op
  BY EatenFields
<1>2. r' = [e EXCEPT !.fbtbc = n, !.op = op]
  BY <1>1
<1>3. n \in Nat
  BY StandsTyped
<1> HIDE DEF e, n
<1>4. /\ r'.buf = From(r.buf, k) /\ r'.hdr = r.hdr /\ r'.fbtbc = n
      /\ r'.last_frag = r.last_frag /\ r'.op = op
  BY <1>1, <1>2, <1>3 DEF Reading
<1>5. /\ Framed' /\ Unread = Data(k) \o Unread'
      /\ Data(k) \in Seq(Nat) /\ Len(Data(k)) = k /\ Unread' \in Seq(Token)
  BY <1>4, TakeStep DEF n
<1> DEFINE s == Unread
           t == Unread'
           c == Data(k)
<1>6. DropsTo(s, k, c, t)
  <2> HIDE DEF s, t, c
  <2>1. t \in Seq(Token) /\ c \in Seq(Nat) /\ s = c \o t /\ Len(c) = k
    BY <1>5 DEF s, t, c
  <2> QED
    BY <2>1, Drops
<1>7. Abstract!Drop(k)
  BY <1>6 DEF Abstract!Drop, DropsTo
<1>8. k \in 1 .. OutSize + InSize
  <2>1. r.finger + Len(r.buf) <= InSize /\ r.finger \in Nat /\ Len(r.buf) \in Nat
    BY ReaderFacts DEF InSound, Reading
  <2> QED
    BY <2>1, WordFacts
<1>9. SubSeq(Unread, 1, k) = Data(k)
  BY <1>6 DEF DropsTo
<1> QED
  BY <1>4, <1>5, <1>7, <1>8, <1>9

LEMMA CopyRefines ==
  ASSUME IInv, IInv', Framed, Copy
  PROVE  Framed' /\ Refines
<1> DEFINE want  == r.op.want - Len(r.op.got)
           there == Least(r.fbtbc, Len(r.buf))
           k     == Least(want, there)
           got   == r.op.got \o Data(k)
           e     == Eaten(k)
           s     == [e EXCEPT !.fbtbc = @ - k]
           op1   == [r.op EXCEPT !.got = got]
<1>1. r.op \in Op /\ r.op # None /\ r.op.name = "get" /\ k > 0 /\ UNCHANGED <<o, wire, next>>
  BY DEF Copy, Return, Running, IInv, TypeOK
<1>2. r.op.want \in Nat /\ r.op.got \in Seq(Nat) /\ Len(r.op.got) \in Nat
  BY <1>1 DEF Op
<1>3. Len(r.buf) \in Nat /\ r.fbtbc \in Nat
  BY ReaderFacts
<1>4. k \in Nat /\ k <= Len(r.buf) /\ k <= r.fbtbc /\ k <= want
  <2>1. there \in Nat /\ there <= Len(r.buf) /\ there <= r.fbtbc
    BY <1>3, LeastIsLeast
  <2>2. want \in Int
    BY <1>2
  <2> HIDE DEF there, want
  <2>3. Least(want, there) > 0
    BY <1>1 DEF there
  <2>4. /\ Least(want, there) \in Nat /\ Least(want, there) <= there
        /\ Least(want, there) <= want
    BY <2>1, <2>2, <2>3 DEF Least
  <2> QED
    BY <1>3, <2>1, <2>4
<1>5. \/ k = want /\ r' = [s EXCEPT !.op = None] /\ out' = <<TRUE, got>>
      \/ k # want /\ r' = [s EXCEPT !.op.got = got] /\ out' = out
  BY DEF Copy, Return
<1>6. e.op = r.op /\ e \in Reading
  BY <1>4, EatenFields
<1>7. Data(k) \in Seq(Nat)
  BY <1>4, DataIsSeq
<1>8. got \in Seq(Nat) /\ Len(got) = Len(r.op.got) + Len(Data(k))
  BY <1>2, <1>7, ConcatProperties
<1> HIDE DEF got
<1>9. op1 \in Op
  BY <1>1, <1>8 DEF Op
<1> HIDE DEF e, k
<1>10. CASE k = want /\ r' = [s EXCEPT !.op = None] /\ out' = <<TRUE, got>>
  <2>1. r' = [e EXCEPT !.fbtbc = @ - k, !.op = None]
    BY <1>10
  <2>2. /\ Framed' /\ r'.op = None /\ Abstract!Drop(k)
        /\ SubSeq(Unread, 1, k) = Data(k) /\ Len(Data(k)) = k /\ k \in 1 .. OutSize + InSize
    BY <1>1, <1>4, <2>1, Takes DEF e
  <2>3. Len(got) = r.op.want /\ Len(r.op.got) + k <= r.op.want
    <3>1. k = r.op.want - Len(r.op.got)
      BY <1>10
    <3>2. Len(got) = Len(r.op.got) + k
      BY <1>8, <2>2
    <3> QED
      BY <1>2, <1>4, <3>1, <3>2
  <2>4. r.op.got \o SubSeq(Unread, 1, k) = got
    BY <2>2 DEF got
  <2>5. Abstract!Take(k)
    BY <1>1, <1>10, <2>2, <2>3, <2>4 DEF Abstract!Take
  <2> QED
    BY <2>2, <2>5 DEF Refines, Abstract!RNext
<1>11. CASE k # want /\ r' = [s EXCEPT !.op.got = got] /\ out' = out
  <2>1. r' = [e EXCEPT !.fbtbc = @ - k, !.op = op1]
    <3>1. s.op = r.op
      BY <1>6 DEF Reading
    <3>2. r' = [s EXCEPT !.op = op1]
      BY <1>11, <3>1
    <3> HIDE DEF op1
    <3> QED
      BY <3>2
  <2> HIDE DEF op1
  <2>2. /\ Framed' /\ r'.op = op1 /\ Abstract!Drop(k)
        /\ SubSeq(Unread, 1, k) = Data(k) /\ Len(Data(k)) = k /\ k \in 1 .. OutSize + InSize
    BY <1>1, <1>4, <1>9, <2>1, Takes DEF e
  <2>3. Len(got) # r.op.want /\ Len(r.op.got) + k <= r.op.want
    BY <1>2, <1>4, <1>8, <1>11, <2>2
  <2>4. r.op.got \o SubSeq(Unread, 1, k) = got
    BY <2>2 DEF got
  <2>5. Abstract!Take(k)
    BY <1>1, <1>11, <2>2, <2>3, <2>4 DEF Abstract!Take, op1
  <2> QED
    BY <2>2, <2>5 DEF Refines, Abstract!RNext
<1> QED
  BY <1>5, <1>10, <1>11

LEMMA SkipRefines ==
  ASSUME IInv, IInv', Framed, SkipBytes
  PROVE  Framed' /\ Refines
<1> DEFINE k == Least(r.fbtbc, Len(r.buf))
           e == Eaten(k)
<1>1. /\ r.op # None /\ r.op.name \in {"skip", "eof"} /\ k > 0
      /\ r' = [e EXCEPT !.fbtbc = @ - k] /\ UNCHANGED <<o, wire, next, out>>
  BY DEF SkipBytes, Return, Running
<1>2. r.op \in Op \cup {None}
  BY DEF IInv, TypeOK
<1>3. k \in Nat /\ k <= Len(r.buf) /\ k <= r.fbtbc
  BY ReaderFacts, LeastIsLeast
<1>4. e.op = r.op /\ e \in Reading
  BY <1>3, EatenFields
<1> HIDE DEF k, e
<1>5. r' = [e EXCEPT !.fbtbc = @ - k, !.op = r.op]
  BY <1>1, <1>4 DEF Reading
<1>6. Framed' /\ r'.op = r.op /\ Abstract!Drop(k) /\ k \in 1 .. OutSize + InSize
  BY <1>1, <1>2, <1>3, <1>5, Takes DEF e
<1>7. Abstract!Skip(k)
  BY <1>1, <1>6 DEF Abstract!Skip
<1> QED
  BY <1>6, <1>7 DEF Refines, Abstract!RNext

LEMMA InlineRefines ==
  ASSUME IInv, IInv', Framed, NEW k \in Gets, GetInline(k)
  PROVE  Framed' /\ Refines
<1> DEFINE e == Eaten(k)
<1>1. /\ r.op = None /\ k <= Len(r.buf) /\ k <= r.fbtbc
      /\ r' = [e EXCEPT !.fbtbc = @ - k] /\ UNCHANGED <<o, wire, next>>
      /\ out' = <<TRUE, Data(k)>>
  BY DEF GetInline, Return, Running
<1>2. r.op \in Op \cup {None}
  BY DEF IInv, TypeOK
<1>3. k \in Nat /\ k > 0
  BY RecordAssumption
<1>4. e.op = r.op /\ e \in Reading
  BY <1>1, <1>3, EatenFields
<1> HIDE DEF e
<1>5. r' = [e EXCEPT !.fbtbc = @ - k, !.op = r.op]
  BY <1>1, <1>4 DEF Reading
<1>6. /\ Framed' /\ r'.op = r.op /\ Abstract!Drop(k) /\ k \in 1 .. OutSize + InSize
      /\ SubSeq(Unread, 1, k) = Data(k)
  BY <1>1, <1>2, <1>3, <1>5, Takes DEF e
<1>7. Abstract!Inline(k)
  BY <1>1, <1>6 DEF Abstract!Inline
<1> QED
  BY <1>6, <1>7 DEF Refines, Abstract!RNext

LEMMA CallRefines ==
  ASSUME IInv, IInv', Framed, NEW name \in {"get", "skip", "eof"},
         NEW want \in 0 .. OutSize + InSize, Call(name, want)
  PROVE  Framed' /\ Refines
<1> DEFINE op == [name |-> name, want |-> want, got |-> <<>>]
<1>1. /\ r.op = None /\ r' = [r EXCEPT !.op = op] /\ UNCHANGED <<o, wire, next>> /\ out' = None
  BY DEF Call, Return, Running
<1>2. r \in Reading
  BY ReaderFacts DEF InSound
<1> HIDE DEF op
<1>3. /\ r'.op = op /\ r'.buf = r.buf /\ r'.hdr = r.hdr /\ r'.fbtbc = r.fbtbc
      /\ r'.last_frag = r.last_frag
  BY <1>1, <1>2 DEF Reading
<1>4. Ahead' = Ahead
  BY <1>1, <1>3 DEF Ahead, Sent
<1>6. Framed' /\ Unread' = Unread
  BY <1>1, <1>3, <1>4, MoveStep
<1>7. Abstract!Call(name, want)
  BY <1>1, <1>3, <1>6 DEF Abstract!Call, op
<1> QED
  BY <1>6, <1>7 DEF Refines, Abstract!RNext

LEMMA EndRefines ==
  ASSUME IInv, IInv', Framed, CopyFails \/ EofDone
  PROVE  Framed' /\ Refines
<1>1. /\ r.op # None /\ r.fbtbc = 0 /\ r.last_frag = TRUE
      /\ r' = [r EXCEPT !.op = None] /\ UNCHANGED <<o, wire, next>>
  BY DEF CopyFails, EofDone, Return, Running, IInv, TypeOK
<1>2. r \in Reading
  BY ReaderFacts DEF InSound
<1>3. /\ r'.op = None /\ r'.buf = r.buf /\ r'.hdr = r.hdr /\ r'.fbtbc = r.fbtbc
      /\ r'.last_frag = r.last_frag
  BY <1>1, <1>2 DEF Reading
<1>4. Ahead' = Ahead
  BY <1>1, <1>3 DEF Ahead, Sent
<1>6. Framed' /\ Unread' = Unread
  BY <1>1, <1>3, <1>4, MoveStep
<1> DEFINE t == Shows(At(0, FALSE), Ahead, Open)
           s == Unread
<1>7. /\ r.hdr = <<>> /\ FramedBy(At(0, FALSE), Ahead, Open)
      /\ s = <<EOR>> \o t /\ t \in Seq(Token)
  BY <1>1, EndsHere
<1> HIDE DEF t, s
<1>8. s # <<>> /\ Head(s) = EOR /\ Len(s) = 1 + Len(t) /\ Len(t) \in Nat
  BY <1>7, EndFirst
<1>9. Abstract!Ended
  BY <1>8 DEF Abstract!Ended, s
<1>10. CASE CopyFails
  <2>1. r.op.name = "get" /\ out' = <<FALSE, r.op.got>>
    BY <1>10 DEF CopyFails, Return
  <2>2. Abstract!Short
    BY <1>1, <1>3, <1>6, <1>9, <2>1 DEF Abstract!Short
  <2> QED
    BY <1>6, <2>2 DEF Refines, Abstract!RNext
<1>11. CASE EofDone
  <2>1. r.op.name = "eof" /\ out' = <<r.buf = <<>>, <<>>>>
    BY <1>11 DEF EofDone, Return
  <2>2. ASSUME r.buf # <<>>
        PROVE  Len(s) > 1
    <3>1. /\ r.buf \in Seq(Byte) /\ wire \in Seq(Byte) /\ Sent \in Seq(Byte)
          /\ Ahead \in Seq(Byte) /\ Open \in Seq(Byte)
      BY StandsTyped
    <3>2. Ahead # <<>>
      <4> DEFINE ws == wire \o Sent
                 c == r.buf \o ws
      <4>1. ws \in Seq(Byte)
        BY <3>1, Joins3
      <4> HIDE DEF ws
      <4>2. c \in Seq(Byte) /\ Len(c) = Len(r.buf) + Len(ws)
        BY <3>1, <4>1, ConcatProperties
      <4>3. Len(r.buf) \in Nat /\ Len(r.buf) > 0 /\ Len(ws) \in Nat
        BY <2>2, <3>1, <4>1, EmptySeq
      <4>4. Len(c) > 0
        BY <4>2, <4>3
      <4>5. Ahead = <<>> \o c
        BY <1>7 DEF Ahead, ws
      <4> HIDE DEF c
      <4>6. <<>> \o c = c
        BY <4>2, ConcatEmptySeq
      <4>7. Ahead = c
        BY <4>5, <4>6, Zenon
      <4> QED
        BY <4>4, <4>7
    <3>3. Len(t) > 0
      BY <1>7, <3>1, <3>2, MoreArrived DEF t
    <3> QED
      BY <1>8, <3>3
  <2>3. \/ out' = <<TRUE, <<>>>>
        \/ out' = <<FALSE, <<>>>> /\ Len(Unread) > 1
    <3>1. CASE r.buf = <<>>
      BY <2>1, <3>1
    <3>2. CASE r.buf # <<>>
      <4>1. (r.buf = <<>>) = FALSE
        BY <3>2
      <4> QED
        BY <2>1, <2>2, <3>2, <4>1, Zenon DEF s
    <3> QED
      BY <3>1, <3>2
  <2>4. Abstract!Looked
    BY <1>1, <1>3, <1>6, <1>9, <2>1, <2>3 DEF Abstract!Looked
  <2> QED
    BY <1>6, <2>4 DEF Refines, Abstract!RNext
<1> QED
  BY <1>10, <1>11

LEMMA SkipDoneRefines ==
  ASSUME IInv, IInv', Framed, SkipDone
  PROVE  Framed' /\ Refines
<1>1. /\ r.op # None /\ r.op.name = "skip" /\ r.fbtbc = 0 /\ r.last_frag = TRUE
      /\ r' = [r EXCEPT !.op = None, !.last_frag = FALSE] /\ UNCHANGED <<o, wire, next>>
      /\ out' = <<TRUE, <<>>>>
  BY DEF SkipDone, Return, Running, IInv, TypeOK
<1>2. r \in Reading
  BY ReaderFacts DEF InSound
<1>3. /\ r'.op = None /\ r'.buf = r.buf /\ r'.hdr = r.hdr /\ r'.fbtbc = 0
      /\ r'.last_frag = FALSE
  BY <1>1, <1>2 DEF Reading
<1>4. Ahead' = Ahead
  BY <1>1, <1>3 DEF Ahead, Sent
<1>5. Where' = At(0, FALSE)
  BY <1>3 DEF Where
<1> DEFINE t == Shows(At(0, FALSE), Ahead, Open)
           s == Unread
<1>6. /\ r.hdr = <<>> /\ FramedBy(At(0, FALSE), Ahead, Open)
      /\ s = <<EOR>> \o t /\ t \in Seq(Token)
  BY <1>1, EndsHere
<1>7. Framed' /\ Unread' = t
  <2>1. FramedBy(Where', Ahead', Open)
    BY <1>4, <1>5, <1>6, Zenon
  <2>2. r'.hdr # <<>> => r'.fbtbc = 0 /\ r'.last_frag = FALSE
    BY <1>3
  <2>3. UNCHANGED o
    BY <1>1
  <2>4. Framed' /\ Unread' = Shows(Where', Ahead', Open)
    BY <2>1, <2>2, <2>3, ReadStep
  <2> QED
    BY <1>4, <1>5, <2>4, Zenon
<1> HIDE DEF t, s
<1>8. s # <<>> /\ Head(s) = EOR /\ Tail(s) = t
  BY <1>6, EndFirst
<1>9. Abstract!NextRecord
  BY <1>1, <1>3, <1>7, <1>8 DEF Abstract!NextRecord, Abstract!Ended, s
<1> QED
  BY <1>7, <1>9 DEF Refines, Abstract!RNext

LEMMA ReaderRefines ==
  ASSUME IInv, IInv', Framed, Reader
  PROVE  Framed' /\ Refines
<1>1. CASE Go
  BY <1>1, FillRefines, HeaderRefines, CopyRefines, EndRefines, SkipRefines, SkipDoneRefines DEF Go
<1>2. ASSUME NEW n \in Gets, Call("get", n)
      PROVE  Framed' /\ Refines
  <2>1. n \in 0 .. OutSize + InSize
    BY RecordAssumption
  <2> QED
    BY <1>2, <2>1, CallRefines
<1>3. ASSUME NEW n \in Gets, GetInline(n)
      PROVE  Framed' /\ Refines
  BY <1>3, InlineRefines
<1>4. CASE Call("skip", 0) \/ Call("eof", 0)
  <2>1. 0 \in 0 .. OutSize + InSize
    BY WordFacts
  <2> QED
    BY <1>4, <2>1, CallRefines
<1> QED
  BY <1>1, <1>2, <1>3, <1>4 DEF Reader

LEMMA StillRefines ==
  ASSUME IInv, IInv', Framed, UNCHANGED vars
  PROVE  Framed' /\ Refines
<1>1. UNCHANGED <<o, r, wire, next, out>>
  BY DEF vars
<1>2. Ahead' = Ahead
  BY <1>1 DEF Ahead, Sent
<1>3. Framed' /\ Unread' = Unread
  BY <1>1, <1>2, MoveStep
<1> QED
  BY <1>1, <1>3 DEF Refines, Keeps

LEMMA InitFramed == Init => Framed /\ Abstract!RInit
<1> SUFFICES ASSUME Init
             PROVE  Framed /\ Abstract!RInit
  OBVIOUS
<1>1. IInv
  BY InitSound
<1> DEFINE h == Header(0, FALSE)
<1>2. /\ o.buf = h /\ o.frag = 0 /\ wire = <<>> /\ next = 0 /\ out = None
      /\ r.buf = <<>> /\ r.hdr = <<>> /\ r.fbtbc = 0 /\ r.last_frag = TRUE /\ r.op = None
  BY DEF Init, FreshOut, FreshIn
<1>3. h \in Seq(Byte) /\ Len(h) = Word /\ Word \in Nat
  BY HeaderBytes, WordFacts
<1> HIDE DEF h
<1>4. Sent = <<>> /\ Open = <<>>
  <2>1. SubSeq(h, 1, 0) = <<>> /\ From(h, Len(h)) = <<>> /\ 0 + Word = Len(h)
    BY <1>3, NoneBetween
  <2>2. Sent = SubSeq(h, 1, 0) /\ Open = From(h, 0 + Word)
    BY <1>2 DEF Sent, Open
  <2> QED
    BY <2>1, <2>2
<1>5. Ahead = <<>>
  <2>1. <<>> \o <<>> = <<>>
    OBVIOUS
  <2> QED
    BY <1>2, <1>4, <2>1, Zenon DEF Ahead
<1> DEFINE q == At(0, TRUE)
<1>6. q \in Parser /\ q.fb = 0 /\ q.seen = 0 /\ q.toks = <<EOR>>
  BY AtTyped DEF Trailer
<1>7. Where = q
  BY <1>2 DEF Where
<1> HIDE DEF q
<1>8. After(q, <<>>) = q
  BY <1>6, AfterNone
<1>9. Ok(q, <<>>)
  BY OkNone
<1>10. FramedBy(q, <<>>, <<>>)
  BY <1>6, <1>8, <1>9, NoVals DEF FramedBy
<1>11. Framed
  BY <1>2, <1>4, <1>5, <1>7, <1>10 DEF Framed
<1>12. Unread = <<EOR>>
  <2>1. Unread = Shows(q, <<>>, <<>>)
    BY <1>1, <1>4, <1>5, <1>7, <1>11, UnreadIs
  <2>2. <<EOR>> \o <<>> = <<EOR>>
    BY ConcatEmptySeq DEF Token
  <2> QED
    BY <1>6, <1>8, <2>1, <2>2, NoVals, Zenon DEF Shows
<1> QED
  BY <1>2, <1>11, <1>12 DEF Abstract!RInit

\* Records arrive whole, in order and one by one: however a record is cut into
\* fragments, buffers and reads, the reader's calls return what Records allows,
\* for every word and buffer size and every sequence of puts and gets.
THEOREM RecordsArrive == Spec => ImplementsRecords
<1>1. IInv /\ IInv' /\ Framed /\ [Next]_vars => Framed' /\ [Abstract!RNext]_(Abstract!rvars)
  <2> SUFFICES ASSUME IInv, IInv', Framed, [Next]_vars
               PROVE  Framed' /\ [Abstract!RNext]_(Abstract!rvars)
    OBVIOUS
  <2>1. Framed' /\ Refines
    BY SenderRefines, ReaderRefines, StillRefines DEF Next
  <2> QED
    BY <2>1 DEF Refines, Keeps, Abstract!rvars
<1> QED
  BY <1>1, InitFramed, AlwaysSound, PTL DEF Spec, ImplementsRecords, Abstract!RSpec
=============================================================================
