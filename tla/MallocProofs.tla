---------------------------- MODULE MallocProofs ----------------------------
(***************************************************************************)
(* Proofs that the heap of MintLib stays sound, for every set of requests, *)
(* page size, hunk size, memory layout and startup mode, and that it keeps *)
(* the promise of Allocator.                                               *)
(***************************************************************************)
EXTENDS Malloc, SequenceTheorems, TLAPS

-----------------------------------------------------------------------------
(* Rounding, the free list as a sequence.                                  *)

\* Rounding up never loses a byte and adds less than one unit.
LEMMA RoundUpBounds ==
  ASSUME NEW x \in Nat, NEW k \in Nat \ {0}
  PROVE  /\ RoundUp(x, k) \in Nat
         /\ x <= RoundUp(x, k) /\ RoundUp(x, k) <= x + k - 1
<1> DEFINE y == x + k - 1
<1>1. y \in Nat
  OBVIOUS
<1>2. /\ y \div k \in Nat /\ y % k \in 0..(k - 1)
      /\ y = k * (y \div k) + (y % k)
  BY <1>1
<1>3. (y \div k) * k = y - (y % k)
  BY <1>1, <1>2
<1> QED
  BY <1>1, <1>2, <1>3 DEF RoundUp

\* A chunk has room for its header and for the request.
LEMMA ChunkSizeBounds ==
  ASSUME NEW n \in Nat
  PROVE  ChunkSize(n) \in Nat /\ ChunkSize(n) >= n + HDR
BY RoundUpBounds DEF ChunkSize, HDR, MALLOC_ALIGNMENT

Ascending(s) == \A i, j \in 1..Len(s) : i < j => s[i] < s[j]

\* The elements of a list with one more element at k.
LEMMA InsertAtElements ==
  ASSUME NEW s \in Seq(Nat), NEW k \in 1..(Len(s) + 1), NEW e \in Nat
  PROVE  /\ InsertAt(s, k, e) \in Seq(Nat)
         /\ Len(InsertAt(s, k, e)) = Len(s) + 1
         /\ \A j \in 1..(Len(s) + 1) : j < k => InsertAt(s, k, e)[j] = s[j]
         /\ InsertAt(s, k, e)[k] = e
         /\ \A j \in 1..(Len(s) + 1) : j > k => InsertAt(s, k, e)[j] = s[j - 1]
<1> DEFINE a == SubSeq(s, 1, k - 1)
           b == SubSeq(s, k, Len(s))
           c == a \o <<e>>
<1>1. Len(s) \in Nat /\ \A j \in 1..Len(s) : s[j] \in Nat
  BY LenProperties, ElementOfSeq
<1>2. /\ a \in Seq(Nat) /\ Len(a) = k - 1
      /\ \A j \in 1..(k - 1) : a[j] = s[j]
  <2>1. 1 \in Int /\ k - 1 \in Int /\ \A j \in 1..(k - 1) : s[j] \in Nat
    BY <1>1
  <2> QED
    BY <1>1, <2>1, SubSeqProperties
<1>3. /\ b \in Seq(Nat) /\ Len(b) = Len(s) - k + 1
      /\ \A j \in 1..(Len(s) - k + 1) : b[j] = s[k + j - 1]
  <2>1. k \in Int /\ Len(s) \in Int /\ \A j \in k..Len(s) : s[j] \in Nat
    BY <1>1
  <2> QED
    BY <1>1, <2>1, SubSeqProperties, SMTT(30)
<1> HIDE DEF a, b
<1>4. /\ c \in Seq(Nat) /\ Len(c) = k
      /\ \A j \in 1..k : c[j] = IF j < k THEN s[j] ELSE e
  <2>1. <<e>> \in Seq(Nat) /\ Len(<<e>>) = 1 /\ <<e>>[1] = e
    OBVIOUS
  <2> QED
    BY <1>1, <1>2, <2>1, ConcatProperties
<1> HIDE DEF c
<1>5. /\ c \o b \in Seq(Nat) /\ Len(c \o b) = Len(c) + Len(b)
      /\ \A j \in 1..(Len(c) + Len(b)) : (c \o b)[j] = IF j <= Len(c) THEN c[j]
                                                      ELSE b[j - Len(c)]
  BY <1>3, <1>4, ConcatProperties
<1>6. ASSUME NEW j \in 1..(Len(s) + 1)
      PROVE  /\ j < k => (c \o b)[j] = s[j]
             /\ j = k => (c \o b)[j] = e
             /\ j > k => (c \o b)[j] = s[j - 1]
  <2>1. j \in 1..(Len(c) + Len(b))
    BY <1>1, <1>3, <1>4
  <2>2. ASSUME j < k PROVE (c \o b)[j] = s[j]
    BY <1>1, <1>3, <1>4, <1>5, <2>1, <2>2
  <2>3. ASSUME j = k PROVE (c \o b)[j] = e
    BY <1>1, <1>3, <1>4, <1>5, <2>1, <2>3
  <2>4. ASSUME j > k PROVE (c \o b)[j] = s[j - 1]
    <3>1. (c \o b)[j] = b[j - k]
      <4>1. Len(c) = k /\ ~(j <= k)
        BY <1>1, <1>4, <2>4
      <4> QED
        BY <1>5, <2>1, <4>1, Zenon
    <3>2. j - k \in 1..(Len(s) - k + 1) /\ k + (j - k) - 1 = j - 1
      BY <1>1, <2>4
    <3> QED
      BY <1>1, <1>3, <2>4, <3>1, <3>2
  <2> QED
    BY <2>2, <2>3, <2>4
<1>7. InsertAt(s, k, e) = c \o b
  BY DEF InsertAt, a, b, c
<1>8. Len(c \o b) = Len(s) + 1
  BY <1>1, <1>3, <1>4, <1>5
<1> QED
  BY <1>5, <1>6, <1>7, <1>8

\* The elements of a list without the one at k.
LEMMA RemoveAtElements ==
  ASSUME NEW s \in Seq(Nat), NEW k \in 1..Len(s)
  PROVE  /\ RemoveAt(s, k) \in Seq(Nat)
         /\ Len(RemoveAt(s, k)) = Len(s) - 1
         /\ \A j \in 1..(Len(s) - 1) :
              RemoveAt(s, k)[j] = IF j < k THEN s[j] ELSE s[j + 1]
<1> DEFINE a == SubSeq(s, 1, k - 1)
           b == SubSeq(s, k + 1, Len(s))
<1>1. Len(s) \in Nat /\ \A j \in 1..Len(s) : s[j] \in Nat
  BY LenProperties, ElementOfSeq
<1>2. /\ a \in Seq(Nat) /\ Len(a) = k - 1
      /\ \A j \in 1..(k - 1) : a[j] = s[j]
  <2>1. 1 \in Int /\ k - 1 \in Int /\ \A j \in 1..(k - 1) : s[j] \in Nat
    BY <1>1
  <2> QED
    BY <1>1, <2>1, SubSeqProperties
<1>3. /\ b \in Seq(Nat) /\ Len(b) = Len(s) - k
      /\ \A j \in 1..(Len(s) - k) : b[j] = s[k + j]
  <2>1. k + 1 \in Int /\ Len(s) \in Int /\ \A j \in (k + 1)..Len(s) : s[j] \in Nat
    BY <1>1
  <2> QED
    BY <1>1, <2>1, SubSeqProperties
<1> HIDE DEF a, b
<1>4. /\ a \o b \in Seq(Nat) /\ Len(a \o b) = Len(a) + Len(b)
      /\ \A j \in 1..(Len(a) + Len(b)) : (a \o b)[j] = IF j <= Len(a) THEN a[j]
                                                      ELSE b[j - Len(a)]
  BY <1>2, <1>3, ConcatProperties
<1>5. ASSUME NEW j \in 1..(Len(s) - 1)
      PROVE  (a \o b)[j] = IF j < k THEN s[j] ELSE s[j + 1]
  <2>1. j \in 1..(Len(a) + Len(b))
    BY <1>1, <1>2, <1>3
  <2>2. CASE j < k
    BY <1>1, <1>2, <1>3, <1>4, <2>1, <2>2
  <2>3. CASE j >= k
    <3>1. (a \o b)[j] = b[j - (k - 1)]
      <4>1. Len(a) = k - 1 /\ ~(j <= k - 1)
        BY <1>1, <1>2, <2>3
      <4> QED
        BY <1>4, <2>1, <4>1, Zenon
    <3>2. j - (k - 1) \in 1..(Len(s) - k) /\ k + (j - (k - 1)) = j + 1
      BY <1>1, <2>3
    <3> QED
      BY <1>1, <1>3, <2>3, <3>1, <3>2
  <2>4. j < k \/ j >= k
    BY <1>1
  <2> QED
    BY <2>2, <2>3, <2>4, Zenon
<1>6. RemoveAt(s, k) = a \o b
  BY DEF RemoveAt, a, b
<1>7. Len(a \o b) = Len(s) - 1
  BY <1>1, <1>2, <1>3, <1>4
<1> QED
  BY <1>4, <1>5, <1>6, <1>7

\* Inserting where the walk stops keeps the list ascending and adds e.
LEMMA InsertAscending ==
  ASSUME NEW s \in Seq(Nat), Ascending(s), NEW k \in 1..(Len(s) + 1), NEW e \in Nat,
         \A j \in 1..(k - 1) : s[j] < e,
         k <= Len(s) => s[k] > e
  PROVE  /\ InsertAt(s, k, e) \in Seq(Nat)
         /\ Ascending(InsertAt(s, k, e))
         /\ ToSet(InsertAt(s, k, e)) = ToSet(s) \cup {e}
<1> DEFINE t == InsertAt(s, k, e)
           n == Len(s)
<1>1. /\ n \in Nat /\ k \in 1..(n + 1) /\ DOMAIN s = 1..n
      /\ \A j \in 1..n : s[j] \in Nat
  BY LenProperties, ElementOfSeq
<1>2. /\ t \in Seq(Nat) /\ Len(t) = n + 1
      /\ \A j \in 1..(n + 1) : j < k => t[j] = s[j]
      /\ t[k] = e
      /\ \A j \in 1..(n + 1) : j > k => t[j] = s[j - 1]
  BY InsertAtElements, ZenonT(60)
<1>3. DOMAIN t = 1..(n + 1)
  BY <1>2, LenProperties
<1>4. \A i, j \in 1..n : i < j => s[i] < s[j]
  BY DEF Ascending
<1>5. k <= n => s[k] > e
  OBVIOUS
<1> HIDE DEF t, n
<1>6. /\ \A j \in 1..(n + 1) : j < k => t[j] = s[j]
      /\ t[k] = e
      /\ \A j \in 1..(n + 1) : j > k => t[j] = s[j - 1]
  BY <1>2
<1>7. \A j \in 1..n : j >= k => s[j] > e
  BY <1>1, <1>4, <1>5, SMTT(30)
<1>8. ASSUME NEW i \in 1..(n + 1), NEW j \in 1..(n + 1), i < j
      PROVE  t[i] < t[j]
  <2>1. CASE j < k
    BY <1>1, <1>4, <1>6, <1>8, <2>1
  <2>2. CASE j = k
    BY <1>1, <1>6, <1>8, <2>2
  <2>3. CASE i < k /\ j > k
    <3>1. t[i] = s[i] /\ t[j] = s[j - 1] /\ i \in 1..n /\ j - 1 \in 1..n
      BY <1>1, <1>6, <2>3
    <3>2. i < j - 1
      BY <1>1, <2>3
    <3> QED
      BY <3>1, <3>2, <1>4
  <2>4. CASE i = k
    <3>1. t[j] = s[j - 1] /\ j - 1 \in 1..n /\ j - 1 >= k
      BY <1>1, <1>6, <1>8, <2>4
    <3> QED
      BY <3>1, <1>1, <1>6, <1>7, <2>4
  <2>5. CASE i > k
    <3>1. /\ t[i] = s[i - 1] /\ t[j] = s[j - 1]
          /\ i - 1 \in 1..n /\ j - 1 \in 1..n /\ i - 1 < j - 1
      BY <1>1, <1>6, <1>8, <2>5
    <3> QED
      BY <3>1, <1>4
  <2>6. j < k \/ j = k \/ (i < k /\ j > k) \/ i = k \/ i > k
    BY <1>1, <1>8
  <2> QED
    BY <2>1, <2>2, <2>3, <2>4, <2>5, <2>6
<1>9. Ascending(t)
  BY <1>2, <1>8 DEF Ascending
<1>10. ASSUME NEW j \in 1..(n + 1) PROVE t[j] \in ToSet(s) \cup {e}
  <2>1. CASE j < k
    BY <1>1, <1>6, <2>1 DEF ToSet
  <2>2. CASE j = k
    BY <1>6, <2>2
  <2>3. CASE j > k
    <3>1. t[j] = s[j - 1] /\ j - 1 \in DOMAIN s
      BY <1>1, <1>6, <2>3
    <3> QED
      BY <3>1 DEF ToSet
  <2> QED
    BY <1>1, <2>1, <2>2, <2>3
<1>11. ASSUME NEW j \in 1..n PROVE s[j] \in ToSet(t)
  <2>1. CASE j < k
    <3>1. j \in DOMAIN t /\ t[j] = s[j]
      BY <1>1, <1>3, <1>6, <2>1
    <3> QED
      BY <3>1 DEF ToSet
  <2>2. CASE j >= k
    <3>1. j + 1 \in DOMAIN t /\ j + 1 > k /\ (j + 1) - 1 = j
      BY <1>1, <1>3, <2>2
    <3>2. t[j + 1] = s[j]
      BY <1>1, <1>3, <1>6, <3>1
    <3> QED
      BY <3>1, <3>2 DEF ToSet
  <2> QED
    BY <1>1, <2>1, <2>2
<1>12. e \in ToSet(t)
  BY <1>1, <1>3, <1>6 DEF ToSet
<1>13. ToSet(t) = ToSet(s) \cup {e}
  BY <1>1, <1>3, <1>10, <1>11, <1>12 DEF ToSet
<1> QED
  BY <1>2, <1>9, <1>13 DEF t

\* Removing an entry keeps the list ascending and removes just that entry.
LEMMA RemoveAscending ==
  ASSUME NEW s \in Seq(Nat), Ascending(s), NEW k \in 1..Len(s)
  PROVE  /\ RemoveAt(s, k) \in Seq(Nat)
         /\ Ascending(RemoveAt(s, k))
         /\ ToSet(RemoveAt(s, k)) = ToSet(s) \ {s[k]}
<1> DEFINE t == RemoveAt(s, k)
           n == Len(s)
<1>1. /\ n \in Nat /\ k \in 1..n /\ DOMAIN s = 1..n
      /\ \A j \in 1..n : s[j] \in Nat
  BY LenProperties, ElementOfSeq
<1>2. /\ t \in Seq(Nat) /\ Len(t) = n - 1
      /\ \A j \in 1..(n - 1) : t[j] = IF j < k THEN s[j] ELSE s[j + 1]
  BY RemoveAtElements
<1>3. DOMAIN t = 1..(n - 1)
  BY <1>2, LenProperties
<1>4. \A i, j \in 1..n : i < j => s[i] < s[j]
  BY DEF Ascending
<1> HIDE DEF t, n
<1>5. /\ \A j \in 1..(n - 1) : j < k => t[j] = s[j]
      /\ \A j \in 1..(n - 1) : j >= k => t[j] = s[j + 1]
  BY <1>1, <1>2
<1>6. ASSUME NEW i \in 1..(n - 1), NEW j \in 1..(n - 1), i < j
      PROVE  t[i] < t[j]
  <2>1. CASE j < k
    BY <1>1, <1>4, <1>5, <1>6, <2>1
  <2>2. CASE i < k /\ j >= k
    <3>1. t[i] = s[i] /\ t[j] = s[j + 1] /\ i \in 1..n /\ j + 1 \in 1..n /\ i < j + 1
      BY <1>1, <1>5, <2>2
    <3> QED
      BY <3>1, <1>4
  <2>3. CASE i >= k
    <3>1. /\ t[i] = s[i + 1] /\ t[j] = s[j + 1]
          /\ i + 1 \in 1..n /\ j + 1 \in 1..n /\ i + 1 < j + 1
      BY <1>1, <1>5, <1>6, <2>3
    <3> QED
      BY <3>1, <1>4
  <2> QED
    BY <1>1, <1>6, <2>1, <2>2, <2>3
<1>7. Ascending(t)
  BY <1>2, <1>6 DEF Ascending
<1>8. ASSUME NEW j \in 1..(n - 1) PROVE t[j] \in ToSet(s) \ {s[k]}
  <2>1. CASE j < k
    <3>1. t[j] = s[j] /\ j \in 1..n /\ s[j] < s[k] /\ s[j] \in Nat /\ s[k] \in Nat
      BY <1>1, <1>4, <1>5, <2>1
    <3> QED
      BY <3>1, <1>1 DEF ToSet
  <2>2. CASE j >= k
    <3>1. j + 1 \in 1..n /\ k < j + 1
      BY <1>1, <2>2
    <3>2. t[j] = s[j + 1] /\ s[k] < s[j + 1] /\ s[j + 1] \in Nat /\ s[k] \in Nat
      BY <1>1, <1>4, <1>5, <2>2, <3>1
    <3> QED
      BY <3>1, <3>2, <1>1 DEF ToSet
  <2> QED
    BY <1>1, <2>1, <2>2
<1>9. ASSUME NEW j \in 1..n, j # k PROVE s[j] \in ToSet(t)
  <2>1. CASE j < k
    <3>1. j \in DOMAIN t /\ t[j] = s[j]
      BY <1>1, <1>3, <1>5, <2>1
    <3> QED
      BY <3>1 DEF ToSet
  <2>2. CASE j > k
    <3>1. j - 1 \in DOMAIN t /\ j - 1 >= k /\ (j - 1) + 1 = j
      BY <1>1, <1>3, <2>2
    <3>2. t[j - 1] = s[j]
      BY <1>1, <1>3, <1>5, <3>1
    <3> QED
      BY <3>1, <3>2 DEF ToSet
  <2> QED
    BY <1>1, <1>9, <2>1, <2>2
<1>10. ToSet(t) = ToSet(s) \ {s[k]}
  BY <1>1, <1>3, <1>8, <1>9 DEF ToSet
<1> QED
  BY <1>2, <1>7, <1>10 DEF t

-----------------------------------------------------------------------------
(* Headers.                                                                *)

HeaderType == [valid : {"FREE", "ALLOC", "BORDER", "MOVED"}, size : Nat, asize : Nat]

\* Removing an entry from a table of headers or blocks leaves the others.
LEMMA DropFacts ==
  ASSUME NEW f, NEW a
  PROVE  /\ DOMAIN Drop(f, a) = DOMAIN f \ {a}
         /\ \A x \in DOMAIN f \ {a} : Drop(f, a)[x] = f[x]
BY DEF Drop

\* Removing an entry from a table keeps its type.
LEMMA DropType ==
  ASSUME NEW S, NEW f, f \in [DOMAIN f -> S], NEW a
  PROVE  Drop(f, a) \in [DOMAIN Drop(f, a) -> S]
BY DEF Drop

\* The fields of a header written by the library.
LEMMA HeaderFields ==
  ASSUME NEW sz \in Nat, NEW v \in {"FREE", "ALLOC", "MOVED"}
  PROVE  /\ Header(v, sz) \in HeaderType
         /\ Header(v, sz).valid = v /\ Header(v, sz).size = sz
         /\ Border(sz) \in HeaderType
         /\ Border(sz).valid = "BORDER" /\ Border(sz).size = BORDER_EXTRA
         /\ Border(sz).asize = sz
BY DEF Header, Border, HeaderType, BORDER_EXTRA

-----------------------------------------------------------------------------
(* Steps that leave the heap alone.                                        *)

Shape ==
  /\ SizesSound /\ FreeListAscending /\ FreeListExact
  /\ ChunksDisjoint /\ ChunksOwned
  /\ BlocksHaveBorders /\ BordersDescribeBlocks /\ HeapAndStack

\* A step that leaves the heap alone keeps every part of the invariant that
\* speaks of the heap alone.
LEMMA ShapeUnchanged ==
  ASSUME Shape, UNCHANGED <<fl, chunk, region, heapbase, stksize>>,
         pc # "merge", pc' # "merge"
  PROVE  Shape'
<1>1. InFlight = {} /\ InFlight' = {}
  BY DEF InFlight
<1>2. (SizesSound /\ FreeListAscending /\ ChunksDisjoint /\ HeapAndStack)'
  BY DEF Shape, SizesSound, FreeListAscending, ChunksDisjoint, Extent, HeapAndStack
<1>3. FreeListExact'
  BY <1>1 DEF Shape, FreeListExact, Valid
<1>4. ChunksOwned'
  BY DEF Shape, ChunksOwned, Extent, Owned
<1>5. BlocksHaveBorders' /\ BordersDescribeBlocks'
  BY DEF Shape, BlocksHaveBorders, BordersDescribeBlocks, Valid
<1> QED
  BY <1>2, <1>3, <1>4, <1>5 DEF Shape

\* The ways a call starts, moves on and ends have the right types.
LEMMA EnterMallocTypes ==
  ASSUME NEW op \in {"malloc", "memalign", "shrink", "grow"}, NEW n \in Nat,
         NEW size \in Nat, NEW align \in Nat \ {0}, NEW r \in Nat,
         EnterMalloc(op, n, size, align, r)
  PROVE  /\ pc' = "search" /\ call' \in Calls
         /\ call'.op = op /\ call'.n = n /\ call'.size = size
         /\ call'.align = align /\ call'.r = r
BY DEF EnterMalloc, Call, Calls, NULL

\* Starting __free gives pc and call values of their types.
LEMMA EnterFreeTypes ==
  ASSUME NEW r \in Nat, EnterFree(r)
  PROVE  pc' = "free" /\ call' \in Calls /\ call'.r = r
BY DEF EnterFree, Call, Calls, NULL

\* Returning from a call gives pc and call values of their types.
LEMMA ReturnTypes ==
  ASSUME Return
  PROVE  pc' = "idle" /\ call' \in Calls
BY DEF Return, Idle, Call, Calls, NULL

\* Types outside the call, when the heap is left alone.
LEMMA TypesUnchanged ==
  ASSUME TypeOK, UNCHANGED <<fl, chunk, region, heapbase, stksize, lost>>,
         split_mem' \in BOOLEAN, minhunk' \in Nat, maxhunk' \in Nat,
         DOMAIN live' \subseteq Nat, live' \in [DOMAIN live' -> Nat],
         pc' \in Places, call' \in Calls
  PROVE  TypeOK'
BY DEF TypeOK

\* Starting any call of malloc, memalign, free or realloc, and
\* _mallocChunkSize, keep the invariant.
LEMMA CallsSound ==
  ASSUME HeapSound,
         \/ \E n \in Requests : CallMalloc(n)
         \/ \E n \in Requests, a \in Alignments : CallMemalign(a, n)
         \/ \E u \in DOMAIN live : CallFree(u)
         \/ \E u \in Resizable, n \in Requests :
              CallShrink(u, n) \/ CallKeep(u, n) \/ CallGrow(u, n)
         \/ \E siz \in ChunkSizes : MallocChunkSize(siz)
  PROVE  HeapSound'
<1> USE DEF HeapSound, heap
<1>1. CASE \E n \in Requests : CallMalloc(n)
  <2> PICK n \in Requests : CallMalloc(n)
    BY <1>1
  <2>1. Shape'
    BY ShapeUnchanged DEF Shape, CallMalloc, EnterMalloc
  <2>2. TypeOK'
    <3>1. call' \in Calls /\ pc' = "search"
      BY EnterMallocTypes, SizeAssumption DEF CallMalloc, NULL
    <3> QED
      BY <3>1, TypesUnchanged DEF TypeOK, CallMalloc, Places
  <2>3. CallSound' /\ LiveBlocksWhole' /\ AssertHolds'
    BY DEF CallSound, LiveBlocksWhole, AssertHolds, CallMalloc, EnterMalloc, Call, Valid, Extent
  <2> QED
    BY <2>1, <2>2, <2>3 DEF Shape
<1>2. CASE \E n \in Requests, a \in Alignments : CallMemalign(a, n)
  <2> PICK n \in Requests, a \in Alignments : CallMemalign(a, n)
    BY <1>2
  <2>1. Shape'
    BY ShapeUnchanged DEF Shape, CallMemalign, EnterMalloc
  <2>2. TypeOK'
    <3>1. call' \in Calls /\ pc' = "search"
      BY EnterMallocTypes, SizeAssumption DEF CallMemalign, NULL
    <3> QED
      BY <3>1, TypesUnchanged DEF TypeOK, CallMemalign, Places
  <2>3. CallSound' /\ LiveBlocksWhole' /\ AssertHolds'
    BY SizeAssumption
    DEF CallSound, LiveBlocksWhole, AssertHolds, CallMemalign, EnterMalloc, Call, Valid, Extent,
        MALLOC_ALIGNMENT
  <2> QED
    BY <2>1, <2>2, <2>3 DEF Shape
<1>3. CASE \E u \in DOMAIN live : CallFree(u)
  <2> PICK u \in DOMAIN live : CallFree(u)
    BY <1>3
  <2>1. Shape'
    BY ShapeUnchanged DEF Shape, CallFree, EnterFree
  <2>2. u \in Nat /\ u - HDR \in Valid({"ALLOC", "MOVED"}) /\ u - HDR \in Nat
    BY DEF TypeOK, LiveBlocksWhole, Valid
  <2>3. /\ call' \in Calls /\ pc' = "free" /\ call'.r = u - HDR
        /\ chunk' = chunk /\ live' = Drop(live, u)
    BY <2>2, EnterFreeTypes DEF CallFree, heap
  <2>4. /\ DOMAIN live' = DOMAIN live \ {u} /\ live' \in [DOMAIN live' -> Nat]
        /\ \A v \in DOMAIN live' : live'[v] = live[v]
    <3>1. live \in [DOMAIN live -> Nat]
      BY DEF TypeOK
    <3> QED
      BY <2>3, <3>1, DropFacts, DropType, ZenonT(40)
  <2>5. TypeOK'
    BY <2>3, <2>4, TypesUnchanged DEF TypeOK, CallFree, Places
  <2>6. LiveBlocksWhole' /\ AssertHolds'
    BY <2>3, <2>4 DEF LiveBlocksWhole, AssertHolds, Valid, Extent
  <2>7. CallSound'
    <3>1. (u - HDR) + HDR = u
      BY <2>2 DEF HDR
    <3> QED
      BY <2>2, <2>3, <2>4, <3>1 DEF CallSound, Valid
  <2> QED
    BY <2>1, <2>5, <2>6, <2>7 DEF Shape
<1>4. CASE \E u \in Resizable, n \in Requests :
             CallShrink(u, n) \/ CallKeep(u, n) \/ CallGrow(u, n)
  <2> PICK u \in Resizable, n \in Requests :
             CallShrink(u, n) \/ CallKeep(u, n) \/ CallGrow(u, n)
    BY <1>4
  <2>1. /\ n \in Nat /\ u \in Nat /\ u \in DOMAIN live /\ u - HDR \in DOMAIN chunk
        /\ u - HDR \in Nat /\ chunk[u - HDR].valid = "ALLOC"
        /\ chunk[u - HDR].size \in Nat /\ (u - HDR) + HDR = u
    <3>1. n \in Nat /\ u \in Nat /\ u \in DOMAIN live
      BY SizeAssumption DEF TypeOK, Resizable
    <3>2. u - HDR \in DOMAIN chunk /\ u - HDR \in Nat
      BY <3>1 DEF TypeOK, LiveBlocksWhole, Valid
    <3>3. chunk[u - HDR].valid = "ALLOC" /\ chunk[u - HDR].size \in Nat
      BY <3>2 DEF TypeOK, Resizable
    <3> QED
      BY <3>1, <3>2, <3>3 DEF HDR
  <2>2. /\ ChunkSize(n) \in Nat /\ ChunkSize(n) >= n + HDR
        /\ ShrinkSlack \in Nat
    <3>1. 2 * HDR \in Nat /\ MALLOC_ALIGNMENT \in Nat \ {0}
      BY DEF HDR, MALLOC_ALIGNMENT
    <3> QED
      BY <2>1, <3>1, ChunkSizeBounds, RoundUpBounds DEF ShrinkSlack
  <2>3. Shape'
    BY ShapeUnchanged DEF Shape, CallShrink, CallKeep, CallGrow, EnterMalloc
  <2>4. CASE CallShrink(u, n)
    <3>1. TypeOK'
      <4>1. call' \in Calls /\ pc' = "search"
        BY <2>1, <2>4, EnterMallocTypes DEF CallShrink
      <4> QED
        BY <2>4, <4>1, TypesUnchanged DEF TypeOK, CallShrink, Places
    <3>2. CallSound' /\ LiveBlocksWhole' /\ AssertHolds'
      BY <2>1, <2>2, <2>4
      DEF CallSound, LiveBlocksWhole, AssertHolds, CallShrink, EnterMalloc, Call, Valid, Extent
    <3> QED
      BY <2>3, <3>1, <3>2 DEF Shape
  <2>5. CASE CallKeep(u, n)
    <3>1. TypeOK'
      BY <2>1, <2>5 DEF TypeOK, CallKeep, Put
    <3>2. CallSound' /\ LiveBlocksWhole' /\ AssertHolds'
      BY <2>1, <2>2, <2>5
      DEF CallSound, LiveBlocksWhole, AssertHolds, CallKeep, Put, Valid, Extent, HDR
    <3> QED
      BY <2>3, <3>1, <3>2 DEF Shape
  <2>6. CASE CallGrow(u, n)
    <3>1. TypeOK'
      <4>1. call' \in Calls /\ pc' = "search"
        BY <2>1, <2>6, EnterMallocTypes DEF CallGrow
      <4> QED
        BY <2>6, <4>1, TypesUnchanged DEF TypeOK, CallGrow, Places
    <3>2. CallSound' /\ LiveBlocksWhole' /\ AssertHolds'
      BY <2>1, <2>2, <2>6
      DEF CallSound, LiveBlocksWhole, AssertHolds, CallGrow, EnterMalloc, Call, Valid, Extent
    <3> QED
      BY <2>3, <3>1, <3>2 DEF Shape
  <2> QED
    BY <2>4, <2>5, <2>6
<1>5. CASE \E siz \in ChunkSizes : MallocChunkSize(siz)
  <2> PICK siz \in ChunkSizes : MallocChunkSize(siz)
    BY <1>5
  <2>1. Shape'
    BY ShapeUnchanged DEF Shape, MallocChunkSize
  <2>2. TypeOK'
    BY SizeAssumption DEF TypeOK, MallocChunkSize
  <2>3. CallSound' /\ LiveBlocksWhole' /\ AssertHolds'
    BY DEF CallSound, LiveBlocksWhole, AssertHolds, MallocChunkSize, Valid, Extent
  <2> QED
    BY <2>1, <2>2, <2>3 DEF Shape
<1> QED
  BY <1>1, <1>2, <1>3, <1>4, <1>5

\* What the list says about its entries.
LEMMA ListEntry ==
  ASSUME HeapSound, NEW k \in 1..Len(fl)
  PROVE  /\ fl[k] \in Nat /\ fl[k] \in DOMAIN chunk /\ fl[k] \notin InFlight
         /\ chunk[fl[k]] \in HeaderType
         /\ chunk[fl[k]].valid \in {"FREE", "BORDER"}
<1>1. fl[k] \in ToSet(fl)
  BY DEF HeapSound, TypeOK, ToSet
<1>2. fl[k] \in Valid({"FREE", "BORDER"}) \ InFlight
  BY <1>1 DEF HeapSound, FreeListExact
<1> QED
  BY <1>2 DEF HeapSound, TypeOK, Valid, HeaderType

\* The first-fit search of __malloc keeps the invariant, found or not.
LEMMA SearchSound ==
  ASSUME HeapSound, SearchFound \/ SearchFailed \/ SbrkSwitch
  PROVE  HeapSound'
<1> USE DEF HeapSound, heap
<1>0. Shape'
  BY ShapeUnchanged DEF Shape, SearchFound, SearchFailed, SbrkSwitch
<1>1. CASE SearchFound
  <2> PICK k \in 1..Len(fl) : /\ Fits(fl[k], call.n)
                              /\ call' = [call EXCEPT !.q = fl[k]]
    BY <1>1 DEF SearchFound
  <2>1. fl[k] \in Nat /\ fl[k] \in Valid({"FREE"})
    BY ListEntry DEF Fits, Valid
  <2>2. /\ call' \in Calls /\ pc' = "carve" /\ call'.q = fl[k] /\ call'.n = call.n
        /\ call'.op = call.op /\ call'.size = call.size /\ call'.align = call.align
        /\ call'.r = call.r
    BY <1>1, <2>1 DEF SearchFound, TypeOK, Calls
  <2>3. TypeOK'
    BY <1>1, <2>2, TypesUnchanged DEF SearchFound, TypeOK, Places
  <2>4. CallSound' /\ LiveBlocksWhole' /\ AssertHolds'
    BY <1>1, <2>1, <2>2
    DEF SearchFound, CallSound, LiveBlocksWhole, AssertHolds, Valid, Extent, Fits
  <2> QED
    BY <1>0, <2>3, <2>4 DEF Shape
<1>2. CASE SearchFailed
  <2> DEFINE n     == ChunkSize(call.n)
             exact == OwnHeap \/ n + BORDER_EXTRA > minhunk
             sz    == IF ~exact THEN minhunk
                      ELSE IF heapbase = NULL THEN n + BORDER_EXTRA ELSE n
             hunk  == IF split_mem \/ heapbase = NULL THEN RoundUp(sz, PageSize) ELSE sz
  <2>1. call.n \in Nat
    BY DEF TypeOK, Calls
  <2>2. n \in Nat /\ minhunk \in Nat /\ maxhunk \in Nat
    BY <2>1, ChunkSizeBounds DEF TypeOK
  <2> HIDE DEF n
  <2>3. sz \in Nat /\ sz >= n + IF heapbase = NULL THEN BORDER_EXTRA ELSE 0
    BY <2>2 DEF BORDER_EXTRA, OwnHeap
  <2> HIDE DEF sz, exact
  <2>4. hunk \in Nat /\ hunk >= sz
    BY <2>3, RoundUpBounds, SizeAssumption
  <2> HIDE DEF hunk
  <2>5. /\ call' = [call EXCEPT !.sz = hunk] /\ pc' = "sbrk"
        /\ minhunk' = IF ~exact /\ minhunk < maxhunk THEN 2 * minhunk ELSE minhunk
    BY <1>2 DEF SearchFailed, hunk, sz, exact, n
  <2>6. /\ call' \in Calls /\ call'.sz = hunk /\ call'.n = call.n
        /\ call'.op = call.op /\ call'.size = call.size /\ call'.align = call.align
        /\ call'.r = call.r
    BY <2>4, <2>5 DEF TypeOK, Calls
  <2>7. minhunk' \in Nat
    BY <2>2, <2>5
  <2>8. TypeOK'
    BY <1>2, <2>5, <2>6, <2>7, TypesUnchanged DEF SearchFailed, TypeOK, Places
  <2>9. hunk >= ChunkSize(call.n) + IF heapbase = NULL THEN BORDER_EXTRA ELSE 0
    BY <2>2, <2>3, <2>4 DEF n, BORDER_EXTRA
  <2>10. CallSound' /\ LiveBlocksWhole' /\ AssertHolds'
    BY <1>2, <2>5, <2>6, <2>9
    DEF SearchFailed, CallSound, LiveBlocksWhole, AssertHolds, Valid, Extent
  <2> QED
    BY <1>0, <2>8, <2>10 DEF Shape
<1>3. CASE SbrkSwitch
  <2>1. TypeOK'
    BY <1>3, TypesUnchanged DEF SbrkSwitch, TypeOK
  <2>2. CallSound' /\ LiveBlocksWhole' /\ AssertHolds'
    BY <1>3 DEF SbrkSwitch, CallSound, LiveBlocksWhole, AssertHolds, Valid, Extent
  <2> QED
    BY <1>0, <2>1, <2>2 DEF Shape
<1> QED
  BY <1>1, <1>2, <1>3

\* The block the running call has, or is about to shrink, is large enough for
\* what the program asked for.
LEMMA CallSizes ==
  ASSUME HeapSound, pc \in {"search", "sbrk", "carve", "align", "copy"}
  PROVE  /\ call.n \in Nat /\ call.size \in Nat /\ call.r \in Nat /\ call.q \in Nat
         /\ call.align \in Nat \ {0} /\ call.sz \in Nat
         /\ call.n >= call.size
         /\ ChunkSize(call.n) \in Nat /\ ChunkSize(call.n) >= HDR + call.n
         /\ ChunkSize(call.n) >= HDR + call.size
<1>1. /\ call.n \in Nat /\ call.size \in Nat /\ call.r \in Nat /\ call.q \in Nat
      /\ call.align \in Nat \ {0} /\ call.sz \in Nat
  BY DEF HeapSound, TypeOK, Calls
<1>2. call.n = IF call.op = "memalign" /\ call.align > MALLOC_ALIGNMENT
               THEN call.size + call.align - 1 ELSE call.size
  BY DEF HeapSound, CallSound
<1>3. call.n >= call.size
  BY <1>1, <1>2
<1>4. ChunkSize(call.n) \in Nat /\ ChunkSize(call.n) >= call.n + HDR
  BY <1>1, ChunkSizeBounds
<1> QED
  BY <1>1, <1>3, <1>4 DEF HDR

\* A header in the table has the fields of a header, and an extent.
LEMMA ChunkFields ==
  ASSUME HeapSound, NEW a \in DOMAIN chunk
  PROVE  /\ a \in Nat /\ chunk[a] \in HeaderType
         /\ chunk[a].valid \in {"FREE", "ALLOC", "BORDER", "MOVED"}
         /\ chunk[a].size \in Nat /\ chunk[a].asize \in Nat
         /\ Extent(a) \in Nat /\ Extent(a) >= HDR
         /\ chunk[a].valid # "MOVED" => Extent(a) = chunk[a].size /\ chunk[a].size >= HDR
<1>1. a \in Nat /\ chunk[a] \in HeaderType
  BY DEF HeapSound, TypeOK, HeaderType
<1>2. /\ chunk[a].valid \in {"FREE", "ALLOC", "BORDER", "MOVED"}
      /\ chunk[a].size \in Nat /\ chunk[a].asize \in Nat
  BY <1>1 DEF HeaderType
<1>3. chunk[a].valid # "MOVED" => chunk[a].size >= HDR
  BY <1>2 DEF HeapSound, SizesSound, BORDER_EXTRA, HDR
<1> QED
  BY <1>1, <1>2, <1>3 DEF Extent, HDR

\* The bytes from an address on, as a condition on addresses.
LEMMA BytesAre ==
  ASSUME NEW a \in Nat, NEW n \in Nat
  PROVE  /\ Bytes(a, n) \subseteq Nat
         /\ \A x : x \in Bytes(a, n) <=> x \in Nat /\ a <= x /\ x < a + n
BY DEF Bytes

\* The bytes of a chunk are addresses.
LEMMA ChunkBytesAre ==
  ASSUME HeapSound, NEW a \in DOMAIN chunk
  PROVE  /\ ChunkBytes(a) \subseteq Nat
         /\ \A x : x \in ChunkBytes(a) <=> x \in Nat /\ a <= x /\ x < a + Extent(a)
<1>1. a \in Nat /\ Extent(a) \in Nat
  BY ChunkFields
<1> QED
  BY <1>1, BytesAre DEF ChunkBytes

\* The steps that return without touching a chunk keep the invariant: no
\* memory, an aligned pointer, a block that realloc leaves in place, the copy.
LEMMA ReturnsSound ==
  ASSUME HeapSound, SbrkFailed \/ AlignKept \/ ReallocCopy
  PROVE  HeapSound'
<1> USE DEF HeapSound, heap
<1>0. Shape'
  BY ShapeUnchanged
  DEF Shape, SbrkFailed, AlignKept, ReallocCopy, Return, EnterFree
<1>0a. /\ call.n \in Nat /\ call.size \in Nat /\ call.r \in Nat /\ call.q \in Nat
       /\ live \in [DOMAIN live -> Nat] /\ DOMAIN live \subseteq Nat
       /\ call.align \in Nat \ {0}
  BY DEF TypeOK, Calls
<1>0b. ChunkSize(call.n) \in Nat /\ ChunkSize(call.n) >= call.n + HDR
  BY <1>0a, ChunkSizeBounds
<1>1. CASE SbrkFailed
  <2>1. /\ pc' = "idle" /\ call' \in Calls /\ pc = "sbrk"
        /\ chunk' = chunk
        /\ live' = IF call.op = "shrink" THEN Put(live, call.r + HDR, call.size) ELSE live
    BY <1>1, ReturnTypes DEF SbrkFailed
  <2>2. CASE call.op = "shrink"
    <3>0. /\ call.r + HDR \in DOMAIN live /\ call.r \in Valid({"ALLOC"})
          /\ chunk[call.r].size >= ChunkSize(call.n) /\ call.r \in DOMAIN chunk
      BY <2>1, <2>2 DEF CallSound, Valid
    <3>1. /\ call.r + HDR \in DOMAIN live /\ call.r \in Valid({"ALLOC"})
          /\ chunk[call.r].size \in Nat /\ chunk[call.r].size >= HDR + call.size
          /\ (call.r + HDR) - HDR = call.r
      BY <3>0, <2>1, CallSizes, ChunkFields DEF HDR
    <3>2. /\ DOMAIN live' = DOMAIN live /\ live' \in [DOMAIN live' -> Nat]
          /\ live'[call.r + HDR] = call.size
          /\ \A u \in DOMAIN live : u # call.r + HDR => live'[u] = live[u]
      <4>1. live' = Put(live, call.r + HDR, call.size)
        BY <2>1, <2>2
      <4> QED
        BY <1>0a, <3>1, <4>1 DEF Put
    <3>3. TypeOK'
      BY <1>0a, <1>1, <2>1, <3>2, TypesUnchanged DEF SbrkFailed, TypeOK, Places
    <3>4. LiveBlocksWhole'
      BY <2>1, <3>1, <3>2 DEF LiveBlocksWhole, Valid, Extent
    <3>5. CallSound' /\ AssertHolds'
      BY <2>1 DEF CallSound, AssertHolds
    <3> QED
      BY <1>0, <3>3, <3>4, <3>5 DEF Shape
  <2>3. CASE call.op # "shrink"
    <3>1. TypeOK'
      BY <1>0a, <1>1, <2>1, <2>3, TypesUnchanged DEF SbrkFailed, TypeOK, Places
    <3>2. CallSound' /\ LiveBlocksWhole' /\ AssertHolds'
      BY <2>1, <2>3 DEF CallSound, LiveBlocksWhole, AssertHolds, Valid, Extent
    <3> QED
      BY <1>0, <3>1, <3>2 DEF Shape
  <2> QED
    BY <2>2, <2>3
<1>2. CASE AlignKept
  <2>1. /\ pc' = "idle" /\ call' \in Calls /\ pc = "align" /\ chunk' = chunk
        /\ live' = Put(live, call.q + HDR, call.size)
    BY <1>2, ReturnTypes DEF AlignKept
  <2>2. /\ call.q \in Valid({"ALLOC"}) /\ chunk[call.q].size \in Nat
        /\ chunk[call.q].size >= HDR + call.size
        /\ (call.q + HDR) - HDR = call.q /\ call.q + HDR \in Nat
    <3>1. /\ call.q \in Valid({"ALLOC"}) /\ call.q \in DOMAIN chunk
          /\ chunk[call.q].size >= ChunkSize(call.n)
      BY <2>1 DEF CallSound, Valid
    <3> QED
      BY <3>1, <2>1, CallSizes, ChunkFields DEF HDR
  <2>3. /\ DOMAIN live' = DOMAIN live \cup {call.q + HDR}
        /\ live' \in [DOMAIN live' -> Nat]
        /\ live'[call.q + HDR] = call.size
        /\ \A u \in DOMAIN live : u # call.q + HDR => live'[u] = live[u]
    BY <1>0a, <2>1 DEF Put
  <2>4. TypeOK'
    BY <1>0a, <1>2, <2>1, <2>2, <2>3, TypesUnchanged DEF AlignKept, TypeOK, Places
  <2>5. LiveBlocksWhole'
    BY <2>1, <2>2, <2>3 DEF LiveBlocksWhole, Valid, Extent
  <2>6. CallSound' /\ AssertHolds'
    BY <2>1 DEF CallSound, AssertHolds
  <2> QED
    BY <1>0, <2>4, <2>5, <2>6 DEF Shape
<1>3. CASE ReallocCopy
  <2>1. /\ pc' = "free" /\ call' \in Calls /\ pc = "copy" /\ chunk' = chunk
        /\ call'.r = call.r
        /\ live' = Put(Drop(live, call.r + HDR), call.q + HDR, call.size)
    BY <1>0a, <1>3, EnterFreeTypes DEF ReallocCopy
  <2>2. /\ call.q \in Valid({"ALLOC"}) /\ chunk[call.q].size \in Nat
        /\ chunk[call.q].size >= HDR + call.size
        /\ (call.q + HDR) - HDR = call.q /\ call.q + HDR \in Nat
        /\ call.r \in Valid({"ALLOC"}) /\ call.r + HDR \in DOMAIN live
        /\ call.q + HDR \notin DOMAIN live
    <3>1. /\ call.q \in Valid({"ALLOC"}) /\ call.q \in DOMAIN chunk
          /\ chunk[call.q].size >= ChunkSize(call.n)
          /\ call.r \in Valid({"ALLOC"}) /\ call.r + HDR \in DOMAIN live
          /\ call.q + HDR \notin DOMAIN live
      BY <2>1 DEF CallSound, Valid
    <3> QED
      BY <3>1, <2>1, CallSizes, ChunkFields DEF HDR
  <2> DEFINE rest == Drop(live, call.r + HDR)
  <2>3. /\ DOMAIN rest = DOMAIN live \ {call.r + HDR} /\ rest \in [DOMAIN rest -> Nat]
        /\ \A u \in DOMAIN rest : rest[u] = live[u]
    BY <1>0a, DropFacts, DropType
  <2> HIDE DEF rest
  <2>4. /\ DOMAIN live' = DOMAIN rest \cup {call.q + HDR}
        /\ live' \in [DOMAIN live' -> Nat]
        /\ live'[call.q + HDR] = call.size
        /\ \A u \in DOMAIN rest : u # call.q + HDR => live'[u] = rest[u]
    <3>1. live' = Put(rest, call.q + HDR, call.size)
      BY <2>1 DEF rest
    <3> QED
      BY <1>0a, <2>3, <3>1 DEF Put
  <2>5. TypeOK'
    BY <1>0a, <1>3, <2>1, <2>2, <2>3, <2>4, TypesUnchanged DEF ReallocCopy, TypeOK, Places
  <2>6. LiveBlocksWhole'
    BY <2>1, <2>2, <2>3, <2>4 DEF LiveBlocksWhole, Valid, Extent
  <2>7. CallSound'
    BY <2>1, <2>2, <2>3, <2>4 DEF CallSound, Valid
  <2>8. AssertHolds'
    BY <2>1 DEF AssertHolds
  <2> QED
    BY <1>0, <2>5, <2>6, <2>7, <2>8 DEF Shape
<1> QED
  BY <1>1, <1>2, <1>3

\* Two different chunks lie apart.
LEMMA Apart ==
  ASSUME HeapSound, NEW a \in DOMAIN chunk, NEW b \in DOMAIN chunk, a # b
  PROVE  a + Extent(a) <= b \/ b + Extent(b) <= a
<1>1. a \in Nat /\ b \in Nat
  BY ChunkFields
<1>2. a < b \/ b < a
  BY <1>1
<1> QED
  BY <1>2 DEF HeapSound, ChunksDisjoint

-----------------------------------------------------------------------------
(* The bytes in the chunks and the bytes the process owns.                 *)

\* An address inside a chunk.
Covered(x) == \E a \in DOMAIN chunk : a <= x /\ x < a + Extent(a)

\* Conservation, address by address.
Kept ==
  \A x \in Nat : /\ Owned(x) <=> Covered(x) \/ x \in lost
                 /\ ~(Covered(x) /\ x \in lost)

\* The two ways to say it agree.
LEMMA ConservationIsKept ==
  ASSUME HeapSound
  PROVE  Conservation <=> Kept
<1> DEFINE Held == UNION {ChunkBytes(a) : a \in DOMAIN chunk}
           Gems == UNION {Bytes(g, region[g]) : g \in DOMAIN region}
           Own  == IF heapbase = NULL THEN {} ELSE Bytes(HeapStart, heapbase - HeapStart)
<1>1. \A x : x \in Held <=> x \in Nat /\ Covered(x)
  <2>1. \A x : x \in Held <=> \E a \in DOMAIN chunk : x \in ChunkBytes(a)
    OBVIOUS
  <2>2. ASSUME NEW a \in DOMAIN chunk, NEW x
        PROVE  x \in ChunkBytes(a) <=> x \in Nat /\ a <= x /\ x < a + Extent(a)
    BY ChunkBytesAre
  <2> HIDE DEF Held
  <2> QED
    BY <2>1, <2>2 DEF Covered
<1>2. \A x : x \in Gems <=> x \in Nat /\ \E g \in DOMAIN region : g <= x /\ x < g + region[g]
  <2>1. \A x : x \in Gems <=> \E g \in DOMAIN region : x \in Bytes(g, region[g])
    OBVIOUS
  <2>2. ASSUME NEW g \in DOMAIN region, NEW x
        PROVE  x \in Bytes(g, region[g]) <=> x \in Nat /\ g <= x /\ x < g + region[g]
    <3>1. g \in Nat /\ region[g] \in Nat
      BY DEF HeapSound, TypeOK
    <3> QED
      BY <3>1, BytesAre
  <2> HIDE DEF Gems
  <2> QED
    BY <2>1, <2>2
<1>3. \A x : x \in Own <=> x \in Nat /\ heapbase # NULL /\ HeapStart <= x /\ x < heapbase
  <2>1. CASE heapbase = NULL
    BY <2>1
  <2>2. CASE heapbase # NULL
    <3>1. HeapStart \in Nat /\ heapbase \in Nat /\ heapbase - HeapStart \in Nat
      BY <2>2, AddressAssumption DEF HeapSound, TypeOK, HeapAndStack
    <3>2. HeapStart + (heapbase - HeapStart) = heapbase
      BY <3>1
    <3> QED
      BY <2>2, <3>1, <3>2, BytesAre
  <2> QED
    BY <2>1, <2>2
<1>4. lost \subseteq Nat
  BY DEF HeapSound, TypeOK
<1>5. Conservation <=> Held \cap lost = {} /\ Held \cup lost = Gems \cup Own
  BY DEF Conservation
<1> HIDE DEF Held, Gems, Own
<1>6. \A x \in Nat : Owned(x) <=> x \in Gems \cup Own
  BY <1>2, <1>3 DEF Owned
<1>7. ASSUME Kept PROVE Held \cap lost = {} /\ Held \cup lost = Gems \cup Own
  BY <1>1, <1>2, <1>3, <1>4, <1>6, <1>7 DEF Kept
<1>8. ASSUME Held \cap lost = {}, Held \cup lost = Gems \cup Own PROVE Kept
  BY <1>1, <1>6, <1>8 DEF Kept
<1> QED
  BY <1>5, <1>7, <1>8

\* New memory that is all in chunks.
LEMMA KeptGrown ==
  ASSUME Kept, lost' = lost, NEW B,
         \A x \in Nat : /\ Covered(x)' <=> Covered(x) \/ x \in B
                        /\ Owned(x)' <=> Owned(x) \/ x \in B
                        /\ x \in B => ~Owned(x)
  PROVE  Kept'
BY DEF Kept

\* Memory that goes back to the system, all of it from chunks.
LEMMA KeptReturned ==
  ASSUME Kept, lost' = lost, NEW B,
         \A x \in Nat : /\ Covered(x)' <=> Covered(x) /\ x \notin B
                        /\ Owned(x)' <=> Owned(x) /\ x \notin B
                        /\ x \in B => Covered(x)
  PROVE  Kept'
BY DEF Kept

\* Bytes of a chunk that no header stands for any more.
LEMMA KeptLost ==
  ASSUME Kept, UNCHANGED <<region, heapbase>>, NEW B, lost' = lost \cup B,
         \A x \in Nat : /\ Covered(x)' <=> Covered(x) /\ x \notin B
                        /\ x \in B => Covered(x)
  PROVE  Kept'
BY DEF Kept, Owned

\* The same bytes in the chunks, whatever became of the chunks.
LEMMA KeptSame ==
  ASSUME Kept, UNCHANGED <<region, heapbase, lost>>,
         \A x \in Nat : Covered(x)' <=> Covered(x)
  PROVE  Kept'
BY DEF Kept, Owned

\* Chunks that keep their places and sizes cover the same bytes.
LEMMA CoveredSame ==
  ASSUME DOMAIN chunk' = DOMAIN chunk, \A a \in DOMAIN chunk : Extent(a)' = Extent(a)
  PROVE  \A x \in Nat : Covered(x)' <=> Covered(x)
BY DEF Covered

\* So do chunks of which one swallows the next.
LEMMA CoveredMerged ==
  ASSUME HeapSound, NEW r \in DOMAIN chunk, NEW q \in DOMAIN chunk,
         r + Extent(r) = q, r # q,
         DOMAIN chunk' = DOMAIN chunk \ {q},
         Extent(r)' = Extent(r) + Extent(q),
         \A x \in DOMAIN chunk' : x # r => Extent(x)' = Extent(x)
  PROVE  \A x \in Nat : Covered(x)' <=> Covered(x)
<1> SUFFICES ASSUME NEW x \in Nat PROVE Covered(x)' <=> Covered(x)
  OBVIOUS
<1>1. \A a \in DOMAIN chunk : a \in Nat /\ Extent(a) \in Nat
  BY ChunkFields
<1>2. r + Extent(r)' = q + Extent(q) /\ r <= q
  BY <1>1
<1>3. ASSUME NEW a \in DOMAIN chunk, a <= x, x < a + Extent(a) PROVE Covered(x)'
  <2>1. CASE a \in {r, q}
    <3>1. r <= x /\ x < r + Extent(r)' /\ r \in DOMAIN chunk'
      BY <1>1, <1>2, <1>3, <2>1
    <3> QED
      BY <3>1 DEF Covered
  <2>2. CASE a \notin {r, q}
    BY <1>3, <2>2 DEF Covered
  <2> QED
    BY <2>1, <2>2
<1>4. ASSUME NEW a \in DOMAIN chunk', a <= x, x < a + Extent(a)' PROVE Covered(x)
  <2>1. CASE a = r
    <3>1. (r <= x /\ x < r + Extent(r)) \/ (q <= x /\ x < q + Extent(q))
      BY <1>1, <1>2, <1>4, <2>1
    <3> QED
      BY <3>1 DEF Covered
  <2>2. CASE a # r
    BY <1>4, <2>2 DEF Covered
  <2> QED
    BY <2>1, <2>2
<1> QED
  BY <1>3, <1>4 DEF Covered

\* Without some of the chunks, just their bytes are no longer covered.
LEMMA CoveredDropped ==
  ASSUME HeapSound, NEW S \in SUBSET DOMAIN chunk,
         DOMAIN chunk' = DOMAIN chunk \ S,
         \A a \in DOMAIN chunk' : chunk'[a] = chunk[a]
  PROVE  \A x \in Nat : Covered(x)' <=>
           Covered(x) /\ ~\E a \in S : a <= x /\ x < a + Extent(a)
<1> SUFFICES ASSUME NEW x \in Nat
             PROVE  Covered(x)' <=> Covered(x) /\ ~\E a \in S : a <= x /\ x < a + Extent(a)
  OBVIOUS
<1>1. \A a \in DOMAIN chunk : a \in Nat /\ Extent(a) \in Nat
  BY ChunkFields
<1>2. \A a \in DOMAIN chunk' : Extent(a)' = Extent(a)
  BY DEF Extent
<1>3. ASSUME NEW a \in DOMAIN chunk', a <= x, x < a + Extent(a),
             NEW b \in S, b <= x, x < b + Extent(b)
      PROVE  FALSE
  <2>1. a \in DOMAIN chunk /\ b \in DOMAIN chunk /\ a # b
    OBVIOUS
  <2>2. a + Extent(a) <= b \/ b + Extent(b) <= a
    BY <2>1, Apart
  <2> QED
    BY <1>1, <1>3, <2>1, <2>2
<1> QED
  BY <1>2, <1>3 DEF Covered

\* What the own heap takes back is no longer owned.
LEMMA OwnLowered ==
  ASSUME HeapSound, heapbase # NULL, NEW r \in Nat, r >= HeapStart, r <= heapbase,
         heapbase' = r, region' = region
  PROVE  \A x \in Nat : Owned(x)' <=> Owned(x) /\ ~(r <= x /\ x < heapbase)
<1> SUFFICES ASSUME NEW x \in Nat
             PROVE  Owned(x)' <=> Owned(x) /\ ~(r <= x /\ x < heapbase)
  OBVIOUS
<1>1. /\ heapbase \in Nat /\ HeapStart \in Nat \ {NULL} /\ HeapTop \in Nat
      /\ heapbase <= HeapTop
  BY AddressAssumption DEF HeapSound, TypeOK, HeapAndStack
<1>2. r # NULL
  BY <1>1 DEF NULL
<1>3. ASSUME NEW g \in DOMAIN region, g <= x, x < g + region[g]
      PROVE  ~(r <= x /\ x < heapbase)
  <2>1. /\ g \in Nat /\ region[g] \in Nat
        /\ g + region[g] < HeapStart \/ g >= HeapTop
    BY DEF HeapSound, TypeOK, BlocksHaveBorders
  <2> QED
    BY <1>1, <1>3, <2>1
<1> QED
  BY <1>1, <1>2, <1>3 DEF Owned

\* What GEMDOS gets back is no longer owned.
LEMMA OwnReturned ==
  ASSUME HeapSound, NEW o \in DOMAIN region, region' = Drop(region, o),
         heapbase' = heapbase
  PROVE  \A x \in Nat : Owned(x)' <=> Owned(x) /\ ~(o <= x /\ x < o + region[o])
<1> SUFFICES ASSUME NEW x \in Nat
             PROVE  Owned(x)' <=> Owned(x) /\ ~(o <= x /\ x < o + region[o])
  OBVIOUS
<1>1. /\ DOMAIN region' = DOMAIN region \ {o}
      /\ \A g \in DOMAIN region' : region'[g] = region[g]
  BY DEF Drop
<1>2. \A g \in DOMAIN region : /\ g \in Nat /\ region[g] \in Nat
                               /\ g + region[g] < HeapStart \/ g >= HeapTop
                               /\ \A h \in DOMAIN region : h > g => g + region[g] <= h
  BY DEF HeapSound, TypeOK, BlocksHaveBorders
<1>3. ASSUME o <= x, x < o + region[o] PROVE ~Owned(x)'
  <2>1. ASSUME NEW g \in DOMAIN region, g # o, g <= x, x < g + region[g] PROVE FALSE
    BY <1>2, <1>3, <2>1
  <2>2. ASSUME heapbase # NULL, HeapStart <= x, x < heapbase PROVE FALSE
    <3>1. heapbase \in Nat /\ heapbase <= HeapTop /\ HeapTop \in Nat /\ HeapStart \in Nat
      BY <2>2, AddressAssumption DEF HeapSound, TypeOK, HeapAndStack
    <3> QED
      BY <1>2, <1>3, <2>2, <3>1
  <2> QED
    BY <1>1, <2>1, <2>2 DEF Owned
<1>4. ASSUME Owned(x), ~(o <= x /\ x < o + region[o]) PROVE Owned(x)'
  BY <1>1, <1>4 DEF Owned
<1>5. ASSUME Owned(x)' PROVE Owned(x)
  BY <1>1, <1>5 DEF Owned
<1> QED
  BY <1>3, <1>4, <1>5

-----------------------------------------------------------------------------
(* Steps that change the table of chunks and leave the system's blocks.    *)

\* Borders that stay as they are go on describing the blocks.
LEMMA BordersKept ==
  ASSUME HeapSound, UNCHANGED <<region, heapbase, stksize>>,
         \A x \in Valid({"BORDER"}) : x \in DOMAIN chunk' /\ chunk'[x] = chunk[x],
         \A x \in DOMAIN chunk' : chunk'[x].valid = "BORDER" => x \in Valid({"BORDER"})
  PROVE  BlocksHaveBorders' /\ BordersDescribeBlocks' /\ HeapAndStack'
<1>1. Valid({"BORDER"})' = Valid({"BORDER"})
  BY DEF Valid
<1>2. HeapAndStack'
  BY DEF HeapSound, HeapAndStack
<1>3. BordersDescribeBlocks'
  BY <1>1 DEF HeapSound, BordersDescribeBlocks
<1>4. BlocksHaveBorders'
  BY <1>1 DEF HeapSound, BlocksHaveBorders
<1> QED
  BY <1>2, <1>3, <1>4

\* Chunks made of the bytes of chunks are owned.
LEMMA OwnedKept ==
  ASSUME HeapSound, UNCHANGED <<region, heapbase>>,
         \A b \in DOMAIN chunk' : \A x \in b..(b + Extent(b)' - 1) :
           \E a \in DOMAIN chunk : x \in a..(a + Extent(a) - 1)
  PROVE  ChunksOwned'
<1> SUFFICES ASSUME NEW b \in DOMAIN chunk', NEW x \in b..(b + Extent(b)' - 1)
             PROVE  Owned(x)'
  BY DEF ChunksOwned
<1>1. Owned(x)
  BY DEF HeapSound, ChunksOwned
<1> QED
  BY <1>1 DEF Owned

\* The list as it is, when no entry comes or goes.
LEMMA ListKept ==
  ASSUME HeapSound, UNCHANGED fl, pc # "merge", pc' # "merge",
         Valid({"FREE", "BORDER"})' = Valid({"FREE", "BORDER"})
  PROVE  FreeListAscending' /\ FreeListExact'
BY DEF HeapSound, FreeListAscending, FreeListExact, InFlight

\* Blocks the program holds do not notice a change to other chunks.
LEMMA LiveKept ==
  ASSUME HeapSound, UNCHANGED live,
         \A x \in Valid({"ALLOC", "MOVED"}) :
           x + HDR \in DOMAIN live => x \in DOMAIN chunk' /\ chunk'[x] = chunk[x]
  PROVE  LiveBlocksWhole'
<1> SUFFICES ASSUME NEW u \in DOMAIN live
             PROVE  u - HDR \in Valid({"ALLOC", "MOVED"})' /\ HDR + live[u] <= Extent(u - HDR)'
  BY DEF LiveBlocksWhole
<1>1. u - HDR \in Valid({"ALLOC", "MOVED"}) /\ HDR + live[u] <= Extent(u - HDR)
  BY DEF HeapSound, LiveBlocksWhole
<1>2. (u - HDR) + HDR = u
  BY DEF HeapSound, TypeOK, HDR
<1> QED
  BY <1>1, <1>2 DEF Valid, Extent

\* However a call goes on when __malloc has carved q for it.
LEMMA AfterCarveSound ==
  ASSUME HeapSound, pc = "carve", NEW q \in Nat, AfterCarve(q),
         q \in DOMAIN chunk', chunk'[q].valid = "ALLOC",
         chunk'[q].size \in Nat, chunk'[q].size >= ChunkSize(call.n),
         q \notin Valid({"ALLOC", "MOVED"}),
         \A x \in Valid({"ALLOC", "MOVED"}) : x \in DOMAIN chunk' /\ chunk'[x] = chunk[x]
  PROVE  /\ pc' \in {"idle", "align", "copy"} /\ call' \in Calls
         /\ DOMAIN live' \subseteq Nat /\ live' \in [DOMAIN live' -> Nat]
         /\ CallSound' /\ LiveBlocksWhole' /\ AssertHolds'
<1>1. /\ call \in Calls /\ live \in [DOMAIN live -> Nat] /\ DOMAIN live \subseteq Nat
  BY DEF HeapSound, TypeOK
<1>2. q + HDR \notin DOMAIN live /\ q + HDR \in Nat /\ (q + HDR) - HDR = q
  <2>1. q + HDR \in Nat /\ (q + HDR) - HDR = q
    BY DEF HDR
  <2> QED
    BY <2>1 DEF HeapSound, LiveBlocksWhole
<1>3. /\ call.op \in {"malloc", "memalign", "shrink", "grow"}
      /\ call.op \in {"shrink", "grow"} =>
            call.r \in Valid({"ALLOC"}) /\ call.r + HDR \in DOMAIN live
  BY DEF HeapSound, CallSound
<1>4. CASE call.op = "malloc"
  <2>1. pc' = "idle" /\ call' \in Calls /\ live' = Put(live, q + HDR, call.size)
    BY <1>4, ReturnTypes DEF AfterCarve
  <2>2. call.size \in Nat /\ chunk'[q].size >= HDR + call.size
    <3>1. call.size \in Nat /\ ChunkSize(call.n) >= HDR + call.size /\ ChunkSize(call.n) \in Nat
      BY CallSizes
    <3> QED
      BY <3>1 DEF HDR
  <2>3. /\ DOMAIN live' = DOMAIN live \cup {q + HDR}
        /\ live' \in [DOMAIN live' -> Nat]
        /\ live'[q + HDR] = call.size
        /\ \A u \in DOMAIN live : live'[u] = live[u]
    BY <1>1, <1>2, <2>1, <2>2 DEF Put
  <2>4. ASSUME NEW u \in DOMAIN live'
        PROVE  u - HDR \in Valid({"ALLOC", "MOVED"})' /\ HDR + live'[u] <= Extent(u - HDR)'
    <3>1. CASE u = q + HDR
      BY <1>2, <2>2, <2>3, <3>1 DEF Valid, Extent
    <3>2. CASE u \in DOMAIN live
      <4>1. u - HDR \in Valid({"ALLOC", "MOVED"}) /\ HDR + live[u] <= Extent(u - HDR)
        BY <3>2 DEF HeapSound, LiveBlocksWhole
      <4> QED
        BY <2>3, <3>2, <4>1 DEF Valid, Extent
    <3> QED
      BY <2>3, <3>1, <3>2
  <2>5. CallSound' /\ LiveBlocksWhole' /\ AssertHolds'
    BY <2>1, <2>4 DEF CallSound, LiveBlocksWhole, AssertHolds
  <2> QED
    BY <1>1, <1>2, <2>1, <2>3, <2>5
<1>5. CASE call.op # "malloc"
  <2>1. /\ pc' = (IF call.op = "memalign" THEN "align" ELSE "copy")
        /\ call' = [call EXCEPT !.q = q] /\ live' = live
    BY <1>5 DEF AfterCarve
  <2>2. /\ call' \in Calls /\ call'.q = q /\ call'.n = call.n
        /\ call'.op = call.op /\ call'.size = call.size /\ call'.align = call.align
        /\ call'.r = call.r
    BY <1>1, <2>1 DEF Calls
  <2>3. LiveBlocksWhole'
    BY <2>1, LiveKept
  <2>4. CallSound'
    <3>1. call.op \in {"shrink", "grow"} => call.r \in Valid({"ALLOC"})' /\ chunk'[call.r] = chunk[call.r]
      BY <1>3 DEF Valid
    <3>2. q \in Valid({"ALLOC"})'
      BY DEF Valid
    <3>3. /\ call.n = IF call.op = "memalign" /\ call.align > MALLOC_ALIGNMENT
                      THEN call.size + call.align - 1 ELSE call.size
          /\ call.op = "shrink" => chunk[call.r].size >= ChunkSize(call.n)
          /\ call.op = "grow" => chunk[call.r].size < ChunkSize(call.n)
      BY DEF HeapSound, CallSound
    <3>4. pc' \in {"align", "copy"} /\ (pc' = "align" <=> call.op = "memalign")
      BY <2>1
    <3> QED
      BY <1>2, <1>3, <1>5, <2>1, <2>2, <3>1, <3>2, <3>3, <3>4 DEF CallSound
  <2> QED
    BY <1>1, <2>1, <2>2, <2>3, <2>4 DEF AssertHolds
<1> QED
  BY <1>4, <1>5

\* Types, when the table of chunks and the list change.
LEMMA TypesChunks ==
  ASSUME TypeOK, UNCHANGED <<region, heapbase, stksize, split_mem, minhunk, maxhunk>>,
         fl' \in Seq(Nat), lost' \subseteq Nat,
         DOMAIN chunk' \subseteq Nat, chunk' \in [DOMAIN chunk' -> HeaderType],
         DOMAIN live' \subseteq Nat, live' \in [DOMAIN live' -> Nat],
         pc' \in Places, call' \in Calls
  PROVE  TypeOK'
BY DEF TypeOK, HeaderType

\* Splitting a free chunk and handing out its upper part keeps the invariant.
LEMMA CarveSplitSound ==
  ASSUME HeapSound, CarveSplit
  PROVE  HeapSound' /\ (Kept => Kept')
<1> PICK n, q, S, a :
           n = ChunkSize(call.n) /\ q = call.q /\ S = chunk[q].size /\ a = q + S - n
  OBVIOUS
<1>1. /\ pc = "carve" /\ S > n + HDR /\ AfterCarve(a)
      /\ chunk' = Put(Put(chunk, q, Header("FREE", S - n)), a, Header("ALLOC", n))
      /\ fl' = fl
      /\ UNCHANGED <<region, heapbase, stksize, split_mem, minhunk, maxhunk, lost>>
  BY DEF CarveSplit
<1>2. q \in DOMAIN chunk /\ chunk[q].valid = "FREE"
  BY <1>1 DEF HeapSound, CallSound, Valid
<1>3. q \in Nat /\ S \in Nat /\ Extent(q) = S
  BY <1>2, ChunkFields
<1>4. n \in Nat /\ n >= HDR
  BY <1>1, CallSizes DEF HDR
<1>5. a \in Nat /\ S - n \in Nat /\ q < a /\ a + n = q + S /\ S - n > HDR /\ a - q = S - n
  BY <1>1, <1>3, <1>4 DEF HDR
<1>6. a \notin DOMAIN chunk
  <2> SUFFICES ASSUME a \in DOMAIN chunk PROVE FALSE
    OBVIOUS
  <2>1. q + Extent(q) <= a \/ a + Extent(a) <= q
    BY <1>2, <1>5, <1>3, Apart
  <2>2. Extent(a) \in Nat
    BY ChunkFields
  <2> QED
    BY <1>3, <1>4, <1>5, <2>1, <2>2 DEF HDR
<1>7. /\ Header("FREE", S - n) \in HeaderType /\ Header("ALLOC", n) \in HeaderType
      /\ Header("FREE", S - n).valid = "FREE" /\ Header("FREE", S - n).size = S - n
      /\ Header("ALLOC", n).valid = "ALLOC" /\ Header("ALLOC", n).size = n
  BY <1>4, <1>5, HeaderFields
<1>8. /\ DOMAIN chunk' = DOMAIN chunk \cup {a}
      /\ chunk'[q] = Header("FREE", S - n) /\ chunk'[a] = Header("ALLOC", n)
      /\ \A x \in DOMAIN chunk : x # q => chunk'[x] = chunk[x]
  BY <1>1, <1>2, <1>6 DEF Put
<1>9. /\ Extent(q)' = S - n /\ Extent(a)' = n
      /\ \A x \in DOMAIN chunk : x # q => Extent(x)' = Extent(x)
  BY <1>7, <1>8 DEF Extent
<1>10. DOMAIN chunk' \subseteq Nat /\ chunk' \in [DOMAIN chunk' -> HeaderType]
  <2>1. DOMAIN chunk \subseteq Nat /\ chunk \in [DOMAIN chunk -> HeaderType]
    BY DEF HeapSound, TypeOK, HeaderType
  <2> QED
    BY <1>1, <1>5, <1>7, <1>8, <2>1 DEF Put
<1>11. /\ pc' \in {"idle", "align", "copy"} /\ call' \in Calls
       /\ DOMAIN live' \subseteq Nat /\ live' \in [DOMAIN live' -> Nat]
       /\ CallSound' /\ LiveBlocksWhole' /\ AssertHolds'
  <2>1. /\ chunk'[a].size = ChunkSize(call.n) /\ chunk'[a].size \in Nat
        /\ chunk'[a].valid = "ALLOC" /\ a \in DOMAIN chunk'
        /\ chunk'[a].size >= ChunkSize(call.n)
    BY <1>4, <1>7, <1>8
  <2>2. /\ a \notin Valid({"ALLOC", "MOVED"})
        /\ \A x \in Valid({"ALLOC", "MOVED"}) : x \in DOMAIN chunk' /\ chunk'[x] = chunk[x]
    BY <1>2, <1>6, <1>8 DEF Valid
  <2> QED
    BY <1>1, <1>5, <2>1, <2>2, AfterCarveSound
<1>12. TypeOK'
  BY <1>1, <1>10, <1>11, TypesChunks DEF HeapSound, TypeOK, Places
<1>13. SizesSound'
  <2>1. \A x \in DOMAIN chunk :
          /\ chunk[x].valid \in {"FREE", "ALLOC"} => chunk[x].size >= HDR
          /\ chunk[x].valid = "BORDER" => chunk[x].size = BORDER_EXTRA
    BY DEF HeapSound, SizesSound
  <2> QED
    BY <1>4, <1>5, <1>7, <1>8, <2>1 DEF SizesSound, HDR
<1>14. FreeListAscending' /\ FreeListExact'
  <2>1. Valid({"FREE", "BORDER"})' = Valid({"FREE", "BORDER"})
    BY <1>2, <1>6, <1>7, <1>8 DEF Valid
  <2> QED
    BY <1>1, <1>11, <2>1, ListKept
<1>15. ChunksDisjoint'
  <2> SUFFICES ASSUME NEW x \in DOMAIN chunk', NEW y \in DOMAIN chunk', x < y
               PROVE  x + Extent(x)' <= y
    BY DEF ChunksDisjoint
  <2>1. x \in Nat /\ y \in Nat
    BY <1>10
  <2>2. \A z \in DOMAIN chunk : z # q => z + Extent(z) <= q \/ q + S <= z
    BY <1>2, <1>3, Apart
  <2>3. \A z \in DOMAIN chunk : Extent(z) \in Nat /\ z \in Nat
    BY ChunkFields
  <2>4. CASE x = q
    BY <1>3, <1>4, <1>5, <1>8, <1>9, <2>1, <2>2, <2>3, <2>4
  <2>5. CASE x = a
    BY <1>3, <1>4, <1>5, <1>8, <1>9, <2>1, <2>2, <2>3, <2>5
  <2>6. CASE x \in DOMAIN chunk /\ x # q
    <3>1. CASE y = a
      BY <1>3, <1>4, <1>5, <1>8, <1>9, <2>1, <2>2, <2>3, <2>6, <3>1
    <3>2. CASE y \in DOMAIN chunk
      <4>1. x + Extent(x) <= y
        BY <2>6, <3>2 DEF HeapSound, ChunksDisjoint
      <4> QED
        BY <1>9, <2>6, <4>1
    <3> QED
      BY <1>8, <3>1, <3>2
  <2> QED
    BY <1>8, <2>4, <2>5, <2>6
<1>16. ChunksOwned'
  <2>1. ASSUME NEW b \in DOMAIN chunk', NEW x \in b..(b + Extent(b)' - 1)
        PROVE  \E c \in DOMAIN chunk : x \in c..(c + Extent(c) - 1)
    <3>1. CASE b = q \/ b = a
      <4>1. x \in q..(q + Extent(q) - 1)
        BY <1>3, <1>4, <1>5, <1>9, <2>1, <3>1
      <4> QED
        BY <1>2, <4>1
    <3>2. CASE b \in DOMAIN chunk /\ b # q
      BY <1>9, <2>1, <3>2
    <3> QED
      BY <1>8, <3>1, <3>2
  <2> QED
    BY <1>1, <2>1, OwnedKept
<1>17. BlocksHaveBorders' /\ BordersDescribeBlocks' /\ HeapAndStack'
  BY <1>1, <1>2, <1>7, <1>8, BordersKept DEF Valid
<1>18. \A x \in Nat : Covered(x)' <=> Covered(x)
  <2> SUFFICES ASSUME NEW x \in Nat PROVE Covered(x)' <=> Covered(x)
    OBVIOUS
  <2>1. ASSUME NEW c \in DOMAIN chunk, c <= x, x < c + Extent(c) PROVE Covered(x)'
    <3>1. CASE c = q
      <4>1. \/ q <= x /\ x < q + Extent(q)'
            \/ a <= x /\ x < a + Extent(a)'
        BY <1>3, <1>4, <1>5, <1>9, <2>1, <3>1
      <4> QED
        BY <1>2, <1>8, <4>1 DEF Covered
    <3>2. CASE c # q
      BY <1>8, <1>9, <2>1, <3>2 DEF Covered
    <3> QED
      BY <3>1, <3>2
  <2>2. ASSUME NEW c \in DOMAIN chunk', c <= x, x < c + Extent(c)' PROVE Covered(x)
    <3>1. CASE c \in {q, a}
      <4>1. q <= x /\ x < q + Extent(q)
        BY <1>3, <1>4, <1>5, <1>9, <2>2, <3>1
      <4> QED
        BY <1>2, <4>1 DEF Covered
    <3>2. CASE c \notin {q, a}
      BY <1>8, <1>9, <2>2, <3>2 DEF Covered
    <3> QED
      BY <3>1, <3>2
  <2> QED
    BY <2>1, <2>2 DEF Covered
<1>19. Kept => Kept'
  BY <1>1, <1>18, KeptSame
<1> QED
  BY <1>11, <1>12, <1>13, <1>14, <1>15, <1>16, <1>17, <1>19 DEF HeapSound

\* Chunks that keep their place stay apart, and owned.
LEMMA ExtentsKept ==
  ASSUME HeapSound, DOMAIN chunk' \subseteq DOMAIN chunk,
         \A x \in DOMAIN chunk' : Extent(x)' = Extent(x)
  PROVE  /\ ChunksDisjoint'
         /\ UNCHANGED <<region, heapbase>> => ChunksOwned'
<1>1. ChunksDisjoint'
  BY DEF HeapSound, ChunksDisjoint
<1>2. ASSUME UNCHANGED <<region, heapbase>> PROVE ChunksOwned'
  BY <1>2, OwnedKept
<1> QED
  BY <1>1, <1>2

\* So do chunks of which one swallows the next.
LEMMA Merged ==
  ASSUME HeapSound, NEW r \in DOMAIN chunk, NEW q \in DOMAIN chunk,
         r + Extent(r) = q,
         DOMAIN chunk' = DOMAIN chunk \ {q},
         Extent(r)' = Extent(r) + Extent(q),
         \A x \in DOMAIN chunk' : x # r => Extent(x)' = Extent(x)
  PROVE  /\ ChunksDisjoint'
         /\ UNCHANGED <<region, heapbase>> => ChunksOwned'
<1>1. \A z \in DOMAIN chunk : Extent(z) \in Nat /\ z \in Nat
  BY ChunkFields
<1>1a. Extent(r) >= HDR /\ Extent(q) >= HDR
  BY ChunkFields
<1>2. r < q
  BY <1>1, <1>1a DEF HDR
<1>3. ChunksDisjoint'
  <2> SUFFICES ASSUME NEW x \in DOMAIN chunk', NEW y \in DOMAIN chunk', x < y
               PROVE  x + Extent(x)' <= y
    BY DEF ChunksDisjoint
  <2>1. x \in DOMAIN chunk /\ y \in DOMAIN chunk /\ x # q /\ y # q
    OBVIOUS
  <2>2. x + Extent(x) <= y
    BY <2>1 DEF HeapSound, ChunksDisjoint
  <2>3. CASE x = r
    <3>1. q + Extent(q) <= y \/ y + Extent(y) <= q
      BY <2>1, Apart
    <3>2. Extent(y) >= HDR
      BY <2>1, ChunkFields
    <3> QED
      BY <1>1, <2>1, <2>2, <2>3, <3>1, <3>2 DEF HDR
  <2>4. CASE x # r
    BY <2>2, <2>4
  <2> QED
    BY <2>3, <2>4
<1>4. ASSUME UNCHANGED <<region, heapbase>> PROVE ChunksOwned'
  <2>1. ASSUME NEW b \in DOMAIN chunk', NEW x \in b..(b + Extent(b)' - 1)
        PROVE  \E c \in DOMAIN chunk : x \in c..(c + Extent(c) - 1)
    <3>1. CASE b = r
      <4>1. x \in r..(r + Extent(r) - 1) \/ x \in q..(q + Extent(q) - 1)
        BY <1>1, <1>2, <2>1, <3>1
      <4> QED
        BY <4>1
    <3>2. CASE b # r
      BY <3>2
    <3> QED
      BY <3>1, <3>2
  <2> QED
    BY <1>4, <2>1, OwnedKept
<1> QED
  BY <1>3, <1>4

\* The list without one of its entries.
LEMMA ListRemoved ==
  ASSUME HeapSound, NEW k \in 1..Len(fl), fl' = RemoveAt(fl, k),
         Valid({"FREE", "BORDER"})' \ InFlight'
           = (Valid({"FREE", "BORDER"}) \ InFlight) \ {fl[k]}
  PROVE  fl' \in Seq(Nat) /\ FreeListAscending' /\ FreeListExact'
<1>1. fl \in Seq(Nat) /\ Ascending(fl) /\ ToSet(fl) = Valid({"FREE", "BORDER"}) \ InFlight
  BY DEF HeapSound, TypeOK, FreeListAscending, FreeListExact, Ascending
<1>2. /\ RemoveAt(fl, k) \in Seq(Nat) /\ Ascending(RemoveAt(fl, k))
      /\ ToSet(RemoveAt(fl, k)) = ToSet(fl) \ {fl[k]}
  BY <1>1, RemoveAscending
<1>3. FreeListAscending'
  BY <1>2 DEF FreeListAscending, Ascending
<1>4. FreeListExact'
  <2>1. ToSet(fl') = Valid({"FREE", "BORDER"})' \ InFlight'
    BY <1>1, <1>2
  <2> QED
    BY <2>1 DEF FreeListExact, ToSet
<1> QED
  BY <1>2, <1>3, <1>4

\* The list with one more entry, where the walk for it stopped.
LEMMA ListInserted ==
  ASSUME HeapSound, NEW k \in 1..(Len(fl) + 1), NEW e \in Nat, StopsAt(k, e),
         e \notin ToSet(fl), fl' = InsertAt(fl, k, e),
         Valid({"FREE", "BORDER"})' \ InFlight'
           = (Valid({"FREE", "BORDER"}) \ InFlight) \cup {e}
  PROVE  fl' \in Seq(Nat) /\ FreeListAscending' /\ FreeListExact'
<1>1. fl \in Seq(Nat) /\ Ascending(fl) /\ ToSet(fl) = Valid({"FREE", "BORDER"}) \ InFlight
  BY DEF HeapSound, TypeOK, FreeListAscending, FreeListExact, Ascending
<1>2. k <= Len(fl) => fl[k] > e
  <2>1. ASSUME k <= Len(fl) PROVE fl[k] > e
    <3>1. k \in 1..Len(fl)
      BY <1>1, <2>1, LenProperties
    <3>2. fl[k] \in Nat /\ fl[k] >= e
      BY <3>1, <2>1, ListEntry DEF StopsAt
    <3>3. fl[k] # e
      BY <1>1, <3>1, LenProperties DEF ToSet
    <3> QED
      BY <3>2, <3>3
  <2> QED
    BY <2>1
<1>3. \A j \in 1..(k - 1) : fl[j] < e
  BY DEF StopsAt
<1>4. /\ InsertAt(fl, k, e) \in Seq(Nat) /\ Ascending(InsertAt(fl, k, e))
      /\ ToSet(InsertAt(fl, k, e)) = ToSet(fl) \cup {e}
  BY <1>1, <1>2, <1>3, InsertAscending
<1>5. FreeListAscending'
  BY <1>4 DEF FreeListAscending, Ascending
<1>6. FreeListExact'
  <2>1. ToSet(fl') = Valid({"FREE", "BORDER"})' \ InFlight'
    BY <1>1, <1>4
  <2> QED
    BY <2>1 DEF FreeListExact, ToSet
<1> QED
  BY <1>4, <1>5, <1>6

\* Unlinking a free chunk and handing it out whole keeps the invariant.
LEMMA CarveWholeSound ==
  ASSUME HeapSound, CarveWhole
  PROVE  HeapSound' /\ (Kept => Kept')
<1> PICK q, S : q = call.q /\ S = chunk[q].size
  OBVIOUS
<1>0. PICK k \in 1..Len(fl) : fl[k] = q /\ fl' = RemoveAt(fl, k)
  BY DEF CarveWhole
<1>1. /\ pc = "carve" /\ AfterCarve(q)
      /\ chunk' = Put(chunk, q, Header("ALLOC", S))
      /\ UNCHANGED <<region, heapbase, stksize, split_mem, minhunk, maxhunk, lost>>
  BY DEF CarveWhole
<1>2. q \in DOMAIN chunk /\ chunk[q].valid = "FREE" /\ S >= ChunkSize(call.n)
  BY <1>1 DEF HeapSound, CallSound, Valid
<1>3. q \in Nat /\ S \in Nat /\ Extent(q) = S /\ S >= HDR
  BY <1>2, ChunkFields
<1>4. /\ Header("ALLOC", S) \in HeaderType
      /\ Header("ALLOC", S).valid = "ALLOC" /\ Header("ALLOC", S).size = S
  BY <1>3, HeaderFields
<1>5. /\ DOMAIN chunk' = DOMAIN chunk /\ chunk'[q] = Header("ALLOC", S)
      /\ \A x \in DOMAIN chunk : x # q => chunk'[x] = chunk[x]
  BY <1>1, <1>2 DEF Put
<1>6. \A x \in DOMAIN chunk : Extent(x)' = Extent(x)
  BY <1>2, <1>3, <1>4, <1>5 DEF Extent
<1>7. DOMAIN chunk' \subseteq Nat /\ chunk' \in [DOMAIN chunk' -> HeaderType]
  <2>1. DOMAIN chunk \subseteq Nat /\ chunk \in [DOMAIN chunk -> HeaderType]
    BY DEF HeapSound, TypeOK, HeaderType
  <2> QED
    BY <1>1, <1>4, <1>5, <2>1 DEF Put
<1>8. /\ pc' \in {"idle", "align", "copy"} /\ call' \in Calls
      /\ DOMAIN live' \subseteq Nat /\ live' \in [DOMAIN live' -> Nat]
      /\ CallSound' /\ LiveBlocksWhole' /\ AssertHolds'
  <2>1. /\ chunk'[q].size \in Nat /\ chunk'[q].valid = "ALLOC" /\ q \in DOMAIN chunk'
        /\ chunk'[q].size >= ChunkSize(call.n)
    BY <1>2, <1>3, <1>4, <1>5
  <2>2. /\ q \notin Valid({"ALLOC", "MOVED"})
        /\ \A x \in Valid({"ALLOC", "MOVED"}) : x \in DOMAIN chunk' /\ chunk'[x] = chunk[x]
    BY <1>2, <1>5 DEF Valid
  <2> QED
    BY <1>1, <1>3, <2>1, <2>2, AfterCarveSound
<1>9. fl' \in Seq(Nat) /\ FreeListAscending' /\ FreeListExact'
  <2>1. InFlight = {} /\ InFlight' = {}
    BY <1>1, <1>8 DEF InFlight
  <2>2. Valid({"FREE", "BORDER"})' = Valid({"FREE", "BORDER"}) \ {q}
    BY <1>2, <1>4, <1>5 DEF Valid
  <2> QED
    BY <1>0, <2>1, <2>2, ListRemoved
<1>10. TypeOK'
  BY <1>1, <1>7, <1>8, <1>9, TypesChunks DEF HeapSound, TypeOK, Places
<1>11. SizesSound'
  <2>1. \A x \in DOMAIN chunk :
          /\ chunk[x].valid \in {"FREE", "ALLOC"} => chunk[x].size >= HDR
          /\ chunk[x].valid = "BORDER" => chunk[x].size = BORDER_EXTRA
    BY DEF HeapSound, SizesSound
  <2> QED
    BY <1>3, <1>4, <1>5, <2>1 DEF SizesSound
<1>12. ChunksDisjoint' /\ ChunksOwned'
  BY <1>1, <1>5, <1>6, ExtentsKept
<1>13. BlocksHaveBorders' /\ BordersDescribeBlocks' /\ HeapAndStack'
  BY <1>1, <1>2, <1>4, <1>5, BordersKept DEF Valid
<1>14. Kept => Kept'
  BY <1>1, <1>5, <1>6, CoveredSame, KeptSame
<1> QED
  BY <1>8, <1>9, <1>10, <1>11, <1>12, <1>13, <1>14 DEF HeapSound

\* A chunk replaced by one inside it.
LEMMA Shrunk ==
  ASSUME HeapSound, NEW q \in DOMAIN chunk, NEW m \in Nat,
         DOMAIN chunk' = (DOMAIN chunk \ {q}) \cup {m},
         m \notin DOMAIN chunk \ {q},
         q <= m, Extent(m)' \in Nat, m + Extent(m)' <= q + Extent(q),
         \A x \in DOMAIN chunk' : x # m => Extent(x)' = Extent(x)
  PROVE  /\ ChunksDisjoint'
         /\ UNCHANGED <<region, heapbase>> => ChunksOwned'
<1>1. \A z \in DOMAIN chunk : Extent(z) \in Nat /\ z \in Nat /\ Extent(z) >= HDR
  BY ChunkFields
<1>2. ChunksDisjoint'
  <2> SUFFICES ASSUME NEW x \in DOMAIN chunk', NEW y \in DOMAIN chunk', x < y
               PROVE  x + Extent(x)' <= y
    BY DEF ChunksDisjoint
  <2>1. CASE x = m
    <3>1. y \in DOMAIN chunk /\ y # q /\ y \in Nat
      BY <1>1, <2>1
    <3>2. q + Extent(q) <= y \/ y + Extent(y) <= q
      BY <3>1, Apart
    <3> QED
      BY <1>1, <2>1, <3>1, <3>2 DEF HDR
  <2>2. CASE x # m /\ y = m
    <3>1. x \in DOMAIN chunk /\ x # q /\ x \in Nat /\ Extent(x)' = Extent(x)
      BY <1>1, <2>2
    <3>2. q + Extent(q) <= x \/ x + Extent(x) <= q
      BY <3>1, Apart
    <3> QED
      BY <1>1, <2>2, <3>1, <3>2 DEF HDR
  <2>3. CASE x # m /\ y # m
    BY <2>3 DEF HeapSound, ChunksDisjoint
  <2> QED
    BY <2>1, <2>2, <2>3
<1>3. ASSUME UNCHANGED <<region, heapbase>> PROVE ChunksOwned'
  <2>1. ASSUME NEW b \in DOMAIN chunk', NEW x \in b..(b + Extent(b)' - 1)
        PROVE  \E c \in DOMAIN chunk : x \in c..(c + Extent(c) - 1)
    <3>1. CASE b = m
      <4>1. x \in q..(q + Extent(q) - 1)
        BY <1>1, <2>1, <3>1
      <4> QED
        BY <4>1
    <3>2. CASE b # m
      BY <3>2
    <3> QED
      BY <3>1, <3>2
  <2> QED
    BY <1>3, <2>1, OwnedKept
<1> QED
  BY <1>2, <1>3

\* memalign moving the header up inside its block keeps the invariant.
LEMMA AlignMovedSound ==
  ASSUME HeapSound, AlignMoved
  PROVE  HeapSound' /\ (Kept => Kept')
<1> PICK q, S, al, sz, mem, m :
           /\ q = call.q /\ S = chunk[q].size /\ al = call.align /\ sz = call.size
           /\ mem = RoundUp(q + HDR, al) /\ m = mem - HDR
  OBVIOUS
<1>1. /\ pc = "align" /\ pc' = "idle" /\ call' \in Calls
      /\ chunk' = Put(Drop(chunk, q), m, Header("MOVED", sz))
      /\ live' = Put(live, mem, sz)
      /\ lost' = lost \cup (ChunkBytes(q) \ Bytes(m, HDR + sz))
      /\ al > MALLOC_ALIGNMENT
      /\ UNCHANGED <<fl, region, heapbase, stksize, split_mem, minhunk, maxhunk>>
  BY ReturnTypes DEF AlignMoved
<1>2. /\ q \in DOMAIN chunk /\ chunk[q].valid = "ALLOC" /\ S >= ChunkSize(call.n)
      /\ q + HDR \notin DOMAIN live
      /\ call.n = sz + al - 1
  BY <1>1 DEF HeapSound, CallSound, Valid
<1>3. /\ q \in Nat /\ S \in Nat /\ Extent(q) = S /\ sz \in Nat /\ al \in Nat \ {0}
      /\ ChunkSize(call.n) \in Nat /\ ChunkSize(call.n) >= HDR + call.n
  BY <1>1, <1>2, ChunkFields, CallSizes
<1>4. mem \in Nat /\ q + HDR <= mem /\ mem <= q + HDR + al - 1
  <2>1. q + HDR \in Nat
    BY <1>3 DEF HDR
  <2> QED
    BY <1>3, <2>1, RoundUpBounds
<1>5. /\ m \in Nat /\ q <= m /\ m + HDR = mem /\ m + (HDR + sz) <= q + S
      /\ S - (HDR + sz) \in Nat
  BY <1>2, <1>3, <1>4 DEF HDR
<1>6. m \notin DOMAIN chunk \ {q}
  <2> SUFFICES ASSUME m \in DOMAIN chunk, m # q PROVE FALSE
    OBVIOUS
  <2>1. q + Extent(q) <= m \/ m + Extent(m) <= q
    BY <1>2, <1>5, Apart
  <2>2. Extent(m) \in Nat /\ Extent(m) >= HDR
    BY ChunkFields
  <2> QED
    BY <1>3, <1>5, <2>1, <2>2 DEF HDR
<1>7. /\ Header("MOVED", sz) \in HeaderType
      /\ Header("MOVED", sz).valid = "MOVED" /\ Header("MOVED", sz).size = sz
  BY <1>3, HeaderFields
<1>8. /\ DOMAIN chunk' = (DOMAIN chunk \ {q}) \cup {m}
      /\ chunk'[m] = Header("MOVED", sz)
      /\ \A x \in DOMAIN chunk \ {q} : chunk'[x] = chunk[x] /\ x # m
  BY <1>1, <1>6 DEF Put, Drop
<1>9. /\ Extent(m)' = HDR + sz
      /\ \A x \in DOMAIN chunk \ {q} : Extent(x)' = Extent(x)
  BY <1>7, <1>8 DEF Extent
<1>10. DOMAIN chunk' \subseteq Nat /\ chunk' \in [DOMAIN chunk' -> HeaderType]
  <2>1. DOMAIN chunk \subseteq Nat /\ chunk \in [DOMAIN chunk -> HeaderType]
    BY DEF HeapSound, TypeOK, HeaderType
  <2> QED
    BY <1>1, <1>5, <1>7, <1>8, <2>1 DEF Put, Drop
<1>11. /\ DOMAIN live' = DOMAIN live \cup {mem} /\ DOMAIN live' \subseteq Nat
       /\ live' \in [DOMAIN live' -> Nat]
       /\ live'[mem] = sz /\ \A u \in DOMAIN live : u # mem => live'[u] = live[u]
  <2>1. DOMAIN live \subseteq Nat /\ live \in [DOMAIN live -> Nat]
    BY DEF HeapSound, TypeOK
  <2> QED
    BY <1>1, <1>3, <1>4, <2>1 DEF Put
<1>12. TypeOK'
  <2>0. lost \subseteq Nat /\ fl' \in Seq(Nat)
    BY <1>1 DEF HeapSound, TypeOK
  <2>1. lost' \subseteq Nat
    BY <1>1, <1>2, <2>0, ChunkBytesAre
  <2> QED
    BY <1>1, <1>10, <1>11, <2>0, <2>1, TypesChunks DEF HeapSound, Places
<1>13. LiveBlocksWhole'
  <2> SUFFICES ASSUME NEW u \in DOMAIN live'
               PROVE  u - HDR \in Valid({"ALLOC", "MOVED"})' /\ HDR + live'[u] <= Extent(u - HDR)'
    BY DEF LiveBlocksWhole
  <2>1. CASE u = mem
    <3>1. u - HDR = m
      BY <1>4, <2>1 DEF HDR
    <3> QED
      BY <1>3, <1>7, <1>8, <1>9, <1>11, <2>1, <3>1 DEF Valid, HDR
  <2>2. CASE u # mem
    <3>1. u \in DOMAIN live /\ live'[u] = live[u]
      BY <1>11, <2>2
    <3>2. u - HDR \in Valid({"ALLOC", "MOVED"}) /\ HDR + live[u] <= Extent(u - HDR)
      BY <3>1 DEF HeapSound, LiveBlocksWhole
    <3>3. u - HDR # q
      BY <1>2, <1>3, <3>1 DEF HeapSound, TypeOK, HDR
    <3> QED
      BY <1>8, <1>9, <3>1, <3>2, <3>3 DEF Valid
  <2> QED
    BY <2>1, <2>2
<1>14. SizesSound'
  <2>1. \A x \in DOMAIN chunk :
          /\ chunk[x].valid \in {"FREE", "ALLOC"} => chunk[x].size >= HDR
          /\ chunk[x].valid = "BORDER" => chunk[x].size = BORDER_EXTRA
    BY DEF HeapSound, SizesSound
  <2> QED
    BY <1>7, <1>8, <2>1 DEF SizesSound
<1>15. FreeListAscending' /\ FreeListExact'
  <2>1. Valid({"FREE", "BORDER"})' = Valid({"FREE", "BORDER"})
    BY <1>2, <1>6, <1>7, <1>8 DEF Valid
  <2> QED
    BY <1>1, <2>1, ListKept
<1>16. ChunksDisjoint' /\ ChunksOwned'
  <2>1. Extent(m)' \in Nat /\ m + Extent(m)' <= q + Extent(q)
    BY <1>3, <1>5, <1>9 DEF HDR
  <2> QED
    BY <1>1, <1>2, <1>5, <1>6, <1>8, <1>9, <2>1, Shrunk
<1>17. BlocksHaveBorders' /\ BordersDescribeBlocks' /\ HeapAndStack'
  BY <1>1, <1>2, <1>7, <1>8, BordersKept DEF Valid
<1>18. CallSound' /\ AssertHolds'
  BY <1>1 DEF CallSound, AssertHolds
<1>19. Kept => Kept'
  <2> DEFINE B == ChunkBytes(q) \ Bytes(m, HDR + sz)
  <2>1. ASSUME NEW x \in Nat
        PROVE  x \in B <=> /\ q <= x /\ x < q + S
                          /\ ~(m <= x /\ x < m + (HDR + sz))
    <3>1. x \in ChunkBytes(q) <=> q <= x /\ x < q + S
      BY <1>2, <1>3, ChunkBytesAre
    <3>2. HDR + sz \in Nat
      BY <1>3 DEF HDR
    <3>3. x \in Bytes(m, HDR + sz) <=> m <= x /\ x < m + (HDR + sz)
      BY <1>5, <3>2, BytesAre
    <3> QED
      BY <3>1, <3>3
  <2>2. ASSUME NEW x \in Nat, NEW a \in DOMAIN chunk \ {q}, a <= x, x < a + Extent(a)
        PROVE  x \notin B
    <3>1. q + Extent(q) <= a \/ a + Extent(a) <= q
      BY <1>2, Apart
    <3>2. a \in Nat /\ Extent(a) \in Nat
      BY ChunkFields
    <3> QED
      BY <1>3, <2>1, <2>2, <3>1, <3>2
  <2> HIDE DEF B
  <2>3. ASSUME NEW x \in Nat, Covered(x), x \notin B PROVE Covered(x)'
    <3>1. PICK a \in DOMAIN chunk : a <= x /\ x < a + Extent(a)
      BY <2>3 DEF Covered
    <3>2. CASE a = q
      BY <1>3, <1>8, <1>9, <2>1, <2>3, <3>1, <3>2 DEF Covered
    <3>3. CASE a # q
      BY <1>8, <1>9, <3>1, <3>3 DEF Covered
    <3> QED
      BY <3>2, <3>3
  <2>4. ASSUME NEW x \in Nat, Covered(x)' PROVE Covered(x) /\ x \notin B
    <3>1. PICK a \in DOMAIN chunk' : a <= x /\ x < a + Extent(a)'
      BY <2>4 DEF Covered
    <3>2. CASE a = m
      <4>1. m <= x /\ x < m + (HDR + sz)
        BY <1>9, <3>1, <3>2
      <4>2. q <= x /\ x < q + Extent(q)
        BY <1>3, <1>5, <4>1 DEF HDR
      <4> QED
        BY <1>2, <2>1, <4>1, <4>2 DEF Covered
    <3>3. CASE a # m
      <4>1. a \in DOMAIN chunk \ {q} /\ Extent(a)' = Extent(a)
        BY <1>8, <1>9, <3>3
      <4> QED
        BY <2>2, <3>1, <4>1 DEF Covered
    <3> QED
      BY <3>2, <3>3
  <2>5. ASSUME NEW x \in Nat, x \in B PROVE Covered(x)
    BY <1>2, <1>3, <2>1, <2>5 DEF Covered
  <2>6. lost' = lost \cup B
    BY <1>1 DEF B
  <2> QED
    BY <1>1, <2>3, <2>4, <2>5, <2>6, KeptLost
<1> QED
  BY <1>12, <1>13, <1>14, <1>15, <1>16, <1>17, <1>18, <1>19 DEF HeapSound

\* __free refusing a header that memalign moved keeps the invariant.
LEMMA FreeRefusedSound ==
  ASSUME HeapSound, FreeRefused
  PROVE  HeapSound' /\ (Kept => Kept')
<1> PICK r : r = call.r
  OBVIOUS
<1>1. /\ pc = "free" /\ pc' = "idle" /\ call' \in Calls /\ chunk[r].valid # "ALLOC"
      /\ chunk' = Drop(chunk, r) /\ lost' = lost \cup ChunkBytes(r)
      /\ UNCHANGED <<fl, region, heapbase, stksize, split_mem, minhunk, maxhunk, live>>
  BY ReturnTypes DEF FreeRefused
<1>2. r \in DOMAIN chunk /\ chunk[r].valid = "MOVED" /\ r + HDR \notin DOMAIN live
  BY <1>1 DEF HeapSound, CallSound, Valid
<1>3. /\ DOMAIN chunk' = DOMAIN chunk \ {r}
      /\ \A x \in DOMAIN chunk' : chunk'[x] = chunk[x]
  BY <1>1 DEF Drop
<1>4. \A x \in DOMAIN chunk' : Extent(x)' = Extent(x)
  BY <1>3 DEF Extent
<1>5. DOMAIN chunk' \subseteq Nat /\ chunk' \in [DOMAIN chunk' -> HeaderType]
  <2>1. DOMAIN chunk \subseteq Nat /\ chunk \in [DOMAIN chunk -> HeaderType]
    BY DEF HeapSound, TypeOK, HeaderType
  <2> QED
    BY <1>1, <2>1 DEF Drop
<1>6. TypeOK'
  <2>1. lost \subseteq Nat /\ r \in Nat /\ Extent(r) \in Nat
    BY <1>2, ChunkFields DEF HeapSound, TypeOK
  <2>2. lost' \subseteq Nat
    BY <1>1, <1>2, <2>1, ChunkBytesAre
  <2> QED
    BY <1>1, <1>5, <2>2, TypesChunks DEF HeapSound, TypeOK, Places
<1>7. LiveBlocksWhole'
  BY <1>1, <1>2, <1>3, LiveKept DEF Valid
<1>8. SizesSound'
  BY <1>3 DEF HeapSound, SizesSound
<1>9. FreeListAscending' /\ FreeListExact'
  <2>1. Valid({"FREE", "BORDER"})' = Valid({"FREE", "BORDER"})
    BY <1>2, <1>3 DEF Valid
  <2> QED
    BY <1>1, <2>1, ListKept
<1>10. ChunksDisjoint' /\ ChunksOwned'
  BY <1>1, <1>3, <1>4, ExtentsKept
<1>11. BlocksHaveBorders' /\ BordersDescribeBlocks' /\ HeapAndStack'
  BY <1>1, <1>2, <1>3, BordersKept DEF Valid
<1>12. CallSound' /\ AssertHolds'
  BY <1>1 DEF CallSound, AssertHolds
<1>13. Kept => Kept'
  <2>1. \A x \in Nat : Covered(x)' <=>
          Covered(x) /\ ~\E a \in {r} : a <= x /\ x < a + Extent(a)
    BY <1>2, <1>3, CoveredDropped
  <2>2. \A x \in Nat : x \in ChunkBytes(r) <=> r <= x /\ x < r + Extent(r)
    BY <1>2, ChunkBytesAre
  <2>3. \A x \in Nat : /\ Covered(x)' <=> Covered(x) /\ x \notin ChunkBytes(r)
                       /\ x \in ChunkBytes(r) => Covered(x)
    BY <1>2, <2>1, <2>2 DEF Covered
  <2> QED
    BY <1>1, <2>3, KeptLost
<1> QED
  BY <1>6, <1>7, <1>8, <1>9, <1>10, <1>11, <1>12, <1>13 DEF HeapSound

\* __free marking a chunk that no free chunk follows keeps the invariant.
LEMMA FreeAloneSound ==
  ASSUME HeapSound, FreeAlone
  PROVE  HeapSound' /\ (Kept => Kept')
<1> PICK r, S : r = call.r /\ S = chunk[r].size
  OBVIOUS
<1>1. /\ pc = "free" /\ pc' = "merge" /\ chunk[r].valid = "ALLOC"
      /\ chunk' = Put(chunk, r, Header("FREE", S))
      /\ UNCHANGED <<fl, region, heapbase, stksize, split_mem, minhunk, maxhunk, call,
                     live, lost>>
  BY DEF FreeAlone
<1>2. r \in DOMAIN chunk /\ r + HDR \notin DOMAIN live
  BY <1>1 DEF HeapSound, CallSound, Valid
<1>3. S \in Nat /\ Extent(r) = S /\ S >= HDR
  BY <1>1, <1>2, ChunkFields
<1>4. /\ Header("FREE", S) \in HeaderType
      /\ Header("FREE", S).valid = "FREE" /\ Header("FREE", S).size = S
  BY <1>3, HeaderFields
<1>5. /\ DOMAIN chunk' = DOMAIN chunk /\ chunk'[r] = Header("FREE", S)
      /\ \A x \in DOMAIN chunk : x # r => chunk'[x] = chunk[x]
  BY <1>1, <1>2 DEF Put
<1>6. \A x \in DOMAIN chunk' : Extent(x)' = Extent(x)
  BY <1>1, <1>3, <1>4, <1>5 DEF Extent
<1>7. DOMAIN chunk' \subseteq Nat /\ chunk' \in [DOMAIN chunk' -> HeaderType]
  <2>1. DOMAIN chunk \subseteq Nat /\ chunk \in [DOMAIN chunk -> HeaderType]
    BY DEF HeapSound, TypeOK, HeaderType
  <2> QED
    BY <1>1, <1>4, <1>5, <2>1 DEF Put
<1>8. TypeOK'
  BY <1>1, <1>7, TypesChunks DEF HeapSound, TypeOK, Places
<1>9. LiveBlocksWhole'
  BY <1>1, <1>2, <1>5, LiveKept DEF Valid
<1>10. SizesSound'
  <2>1. \A x \in DOMAIN chunk :
          /\ chunk[x].valid \in {"FREE", "ALLOC"} => chunk[x].size >= HDR
          /\ chunk[x].valid = "BORDER" => chunk[x].size = BORDER_EXTRA
    BY DEF HeapSound, SizesSound
  <2> QED
    BY <1>3, <1>4, <1>5, <2>1 DEF SizesSound
<1>11. FreeListAscending' /\ FreeListExact'
  <2>1. InFlight = {} /\ InFlight' = {r}
    BY <1>1 DEF InFlight
  <2>2. Valid({"FREE", "BORDER"})' \ {r} = Valid({"FREE", "BORDER"})
    BY <1>1, <1>4, <1>5 DEF Valid
  <2>3. FreeListAscending'
    BY <1>1 DEF HeapSound, FreeListAscending
  <2>4. FreeListExact'
    BY <1>1, <2>1, <2>2 DEF HeapSound, FreeListExact
  <2> QED
    BY <2>3, <2>4
<1>12. ChunksDisjoint' /\ ChunksOwned'
  BY <1>1, <1>5, <1>6, ExtentsKept
<1>13. BlocksHaveBorders' /\ BordersDescribeBlocks' /\ HeapAndStack'
  BY <1>1, <1>4, <1>5, BordersKept DEF Valid
<1>14. CallSound' /\ AssertHolds'
  BY <1>1, <1>2, <1>4, <1>5 DEF CallSound, AssertHolds, Valid
<1>15. Kept => Kept'
  BY <1>1, <1>5, <1>6, CoveredSame, KeptSame
<1> QED
  BY <1>8, <1>9, <1>10, <1>11, <1>12, <1>13, <1>14, <1>15 DEF HeapSound

\* The free chunk the walk finds behind an allocated one starts where that one
\* ends: the overlap tests of __free and __realloc never fail.
LEMMA NextIsAdjacent ==
  ASSUME HeapSound, NEW r \in DOMAIN chunk, chunk[r].valid = "ALLOC",
         NEW k \in 1..(Len(fl) + 1), StopsAt(k, r), TakesAfter(k, r)
  PROVE  /\ k \in 1..Len(fl) /\ fl[k] \in DOMAIN chunk /\ fl[k] # r
         /\ chunk[fl[k]].valid = "FREE"
         /\ r + chunk[r].size = fl[k]
<1>1. k \in 1..Len(fl)
  BY DEF TakesAfter
<1>2. fl[k] \in Nat /\ fl[k] \in DOMAIN chunk /\ chunk[fl[k]].valid \in {"FREE", "BORDER"}
  BY <1>1, ListEntry
<1>3. fl[k] >= r /\ r + chunk[r].size >= fl[k] /\ chunk[fl[k]].valid # "BORDER"
  BY <1>1 DEF StopsAt, TakesAfter
<1>4. r \in Nat /\ Extent(r) = chunk[r].size /\ chunk[r].size \in Nat /\ Extent(fl[k]) \in Nat
      /\ Extent(fl[k]) >= HDR
  BY <1>2, ChunkFields
<1>5. fl[k] # r
  BY <1>2
<1>6. r + Extent(r) <= fl[k] \/ fl[k] + Extent(fl[k]) <= r
  BY <1>2, <1>5, Apart
<1>7. r + chunk[r].size = fl[k]
  BY <1>2, <1>3, <1>4, <1>6 DEF HDR
<1> QED
  BY <1>1, <1>2, <1>3, <1>5, <1>7

\* The table after a chunk has swallowed the free chunk behind it.
LEMMA MergedTable ==
  ASSUME HeapSound, NEW r \in DOMAIN chunk, NEW q \in DOMAIN chunk,
         chunk[r].valid \in {"FREE", "ALLOC"}, chunk[q].valid = "FREE",
         r + chunk[r].size = q, NEW v \in {"FREE", "ALLOC"},
         chunk' = Drop(Put(chunk, r, Header(v, chunk[r].size + chunk[q].size)), q)
  PROVE  /\ r # q /\ DOMAIN chunk' = DOMAIN chunk \ {q}
         /\ chunk'[r].valid = v /\ chunk'[r].size = chunk[r].size + chunk[q].size
         /\ \A x \in DOMAIN chunk' : x # r => chunk'[x] = chunk[x]
         /\ chunk' \in [DOMAIN chunk' -> HeaderType]
         /\ SizesSound' /\ ChunksDisjoint'
         /\ \A x \in Nat : Covered(x)' <=> Covered(x)
         /\ UNCHANGED <<region, heapbase>> => ChunksOwned'
         /\ UNCHANGED <<region, heapbase, stksize>> =>
              BlocksHaveBorders' /\ BordersDescribeBlocks' /\ HeapAndStack'
<1>1. /\ r \in Nat /\ Extent(r) = chunk[r].size /\ chunk[r].size \in Nat /\ Extent(r) >= HDR
      /\ q \in Nat /\ Extent(q) = chunk[q].size /\ chunk[q].size \in Nat /\ Extent(q) >= HDR
  BY ChunkFields
<1>2. r # q /\ chunk[r].size + chunk[q].size \in Nat /\ chunk[r].size + chunk[q].size >= HDR
  BY <1>1 DEF HDR
<1> PICK H : H = Header(v, chunk[r].size + chunk[q].size)
  OBVIOUS
<1>3. /\ H \in HeaderType /\ H.valid = v /\ H.size = chunk[r].size + chunk[q].size
  BY <1>2, HeaderFields
<1>4. /\ DOMAIN chunk' = DOMAIN chunk \ {q} /\ chunk'[r] = H
      /\ \A x \in DOMAIN chunk' : x # r => chunk'[x] = chunk[x]
  BY <1>2 DEF Put, Drop
<1>5. chunk' \in [DOMAIN chunk' -> HeaderType]
  <2>1. chunk \in [DOMAIN chunk -> HeaderType]
    BY DEF HeapSound, TypeOK, HeaderType
  <2> QED
    BY <1>3, <2>1 DEF Put, Drop
<1>6. SizesSound'
  <2>1. \A x \in DOMAIN chunk :
            /\ chunk[x].valid \in {"FREE", "ALLOC"} => chunk[x].size >= HDR
            /\ chunk[x].valid = "BORDER" => chunk[x].size = BORDER_EXTRA
    BY DEF HeapSound, SizesSound
  <2> QED
    BY <1>2, <1>3, <1>4, <2>1 DEF SizesSound
<1>7. /\ ChunksDisjoint' /\ (UNCHANGED <<region, heapbase>> => ChunksOwned')
      /\ \A x \in Nat : Covered(x)' <=> Covered(x)
  <2>1. /\ Extent(r)' = Extent(r) + Extent(q)
        /\ \A x \in DOMAIN chunk' : x # r => Extent(x)' = Extent(x)
    BY <1>1, <1>3, <1>4 DEF Extent
  <2>2. r + Extent(r) = q
    BY <1>1
  <2> QED
    BY <1>2, <1>4, <2>1, <2>2, Merged, CoveredMerged
<1>8. ASSUME UNCHANGED <<region, heapbase, stksize>>
      PROVE  BlocksHaveBorders' /\ BordersDescribeBlocks' /\ HeapAndStack'
  <2>1. /\ \A x \in Valid({"BORDER"}) : x \in DOMAIN chunk' /\ chunk'[x] = chunk[x]
        /\ \A x \in DOMAIN chunk' : chunk'[x].valid = "BORDER" => x \in Valid({"BORDER"})
    BY <1>3, <1>4 DEF Valid
  <2> QED
    BY <1>8, <2>1, BordersKept
<1> QED
  BY <1>2, <1>3, <1>4, <1>5, <1>6, <1>7, <1>8

\* __free merging a chunk with the free chunk after it keeps the invariant.
LEMMA FreeAfterSound ==
  ASSUME HeapSound, FreeAfter
  PROVE  HeapSound' /\ (Kept => Kept')
<1> PICK r : r = call.r
  OBVIOUS
<1>1. pc = "free" /\ chunk[r].valid = "ALLOC"
  BY DEF FreeAfter
<1>2. r \in DOMAIN chunk /\ r + HDR \notin DOMAIN live
  BY <1>1 DEF HeapSound, CallSound, Valid
<1> PICK k, q :
      /\ k \in 1..(Len(fl) + 1)
      /\ q = fl[k] /\ StopsAt(k, r) /\ TakesAfter(k, r)
      /\ r + chunk[r].size = q =>
           /\ chunk' = Drop(Put(chunk, r, Header("FREE", chunk[r].size + chunk[q].size)), q)
           /\ fl' = RemoveAt(fl, k) /\ pc' = "merge" /\ call' = call
  BY DEF FreeAfter
<1>3. /\ k \in 1..Len(fl) /\ q \in DOMAIN chunk /\ chunk[q].valid = "FREE"
      /\ r + chunk[r].size = q
  BY <1>1, <1>2, NextIsAdjacent
<1>4. /\ chunk' = Drop(Put(chunk, r, Header("FREE", chunk[r].size + chunk[q].size)), q)
      /\ fl' = RemoveAt(fl, k) /\ pc' = "merge" /\ call' = call
      /\ UNCHANGED <<region, heapbase, stksize, split_mem, minhunk, maxhunk, live, lost>>
  BY <1>3 DEF FreeAfter
<1>5. /\ r # q /\ DOMAIN chunk' = DOMAIN chunk \ {q} /\ chunk'[r].valid = "FREE"
      /\ \A x \in DOMAIN chunk' : x # r => chunk'[x] = chunk[x]
      /\ chunk' \in [DOMAIN chunk' -> HeaderType]
      /\ SizesSound' /\ ChunksDisjoint' /\ ChunksOwned'
      /\ \A x \in Nat : Covered(x)' <=> Covered(x)
      /\ BlocksHaveBorders' /\ BordersDescribeBlocks' /\ HeapAndStack'
  BY <1>1, <1>2, <1>3, <1>4, MergedTable
<1>6. fl' \in Seq(Nat) /\ FreeListAscending' /\ FreeListExact'
  <2>1. InFlight = {} /\ InFlight' = {r}
    BY <1>1, <1>4 DEF InFlight
  <2>2. Valid({"FREE", "BORDER"})' \ {r} = Valid({"FREE", "BORDER"}) \ {q}
    BY <1>1, <1>5 DEF Valid
  <2>3. Valid({"FREE", "BORDER"})' \ InFlight'
           = (Valid({"FREE", "BORDER"}) \ InFlight) \ {fl[k]}
    BY <2>1, <2>2
  <2> QED
    BY <1>3, <1>4, <2>3, ListRemoved
<1>7. TypeOK'
  <2>1. DOMAIN chunk' \subseteq Nat
    BY <1>5 DEF HeapSound, TypeOK
  <2> QED
    BY <1>4, <1>5, <1>6, <2>1, TypesChunks DEF HeapSound, TypeOK, Places
<1>8. LiveBlocksWhole'
  BY <1>2, <1>3, <1>4, <1>5, LiveKept DEF Valid
<1>9. CallSound' /\ AssertHolds'
  BY <1>2, <1>4, <1>5 DEF CallSound, AssertHolds, Valid
<1>10. Kept => Kept'
  BY <1>4, <1>5, KeptSame
<1> QED
  BY <1>5, <1>6, <1>7, <1>8, <1>9, <1>10 DEF HeapSound

\* __realloc growing into the free chunk after the block keeps the invariant,
\* and its assertion holds.
LEMMA CallExtendSound ==
  ASSUME HeapSound, NEW u \in Resizable, NEW n \in Requests, CallExtend(u, n)
  PROVE  HeapSound' /\ (Kept => Kept')
<1> PICK p : p = u - HDR
  OBVIOUS
<1>1. /\ n \in Nat /\ u \in DOMAIN live /\ u \in Nat /\ p \in DOMAIN chunk /\ p + HDR = u
      /\ chunk[p].valid = "ALLOC"
  <2>1. n \in Nat /\ u \in DOMAIN live /\ u \in Nat
    BY SizeAssumption DEF HeapSound, TypeOK, Resizable
  <2>2. p \in DOMAIN chunk /\ chunk[p].valid = "ALLOC"
    BY <2>1 DEF HeapSound, LiveBlocksWhole, Resizable, Valid
  <2> QED
    BY <2>1, <2>2 DEF HDR
<1>2. /\ pc = "idle"
      /\ UNCHANGED <<region, heapbase, stksize, split_mem, minhunk, maxhunk, call, lost>>
  BY DEF CallExtend
<1> PICK k, t :
      /\ k \in 1..Len(fl)
      /\ t = fl[k] /\ StopsAt(k, p) /\ CanExtend(k, p, n)
      /\ p + chunk[p].size = t =>
           /\ chunk' = Drop(Put(chunk, p, Header("ALLOC", chunk[p].size + chunk[t].size)), t)
           /\ fl' = RemoveAt(fl, k) /\ pc' = "idle" /\ live' = Put(live, u, n)
  BY DEF CallExtend
<1>3. /\ t \in DOMAIN chunk /\ chunk[t].valid = "FREE" /\ p + chunk[p].size = t
      /\ chunk[p].size + chunk[t].size >= ChunkSize(n)
  <2>1. k \in 1..(Len(fl) + 1) /\ TakesAfter(k, p)
    BY DEF CanExtend, HeapSound, TypeOK
  <2> QED
    BY <1>1, <2>1, NextIsAdjacent DEF CanExtend
<1>4. /\ chunk' = Drop(Put(chunk, p, Header("ALLOC", chunk[p].size + chunk[t].size)), t)
      /\ fl' = RemoveAt(fl, k) /\ pc' = "idle" /\ live' = Put(live, u, n)
  BY <1>3
<1>5. /\ p # t /\ DOMAIN chunk' = DOMAIN chunk \ {t}
      /\ chunk'[p].valid = "ALLOC" /\ chunk'[p].size = chunk[p].size + chunk[t].size
      /\ \A x \in DOMAIN chunk' : x # p => chunk'[x] = chunk[x]
      /\ chunk' \in [DOMAIN chunk' -> HeaderType]
      /\ SizesSound' /\ ChunksDisjoint' /\ ChunksOwned'
      /\ \A x \in Nat : Covered(x)' <=> Covered(x)
      /\ BlocksHaveBorders' /\ BordersDescribeBlocks' /\ HeapAndStack'
  BY <1>1, <1>2, <1>3, <1>4, MergedTable
<1>6. fl' \in Seq(Nat) /\ FreeListAscending' /\ FreeListExact'
  <2>1. InFlight = {} /\ InFlight' = {}
    BY <1>2, <1>4 DEF InFlight
  <2>2. Valid({"FREE", "BORDER"})' = Valid({"FREE", "BORDER"}) \ {t}
    BY <1>1, <1>5 DEF Valid
  <2>3. Valid({"FREE", "BORDER"})' \ InFlight'
           = (Valid({"FREE", "BORDER"}) \ InFlight) \ {fl[k]}
    BY <2>1, <2>2
  <2> QED
    BY <1>4, <2>3, ListRemoved
<1>7. /\ DOMAIN live' = DOMAIN live /\ live' \in [DOMAIN live' -> Nat]
      /\ live'[u] = n /\ \A w \in DOMAIN live : w # u => live'[w] = live[w]
  <2>1. live \in [DOMAIN live -> Nat]
    BY DEF HeapSound, TypeOK
  <2> QED
    BY <1>1, <1>4, <2>1 DEF Put
<1>8. TypeOK'
  <2>1. DOMAIN chunk' \subseteq Nat /\ DOMAIN live' \subseteq Nat
    BY <1>5, <1>7 DEF HeapSound, TypeOK
  <2> QED
    BY <1>2, <1>4, <1>5, <1>6, <1>7, <2>1, TypesChunks DEF HeapSound, TypeOK, Places
<1>9. LiveBlocksWhole'
  <2> SUFFICES ASSUME NEW w \in DOMAIN live
               PROVE  w - HDR \in Valid({"ALLOC", "MOVED"})' /\ HDR + live'[w] <= Extent(w - HDR)'
    BY <1>7 DEF LiveBlocksWhole
  <2>1. CASE w = u
    <3>1. ChunkSize(n) \in Nat /\ ChunkSize(n) >= n + HDR
      BY <1>1, ChunkSizeBounds
    <3>2. chunk[p].size \in Nat /\ chunk[t].size \in Nat
      BY <1>1, <1>3, ChunkFields
    <3>3. HDR + n <= chunk[p].size + chunk[t].size
      BY <1>1, <1>3, <3>1, <3>2 DEF HDR
    <3> QED
      BY <1>1, <1>3, <1>5, <1>7, <2>1, <3>3 DEF Valid, Extent
  <2>2. CASE w # u
    <3>1. w - HDR \in Valid({"ALLOC", "MOVED"}) /\ HDR + live[w] <= Extent(w - HDR)
      BY DEF HeapSound, LiveBlocksWhole
    <3>2. w - HDR # p
      BY <1>1, <2>2, SMTT(30) DEF HeapSound, TypeOK, HDR
    <3> QED
      BY <1>3, <1>5, <1>7, <2>2, <3>1, <3>2 DEF Valid, Extent
  <2> QED
    BY <2>1, <2>2
<1>10. CallSound' /\ AssertHolds'
  BY <1>4 DEF CallSound, AssertHolds
<1>11. Kept => Kept'
  BY <1>2, <1>5, KeptSame
<1> QED
  BY <1>5, <1>6, <1>8, <1>9, <1>10, <1>11 DEF HeapSound

-----------------------------------------------------------------------------
(* Memory from the system.                                                 *)

\* Memory of which no byte was owned lies apart from every chunk.
LEMMA Fresh ==
  ASSUME HeapSound, NEW b \in Nat, NEW sz \in Nat, sz > 0,
         \A x \in b..(b + sz - 1) : ~Owned(x)
  PROVE  \A a \in DOMAIN chunk : a + Extent(a) <= b \/ b + sz <= a
<1> SUFFICES ASSUME NEW a \in DOMAIN chunk, a + Extent(a) > b, b + sz > a
             PROVE  FALSE
  <2>1. \A a \in DOMAIN chunk : a \in Nat /\ Extent(a) \in Nat
    BY ChunkFields
  <2> QED
    BY <2>1
<1>1. a \in Nat /\ Extent(a) \in Nat /\ Extent(a) >= HDR
  BY ChunkFields
<1>2. \A x \in a..(a + Extent(a) - 1) : Owned(x)
  BY DEF HeapSound, ChunksOwned
<1>3. CASE a >= b
  <2>1. a \in a..(a + Extent(a) - 1) /\ a \in b..(b + sz - 1)
    BY <1>1, <1>3 DEF HDR
  <2> QED
    BY <1>2, <2>1
<1>4. CASE a < b
  <2>1. b \in a..(a + Extent(a) - 1) /\ b \in b..(b + sz - 1)
    BY <1>1, <1>4
  <2> QED
    BY <1>2, <2>1
<1> QED
  BY <1>1, <1>3, <1>4

\* Two entries inserted at the same place: c, and b below it.
LEMMA InsertTwo ==
  ASSUME NEW s \in Seq(Nat), Ascending(s), NEW k \in 1..(Len(s) + 1),
         NEW b \in Nat, NEW c \in Nat, b < c,
         \A j \in 1..(k - 1) : s[j] < b,
         k <= Len(s) => s[k] > c
  PROVE  /\ InsertAt(InsertAt(s, k, c), k, b) \in Seq(Nat)
         /\ Ascending(InsertAt(InsertAt(s, k, c), k, b))
         /\ ToSet(InsertAt(InsertAt(s, k, c), k, b)) = ToSet(s) \cup {b, c}
<1> DEFINE t == InsertAt(s, k, c)
<1>1. Len(s) \in Nat /\ \A j \in 1..Len(s) : s[j] \in Nat
  BY LenProperties, ElementOfSeq
<1>2. \A j \in 1..(k - 1) : j \in 1..(Len(s) + 1) /\ j < k /\ s[j] \in Nat
  BY <1>1
<1>3. t \in Seq(Nat) /\ Ascending(t) /\ ToSet(t) = ToSet(s) \cup {c}
  <2>1. \A j \in 1..(k - 1) : s[j] < c
    BY <1>2
  <2> QED
    BY <2>1, InsertAscending
<1>4. /\ Len(t) = Len(s) + 1 /\ t[k] = c
      /\ \A j \in 1..(Len(s) + 1) : j < k => t[j] = s[j]
  BY InsertAtElements, SMTT(30)
<1> HIDE DEF t
<1>5. k \in 1..(Len(t) + 1) /\ t[k] > b /\ \A j \in 1..(k - 1) : t[j] < b
  BY <1>1, <1>2, <1>4
<1>6. /\ InsertAt(t, k, b) \in Seq(Nat) /\ Ascending(InsertAt(t, k, b))
      /\ ToSet(InsertAt(t, k, b)) = ToSet(t) \cup {b}
  BY <1>3, <1>5, InsertAscending
<1>7. ToSet(t) \cup {b} = ToSet(s) \cup {b, c}
  BY <1>3
<1> QED
  BY <1>6, <1>7 DEF t

\* New memory without a border.
LEMMA LinkPlain ==
  ASSUME HeapSound, pc = "sbrk", pc' = "carve", heapbase # NULL,
         NEW b \in Nat, NEW sz \in Nat, sz >= HDR,
         \A a \in DOMAIN chunk : a + Extent(a) <= b \/ b + sz <= a,
         LinkNew(b, sz)
  PROVE  /\ fl' \in Seq(Nat) /\ FreeListAscending' /\ FreeListExact'
         /\ DOMAIN chunk' \subseteq Nat /\ chunk' \in [DOMAIN chunk' -> HeaderType]
         /\ SizesSound' /\ ChunksDisjoint'
         /\ b \notin DOMAIN chunk
         /\ DOMAIN chunk' = DOMAIN chunk \cup {b}
         /\ \A x \in DOMAIN chunk : chunk'[x] = chunk[x]
         /\ chunk'[b].valid = "FREE" /\ chunk'[b].size = sz
         /\ call' = [call EXCEPT !.q = b]
         /\ Extent(b)' = sz
         /\ \A x \in DOMAIN chunk : Extent(x)' = Extent(x)
         /\ \A x \in Nat : Covered(x)' <=> Covered(x) \/ (b <= x /\ x < b + sz)
<1> PICK k \in 1..(Len(fl) + 1) :
      /\ StopsAt(k, b)
      /\ chunk' = Put(chunk, b, Header("FREE", sz))
      /\ fl' = InsertAt(fl, k, b)
      /\ call' = [call EXCEPT !.q = b]
  BY DEF LinkNew
<1>2. /\ Header("FREE", sz) \in HeaderType
      /\ Header("FREE", sz).valid = "FREE" /\ Header("FREE", sz).size = sz
  BY HeaderFields
<1>3. \A x \in DOMAIN chunk : x \in Nat /\ Extent(x) \in Nat /\ Extent(x) >= HDR
  BY ChunkFields
<1>4. b \notin DOMAIN chunk
  BY <1>3 DEF HDR
<1>5. /\ DOMAIN chunk' = DOMAIN chunk \cup {b}
      /\ chunk'[b] = Header("FREE", sz)
      /\ \A x \in DOMAIN chunk : chunk'[x] = chunk[x]
  BY <1>4 DEF Put
<1>6. /\ Extent(b)' = sz
      /\ \A x \in DOMAIN chunk : Extent(x)' = Extent(x)
  BY <1>2, <1>5 DEF Extent
<1>7. DOMAIN chunk' \subseteq Nat /\ chunk' \in [DOMAIN chunk' -> HeaderType]
  <2>1. DOMAIN chunk \subseteq Nat /\ chunk \in [DOMAIN chunk -> HeaderType]
    BY DEF HeapSound, TypeOK, HeaderType
  <2> QED
    BY <1>2, <1>5, <2>1 DEF Put
<1>8. SizesSound'
  <2>1. \A x \in DOMAIN chunk :
          /\ chunk[x].valid \in {"FREE", "ALLOC"} => chunk[x].size >= HDR
          /\ chunk[x].valid = "BORDER" => chunk[x].size = BORDER_EXTRA
    BY DEF HeapSound, SizesSound
  <2> QED
    BY <1>2, <1>5, <2>1 DEF SizesSound
<1>9. ChunksDisjoint'
  <2> SUFFICES ASSUME NEW x \in DOMAIN chunk', NEW y \in DOMAIN chunk', x < y
               PROVE  x + Extent(x)' <= y
    BY DEF ChunksDisjoint
  <2>0. x \in Nat /\ y \in Nat /\ HDR > 0
    BY <1>7 DEF HDR
  <2>1. CASE x = b
    <3>1. y \in DOMAIN chunk
      BY <1>5, <2>0, <2>1
    <3> QED
      BY <1>3, <1>6, <2>0, <2>1, <3>1
  <2>2. CASE x \in DOMAIN chunk /\ y = b
    BY <1>3, <1>6, <2>0, <2>2
  <2>3. CASE x \in DOMAIN chunk /\ y \in DOMAIN chunk
    BY <1>6, <2>3 DEF HeapSound, ChunksDisjoint
  <2> QED
    BY <1>5, <2>1, <2>2, <2>3
<1>10. fl' \in Seq(Nat) /\ FreeListAscending' /\ FreeListExact'
  <2>1. InFlight = {} /\ InFlight' = {}
    BY DEF InFlight
  <2>2. Valid({"FREE", "BORDER"})' = Valid({"FREE", "BORDER"}) \cup {b}
    BY <1>2, <1>5 DEF Valid
  <2>3. b \notin ToSet(fl)
    BY <1>4 DEF HeapSound, FreeListExact, Valid
  <2> QED
    BY <2>1, <2>2, <2>3, ListInserted
<1>11. \A x \in Nat : Covered(x)' <=> Covered(x) \/ (b <= x /\ x < b + sz)
  BY <1>5, <1>6 DEF Covered
<1> QED
  BY <1>2, <1>4, <1>5, <1>6, <1>7, <1>8, <1>9, <1>10, <1>11

\* The call, and the blocks of the program, when the new chunk is c.
LEMMA LinkedCall ==
  ASSUME HeapSound, pc = "sbrk", pc' = "carve", live' = live, NEW c \in Nat,
         call' = [call EXCEPT !.q = c],
         c \in DOMAIN chunk', chunk'[c].valid = "FREE",
         chunk'[c].size >= ChunkSize(call.n),
         \A x \in DOMAIN chunk : x \in DOMAIN chunk' /\ chunk'[x] = chunk[x]
  PROVE  call' \in Calls /\ CallSound' /\ LiveBlocksWhole' /\ AssertHolds'
<1>1. /\ call' \in Calls /\ call'.q = c /\ call'.n = call.n
      /\ call'.op = call.op /\ call'.size = call.size /\ call'.align = call.align
      /\ call'.r = call.r
  BY DEF HeapSound, TypeOK, Calls
<1>2. LiveBlocksWhole'
  BY LiveKept DEF Valid
<1>3. CallSound'
  BY <1>1 DEF HeapSound, CallSound, Valid
<1> QED
  BY <1>1, <1>2, <1>3 DEF AssertHolds

\* New memory that starts with a border.
LEMMA LinkBorder ==
  ASSUME HeapSound, pc = "sbrk", pc' = "carve", live' = live, heapbase = NULL,
         NEW b \in Nat, NEW sz \in Nat, sz >= BORDER_EXTRA + HDR,
         sz >= ChunkSize(call.n) + BORDER_EXTRA,
         \A a \in DOMAIN chunk : a + Extent(a) <= b \/ b + sz <= a,
         LinkNew(b, sz)
  PROVE  /\ fl' \in Seq(Nat) /\ FreeListAscending' /\ FreeListExact'
         /\ DOMAIN chunk' \subseteq Nat /\ chunk' \in [DOMAIN chunk' -> HeaderType]
         /\ SizesSound' /\ ChunksDisjoint'
         /\ \A x \in DOMAIN chunk : x \in DOMAIN chunk' /\ chunk'[x] = chunk[x]
         /\ \A e \in DOMAIN chunk' :
              \/ e \in DOMAIN chunk /\ Extent(e)' = Extent(e)
              \/ e \in Nat /\ Extent(e)' \in Nat /\ b <= e /\ e + Extent(e)' <= b + sz
         /\ \A x \in Nat : Covered(x)' <=> Covered(x) \/ (b <= x /\ x < b + sz)
         /\ Valid({"BORDER"})' = Valid({"BORDER"}) \cup {b}
         /\ BORDER_EXTRA + chunk'[b].asize = sz
         /\ call' \in Calls /\ CallSound' /\ LiveBlocksWhole' /\ AssertHolds'
<1> PICK c, S : c = b + BORDER_EXTRA /\ S = sz - BORDER_EXTRA
  OBVIOUS
<1>1. c \in Nat /\ S \in Nat /\ S >= HDR /\ b < c /\ c + S = b + sz /\ BORDER_EXTRA + S = sz
  BY DEF BORDER_EXTRA, HDR
<1> PICK k \in 1..(Len(fl) + 1) :
      /\ StopsAt(k, b)
      /\ chunk' = Put(Put(chunk, b, Border(S)), c, Header("FREE", S))
      /\ fl' = InsertAt(InsertAt(fl, k, c), k, b)
      /\ call' = [call EXCEPT !.q = c]
  BY DEF LinkNew
<1>2. /\ Header("FREE", S) \in HeaderType /\ Border(S) \in HeaderType
      /\ Header("FREE", S).valid = "FREE" /\ Header("FREE", S).size = S
      /\ Border(S).valid = "BORDER" /\ Border(S).size = BORDER_EXTRA /\ Border(S).asize = S
  BY <1>1, HeaderFields
<1>3. \A x \in DOMAIN chunk : x \in Nat /\ Extent(x) \in Nat /\ Extent(x) >= HDR
  BY ChunkFields
<1>4. b \notin DOMAIN chunk /\ c \notin DOMAIN chunk
  BY <1>1, <1>3 DEF HDR
<1>5. /\ DOMAIN chunk' = DOMAIN chunk \cup {b, c}
      /\ chunk'[b] = Border(S) /\ chunk'[c] = Header("FREE", S)
      /\ \A x \in DOMAIN chunk : chunk'[x] = chunk[x]
  BY <1>1, <1>4 DEF Put
<1>6. /\ Extent(b)' = BORDER_EXTRA /\ Extent(c)' = S
      /\ \A x \in DOMAIN chunk : Extent(x)' = Extent(x)
  BY <1>2, <1>5 DEF Extent
<1>7. DOMAIN chunk' \subseteq Nat /\ chunk' \in [DOMAIN chunk' -> HeaderType]
  <2>1. DOMAIN chunk \subseteq Nat /\ chunk \in [DOMAIN chunk -> HeaderType]
    BY DEF HeapSound, TypeOK, HeaderType
  <2> QED
    BY <1>1, <1>2, <1>5, <2>1 DEF Put
<1>8. SizesSound'
  <2>1. \A x \in DOMAIN chunk :
          /\ chunk[x].valid \in {"FREE", "ALLOC"} => chunk[x].size >= HDR
          /\ chunk[x].valid = "BORDER" => chunk[x].size = BORDER_EXTRA
    BY DEF HeapSound, SizesSound
  <2> QED
    BY <1>1, <1>2, <1>5, <2>1 DEF SizesSound
<1>9. ChunksDisjoint'
  <2> SUFFICES ASSUME NEW x \in DOMAIN chunk', NEW y \in DOMAIN chunk', x < y
               PROVE  x + Extent(x)' <= y
    BY DEF ChunksDisjoint
  <2>0. BORDER_EXTRA \in Nat /\ b + BORDER_EXTRA = c /\ HDR > 0
    BY DEF BORDER_EXTRA, HDR
  <2>0a. x \in Nat /\ y \in Nat
    BY <1>7
  <2>0b. \A z \in DOMAIN chunk : z > b => b + sz <= z
    BY <1>1, <1>3, <2>0, SMTT(30)
  <2>1. CASE x = b
    <3>1. y \in DOMAIN chunk \/ y = c
      BY <1>5, <2>1, <2>0a
    <3>2. c <= y
      BY <1>1, <2>0, <2>0a, <2>0b, <2>1, <3>1
    <3> QED
      BY <1>6, <2>0, <2>1, <3>2
  <2>2. CASE x = c
    <3>1. y \in DOMAIN chunk /\ y > b
      BY <1>1, <1>5, <2>2, <2>0a
    <3> QED
      BY <1>1, <1>6, <2>0b, <2>2, <3>1
  <2>3. CASE x \in DOMAIN chunk /\ y \in {b, c}
    BY <1>1, <1>3, <1>6, <2>0, <2>3, SMTT(30)
  <2>4. CASE x \in DOMAIN chunk /\ y \in DOMAIN chunk
    BY <1>6, <2>4 DEF HeapSound, ChunksDisjoint
  <2> QED
    BY <1>5, <2>1, <2>2, <2>3, <2>4
<1>10. fl' \in Seq(Nat) /\ FreeListAscending' /\ FreeListExact'
  <2>1. ASSUME k <= Len(fl) PROVE fl[k] > c
    <3>1. k \in 1..Len(fl)
      BY <2>1 DEF HeapSound, TypeOK
    <3>2. fl[k] \in DOMAIN chunk /\ fl[k] >= b
      BY <2>1, <3>1, ListEntry DEF StopsAt
    <3> QED
      BY <1>1, <1>3, <3>2 DEF HDR
  <2>2. fl' \in Seq(Nat) /\ Ascending(fl') /\ ToSet(fl') = ToSet(fl) \cup {b, c}
    <3>1. fl \in Seq(Nat) /\ Ascending(fl)
      BY DEF HeapSound, TypeOK, FreeListAscending, Ascending
    <3>2. \A j \in 1..(k - 1) : fl[j] < b
      BY DEF StopsAt
    <3> QED
      <4>1. /\ InsertAt(InsertAt(fl, k, c), k, b) \in Seq(Nat)
            /\ Ascending(InsertAt(InsertAt(fl, k, c), k, b))
            /\ ToSet(InsertAt(InsertAt(fl, k, c), k, b)) = ToSet(fl) \cup {b, c}
        BY <1>1, <2>1, <3>1, <3>2, InsertTwo
      <4> QED
        BY <4>1
  <2>3. FreeListAscending'
    BY <2>2 DEF FreeListAscending, Ascending
  <2>4. InFlight = {} /\ InFlight' = {}
    BY DEF InFlight
  <2>5. Valid({"FREE", "BORDER"})' = Valid({"FREE", "BORDER"}) \cup {b, c}
    BY <1>2, <1>5 DEF Valid
  <2>6. FreeListExact'
    <3>1. ToSet(fl') = Valid({"FREE", "BORDER"})' \ InFlight'
      BY <2>2, <2>4, <2>5 DEF HeapSound, FreeListExact
    <3> QED
      BY <3>1 DEF FreeListExact, ToSet
  <2> QED
    BY <2>2, <2>3, <2>6
<1>11. call' \in Calls /\ CallSound' /\ LiveBlocksWhole' /\ AssertHolds'
  <2>1. S >= ChunkSize(call.n)
    <3>1. ChunkSize(call.n) \in Nat
      BY CallSizes
    <3> QED
      BY <1>1, <3>1, SMTT(30) DEF BORDER_EXTRA
  <2>2. /\ c \in DOMAIN chunk' /\ chunk'[c].valid = "FREE"
        /\ chunk'[c].size >= ChunkSize(call.n)
        /\ \A x \in DOMAIN chunk : x \in DOMAIN chunk' /\ chunk'[x] = chunk[x]
    BY <1>2, <1>5, <2>1
  <2> QED
    BY <1>1, <2>2, LinkedCall
<1>12. /\ Valid({"BORDER"})' = Valid({"BORDER"}) \cup {b}
       /\ BORDER_EXTRA + chunk'[b].asize = sz
  BY <1>1, <1>2, <1>5 DEF Valid
<1>13. ASSUME NEW e \in DOMAIN chunk'
       PROVE  \/ e \in DOMAIN chunk /\ Extent(e)' = Extent(e)
              \/ e \in Nat /\ Extent(e)' \in Nat /\ b <= e /\ e + Extent(e)' <= b + sz
  <2>1. BORDER_EXTRA \in Nat /\ b + BORDER_EXTRA <= b + sz
    BY <1>1 DEF BORDER_EXTRA
  <2>2. CASE e = b
    BY <1>1, <1>6, <2>1, <2>2
  <2>3. CASE e = c
    BY <1>1, <1>6, <2>3
  <2>4. CASE e \in DOMAIN chunk
    BY <1>6, <2>4
  <2> QED
    BY <1>5, <2>2, <2>3, <2>4
<1>14. ASSUME NEW x \in Nat
       PROVE  Covered(x)' <=> Covered(x) \/ (b <= x /\ x < b + sz)
  <2>1. Covered(x)' <=> \/ Covered(x)
                        \/ b <= x /\ x < b + BORDER_EXTRA
                        \/ c <= x /\ x < c + S
    BY <1>5, <1>6 DEF Covered
  <2>2. b + BORDER_EXTRA = c
    OBVIOUS
  <2>3. (b <= x /\ x < c) \/ (c <= x /\ x < c + S) <=> b <= x /\ x < b + sz
    BY <1>1
  <2> QED
    BY <2>1, <2>2, <2>3
<1> QED
  BY <1>5, <1>7, <1>8, <1>9, <1>10, <1>11, <1>12, <1>13, <1>14

\* Linking a block that GEMDOS gave keeps the invariant.
LEMMA SbrkOsSound ==
  ASSUME HeapSound, SbrkOs
  PROVE  HeapSound' /\ (Kept => Kept')
<1> PICK sz : sz = call.sz
  OBVIOUS
<1> PICK b \in OsBases : OsFree(b, sz) /\ region' = Put(region, b, sz) /\ LinkNew(b, sz)
  BY DEF SbrkOs
<1>1. /\ pc = "sbrk" /\ pc' = "carve" /\ ~OwnHeap
      /\ UNCHANGED <<heapbase, stksize, split_mem, minhunk, maxhunk, live, lost>>
  BY DEF SbrkOs
<1>2. /\ b \in Nat /\ b # NULL /\ sz \in Nat /\ ChunkSize(call.n) \in Nat
      /\ ChunkSize(call.n) >= HDR
  BY <1>1, CallSizes, AddressAssumption DEF HDR
<1>3. /\ heapbase = NULL => sz >= ChunkSize(call.n) + BORDER_EXTRA
      /\ heapbase # NULL => sz >= ChunkSize(call.n)
  <2>1. call.sz >= ChunkSize(call.n) + IF heapbase = NULL THEN BORDER_EXTRA ELSE 0
    BY <1>1 DEF HeapSound, CallSound
  <2> QED
    BY <1>2, <2>1
<1>4. sz > 0 /\ sz >= HDR /\ (heapbase = NULL => sz >= BORDER_EXTRA + HDR)
  BY <1>2, <1>3 DEF HDR, BORDER_EXTRA
<1>5. /\ \A g \in DOMAIN region : g \in Nat /\ region[g] \in Nat /\ region[g] > 0
      /\ \A g \in DOMAIN region : b + sz <= g \/ g + region[g] <= b
      /\ b + sz < HeapStart \/ b >= HeapTop
  BY DEF HeapSound, TypeOK, BlocksHaveBorders, OsFree
<1>6. b \notin DOMAIN region
  BY <1>2, <1>4, <1>5
<1>7. \A x \in b..(b + sz - 1) : ~Owned(x)
  <2> SUFFICES ASSUME NEW x \in b..(b + sz - 1), Owned(x) PROVE FALSE
    OBVIOUS
  <2>1. x \in Nat /\ b <= x /\ x < b + sz
    BY <1>2
  <2>2. CASE \E g \in DOMAIN region : g <= x /\ x < g + region[g]
    BY <1>2, <1>5, <2>1, <2>2
  <2>3. CASE heapbase # NULL /\ HeapStart <= x /\ x < heapbase
    <3>1. heapbase <= HeapTop /\ heapbase \in Nat
      BY <2>3 DEF HeapSound, HeapAndStack, TypeOK
    <3> QED
      BY <1>2, <1>5, <2>1, <2>3, <3>1, AddressAssumption
  <2> QED
    BY <2>2, <2>3 DEF Owned
<1>8. \A a \in DOMAIN chunk : a + Extent(a) <= b \/ b + sz <= a
  BY <1>2, <1>4, <1>7, Fresh
<1>9. /\ DOMAIN region' = DOMAIN region \cup {b} /\ region'[b] = sz
      /\ \A g \in DOMAIN region : region'[g] = region[g]
      /\ DOMAIN region' \subseteq Nat /\ region' \in [DOMAIN region' -> Nat]
  <2>1. DOMAIN region \subseteq Nat /\ region \in [DOMAIN region -> Nat]
    BY DEF HeapSound, TypeOK
  <2> QED
    BY <1>2, <1>6, <2>1 DEF Put
<1>10. /\ fl' \in Seq(Nat) /\ FreeListAscending' /\ FreeListExact'
       /\ DOMAIN chunk' \subseteq Nat /\ chunk' \in [DOMAIN chunk' -> HeaderType]
       /\ SizesSound' /\ ChunksDisjoint'
       /\ \A x \in DOMAIN chunk : x \in DOMAIN chunk' /\ chunk'[x] = chunk[x]
       /\ \A e \in DOMAIN chunk' :
            \/ e \in DOMAIN chunk /\ Extent(e)' = Extent(e)
            \/ e \in Nat /\ Extent(e)' \in Nat /\ b <= e /\ e + Extent(e)' <= b + sz
       /\ \A x \in Nat : Covered(x)' <=> Covered(x) \/ (b <= x /\ x < b + sz)
       /\ heapbase # NULL => Valid({"BORDER"})' = Valid({"BORDER"})
       /\ heapbase = NULL => /\ Valid({"BORDER"})' = Valid({"BORDER"}) \cup {b}
                             /\ BORDER_EXTRA + chunk'[b].asize = sz
       /\ call' \in Calls /\ CallSound' /\ LiveBlocksWhole' /\ AssertHolds'
  <2>1. CASE heapbase = NULL
    BY <1>1, <1>2, <1>3, <1>4, <1>8, <2>1, LinkBorder
  <2>2. CASE heapbase # NULL
    <3>2. /\ fl' \in Seq(Nat) /\ FreeListAscending' /\ FreeListExact'
          /\ DOMAIN chunk' \subseteq Nat /\ chunk' \in [DOMAIN chunk' -> HeaderType]
          /\ SizesSound' /\ ChunksDisjoint'
          /\ b \notin DOMAIN chunk
          /\ DOMAIN chunk' = DOMAIN chunk \cup {b}
          /\ \A x \in DOMAIN chunk : chunk'[x] = chunk[x]
          /\ chunk'[b].valid = "FREE" /\ chunk'[b].size = sz
          /\ call' = [call EXCEPT !.q = b]
          /\ Extent(b)' = sz
          /\ \A x \in DOMAIN chunk : Extent(x)' = Extent(x)
          /\ \A x \in Nat : Covered(x)' <=> Covered(x) \/ (b <= x /\ x < b + sz)
      BY <1>1, <1>2, <1>4, <1>8, <2>2, LinkPlain
    <3>3. call' \in Calls /\ CallSound' /\ LiveBlocksWhole' /\ AssertHolds'
      BY <1>1, <1>2, <1>3, <2>2, <3>2, LinkedCall
    <3>4. Valid({"BORDER"})' = Valid({"BORDER"})
      BY <3>2 DEF Valid
    <3>5. \A e \in DOMAIN chunk' :
            \/ e \in DOMAIN chunk /\ Extent(e)' = Extent(e)
            \/ e \in Nat /\ Extent(e)' \in Nat /\ b <= e /\ e + Extent(e)' <= b + sz
      BY <1>2, <3>2
    <3> QED
      BY <2>2, <3>2, <3>3, <3>4, <3>5
  <2> QED
    BY <2>1, <2>2
<1>11. TypeOK'
  BY <1>1, <1>9, <1>10 DEF HeapSound, TypeOK, Places, HeaderType
<1>12. ChunksOwned'
  <2> SUFFICES ASSUME NEW e \in DOMAIN chunk', NEW x \in e..(e + Extent(e)' - 1)
               PROVE  Owned(x)'
    BY DEF ChunksOwned
  <2>1. CASE e \in DOMAIN chunk /\ Extent(e)' = Extent(e)
    <3>1. Owned(x)
      BY <2>1 DEF HeapSound, ChunksOwned
    <3> QED
      BY <1>1, <1>9, <3>1 DEF Owned
  <2>2. CASE e \in Nat /\ Extent(e)' \in Nat /\ b <= e /\ e + Extent(e)' <= b + sz
    <3>1. b <= x /\ x < b + sz
      BY <1>2, <2>2
    <3> QED
      BY <1>9, <3>1 DEF Owned
  <2> QED
    BY <1>10, <2>1, <2>2
<1>13. HeapAndStack'
  BY <1>1 DEF HeapSound, HeapAndStack
<1>14. BordersDescribeBlocks'
  <2>1. CASE heapbase = NULL
    BY <1>9, <1>10, <2>1 DEF HeapSound, BordersDescribeBlocks, Valid
  <2>2. CASE heapbase # NULL
    BY <1>9, <1>10, <2>2 DEF HeapSound, BordersDescribeBlocks, Valid
  <2> QED
    BY <2>1, <2>2
<1>15. BlocksHaveBorders'
  <2>1. ASSUME NEW g \in DOMAIN region'
        PROVE  /\ g # NULL /\ region'[g] > 0
               /\ g + region'[g] < HeapStart \/ g >= HeapTop
               /\ heapbase = NULL => g \in Valid({"BORDER"})'
               /\ \A h \in DOMAIN region' : h > g => g + region'[g] <= h
    <3>1. CASE g = b
      <4>1. \A h \in DOMAIN region : h > b => b + sz <= h
        BY <1>2, <1>5
      <4>2. \A h \in DOMAIN region' : h > g => g + region'[g] <= h
        BY <1>2, <1>9, <3>1, <4>1
      <4> QED
        BY <1>2, <1>4, <1>5, <1>9, <1>10, <3>1, <4>2
    <3>2. CASE g \in DOMAIN region
      <4>1. /\ g # NULL /\ region[g] > 0
            /\ g + region[g] < HeapStart \/ g >= HeapTop
            /\ heapbase = NULL => g \in Valid({"BORDER"})
            /\ \A h \in DOMAIN region : h > g => g + region[g] <= h
        BY <3>2 DEF HeapSound, BlocksHaveBorders
      <4>2. b > g => g + region[g] <= b
        BY <1>2, <1>4, <1>5, <3>2
      <4>3. \A h \in DOMAIN region' : h > g => g + region'[g] <= h
        BY <1>9, <3>2, <4>1, <4>2
      <4>4. heapbase = NULL => g \in Valid({"BORDER"})'
        BY <1>10, <4>1
      <4> QED
        BY <1>9, <3>2, <4>1, <4>3, <4>4
    <3> QED
      BY <1>9, <3>1, <3>2
  <2>2. heapbase # NULL => Valid({"BORDER"})' = {}
    BY <1>10 DEF HeapSound, BlocksHaveBorders
  <2> QED
    BY <1>1, <2>1, <2>2 DEF BlocksHaveBorders
<1>16. Kept => Kept'
  <2>1. \A x \in Nat : x \in Bytes(b, sz) <=> b <= x /\ x < b + sz
    BY <1>2, BytesAre
  <2>2. \A x \in Nat : x \in Bytes(b, sz) => ~Owned(x)
    BY <1>7 DEF Bytes
  <2>3. ASSUME NEW x \in Nat PROVE Owned(x)' <=> Owned(x) \/ (b <= x /\ x < b + sz)
    BY <1>1, <1>6, <1>9 DEF Owned
  <2>4. \A x \in Nat : /\ Covered(x)' <=> Covered(x) \/ x \in Bytes(b, sz)
                       /\ Owned(x)' <=> Owned(x) \/ x \in Bytes(b, sz)
    BY <1>10, <2>1, <2>3
  <2> QED
    BY <1>1, <2>2, <2>4, KeptGrown
<1> QED
  BY <1>10, <1>11, <1>12, <1>13, <1>14, <1>15, <1>16 DEF HeapSound

\* Linking memory that HeapAlloc took from the own heap keeps the invariant.
LEMMA SbrkHeapSound ==
  ASSUME HeapSound, SbrkHeap
  PROVE  HeapSound' /\ (Kept /\ call.sz % 8 = 0 => Kept')
<1> PICK b, sz, R : b = heapbase /\ sz = call.sz /\ R = RoundUp(sz, 8)
  OBVIOUS
<1>1. /\ pc = "sbrk" /\ pc' = "carve" /\ b # NULL /\ LinkNew(b, sz)
      /\ heapbase' = b + R /\ stksize' = stksize - R
      /\ UNCHANGED <<region, split_mem, minhunk, maxhunk, live, lost>>
  BY DEF SbrkHeap, OwnHeap
<1>2. /\ b \in Nat /\ sz \in Nat /\ ChunkSize(call.n) \in Nat
      /\ ChunkSize(call.n) >= HDR /\ stksize \in Int
  <2>1. b \in Nat /\ stksize \in Int
    BY DEF HeapSound, TypeOK
  <2> QED
    BY <1>1, <2>1, CallSizes DEF HDR
<1>3. sz >= ChunkSize(call.n) /\ sz > 0 /\ sz >= HDR
  <2>1. call.sz >= ChunkSize(call.n) + IF heapbase = NULL THEN BORDER_EXTRA ELSE 0
    BY <1>1 DEF HeapSound, CallSound
  <2> QED
    BY <1>1, <1>2, <2>1 DEF HDR
<1>4. R \in Nat /\ sz <= R
  <2>1. 8 \in Nat \ {0}
    OBVIOUS
  <2> QED
    BY <1>2, <2>1, RoundUpBounds
<1>5. /\ b + stksize = HeapTop /\ HeapStart <= b /\ b + R <= HeapTop
      /\ HeapTop \in Nat /\ HeapStart \in Nat \ {NULL}
  <2>1. b + stksize = HeapTop /\ HeapStart <= b
    BY <1>1 DEF HeapSound, HeapAndStack
  <2>2. PICK sp \in StackPtrs : b + R <= sp
    BY DEF SbrkHeap
  <2>3. sp \in Nat /\ sp <= HeapTop /\ HeapTop \in Nat /\ HeapStart \in Nat \ {NULL}
    BY AddressAssumption
  <2> QED
    BY <1>2, <1>4, <2>1, <2>2, <2>3
<1>6. \A x \in b..(b + sz - 1) : ~Owned(x)
  <2> SUFFICES ASSUME NEW x \in b..(b + sz - 1), Owned(x) PROVE FALSE
    OBVIOUS
  <2>1. x \in Nat /\ b <= x /\ x < b + sz
    BY <1>2
  <2>2. \A g \in DOMAIN region : /\ g \in Nat /\ region[g] \in Nat
                                 /\ g + region[g] < HeapStart \/ g >= HeapTop
    BY DEF HeapSound, TypeOK, BlocksHaveBorders
  <2> QED
    BY <1>2, <1>4, <1>5, <2>1, <2>2 DEF Owned
<1>7. \A a \in DOMAIN chunk : a + Extent(a) <= b \/ b + sz <= a
  BY <1>2, <1>3, <1>6, Fresh
<1>8. /\ fl' \in Seq(Nat) /\ FreeListAscending' /\ FreeListExact'
      /\ DOMAIN chunk' \subseteq Nat /\ chunk' \in [DOMAIN chunk' -> HeaderType]
      /\ SizesSound' /\ ChunksDisjoint'
      /\ b \notin DOMAIN chunk
      /\ DOMAIN chunk' = DOMAIN chunk \cup {b}
      /\ \A x \in DOMAIN chunk : chunk'[x] = chunk[x]
      /\ chunk'[b].valid = "FREE" /\ chunk'[b].size = sz
      /\ call' = [call EXCEPT !.q = b]
      /\ Extent(b)' = sz
      /\ \A x \in DOMAIN chunk : Extent(x)' = Extent(x)
      /\ \A x \in Nat : Covered(x)' <=> Covered(x) \/ (b <= x /\ x < b + sz)
  BY <1>1, <1>2, <1>3, <1>7, LinkPlain
<1>9. call' \in Calls /\ CallSound' /\ LiveBlocksWhole' /\ AssertHolds'
  BY <1>1, <1>2, <1>3, <1>8, LinkedCall
<1>10. Valid({"BORDER"})' = Valid({"BORDER"})
  BY <1>8 DEF Valid
<1>11. TypeOK'
  <2>1. heapbase' \in Nat /\ stksize' \in Int
    BY <1>1, <1>2, <1>4
  <2> QED
    BY <1>1, <1>8, <1>9, <2>1 DEF HeapSound, TypeOK, Places, HeaderType
<1>12. HeapAndStack' /\ heapbase' # NULL
  BY <1>1, <1>2, <1>4, <1>5 DEF HeapAndStack, NULL
<1>13. ChunksOwned'
  <2> SUFFICES ASSUME NEW e \in DOMAIN chunk', NEW x \in e..(e + Extent(e)' - 1)
               PROVE  Owned(x)'
    BY DEF ChunksOwned
  <2>1. CASE e \in DOMAIN chunk
    <3>1. Owned(x) /\ x \in Int
      BY <1>8, <2>1 DEF HeapSound, ChunksOwned
    <3> QED
      BY <1>1, <1>2, <1>4, <1>12, <3>1 DEF Owned
  <2>2. CASE e = b
    <3>1. x \in Int /\ HeapStart <= x /\ x < heapbase'
      BY <1>1, <1>2, <1>4, <1>5, <1>8, <2>2, SMTT(30)
    <3> QED
      BY <1>12, <3>1 DEF Owned
  <2> QED
    BY <1>8, <2>1, <2>2
<1>14. BordersDescribeBlocks' /\ BlocksHaveBorders'
  <2>1. Valid({"BORDER"}) = {}
    BY <1>1 DEF HeapSound, BlocksHaveBorders
  <2> QED
    BY <1>1, <1>10, <1>12, <2>1 DEF HeapSound, BordersDescribeBlocks, BlocksHaveBorders
<1>15. ASSUME Kept, sz % 8 = 0 PROVE Kept'
  <2>1. R = sz
    BY <1>2, <1>15 DEF RoundUp
  <2>2. \A x \in Nat : x \in Bytes(b, sz) <=> b <= x /\ x < b + sz
    BY <1>2, BytesAre
  <2>3. \A x \in Nat : x \in Bytes(b, sz) => ~Owned(x)
    BY <1>6 DEF Bytes
  <2>4. ASSUME NEW x \in Nat PROVE Owned(x)' <=> Owned(x) \/ (b <= x /\ x < b + sz)
    <3>1. heapbase' # NULL /\ heapbase # NULL /\ heapbase' = heapbase + sz
      BY <1>1, <1>12, <2>1
    <3>2. HeapStart <= x /\ x < heapbase' <=>
            (HeapStart <= x /\ x < heapbase) \/ (b <= x /\ x < b + sz)
      BY <1>2, <1>5, <3>1
    <3> QED
      BY <1>1, <3>1, <3>2 DEF Owned
  <2>5. \A x \in Nat : /\ Covered(x)' <=> Covered(x) \/ x \in Bytes(b, sz)
                       /\ Owned(x)' <=> Owned(x) \/ x \in Bytes(b, sz)
    BY <1>8, <2>2, <2>4
  <2> QED
    BY <1>1, <1>15, <2>3, <2>5, KeptGrown
<1> QED
  BY <1>8, <1>9, <1>11, <1>12, <1>13, <1>14, <1>15 DEF HeapSound

-----------------------------------------------------------------------------
(* The second half of __free.                                              *)

\* The chunk __free holds is free and not in the list.
LEMMA HeldChunk ==
  ASSUME HeapSound, pc = "merge", NEW r, r = call.r
  PROVE  /\ r \in DOMAIN chunk /\ chunk[r].valid = "FREE"
         /\ r \in Nat /\ Extent(r) = chunk[r].size /\ chunk[r].size \in Nat
         /\ chunk[r].size >= HDR
         /\ InFlight = {r} /\ r \notin ToSet(fl)
<1>1. r \in DOMAIN chunk /\ chunk[r].valid = "FREE"
  BY DEF HeapSound, CallSound, Valid
<1>2. InFlight = {r}
  BY DEF InFlight
<1>3. r \notin ToSet(fl)
  BY <1>2 DEF HeapSound, FreeListExact
<1> QED
  BY <1>1, <1>2, <1>3, ChunkFields

\* The entry __free joins the chunk to ends where the chunk starts.
LEMMA PrevIsAdjacent ==
  ASSUME HeapSound, pc = "merge", NEW r, r = call.r,
         NEW k \in 1..(Len(fl) + 1), StopsAt(k, r), TakesBefore(k, r),
         NEW p, p = fl[k - 1]
  PROVE  /\ k \in 2..Len(fl) /\ k - 1 \in 1..Len(fl)
         /\ p \in DOMAIN chunk /\ p # r /\ p < r
         /\ p \in Nat /\ Extent(p) = chunk[p].size /\ chunk[p].size \in Nat
         /\ chunk[p].size >= HDR /\ chunk[p].valid \in {"FREE", "BORDER"}
         /\ p + chunk[p].size = r
<1>1. k \in 2..Len(fl) /\ k - 1 \in 1..Len(fl) /\ k - 1 \in 1..(k - 1)
  BY DEF TakesBefore
<1>2. p + chunk[p].size >= r /\ p < r
  BY <1>1 DEF TakesBefore, StopsAt
<1>3. p \in DOMAIN chunk /\ chunk[p].valid \in {"FREE", "BORDER"}
  BY <1>1, ListEntry
<1>4. p \in Nat /\ Extent(p) = chunk[p].size /\ chunk[p].size \in Nat /\ chunk[p].size >= HDR
  BY <1>3, ChunkFields
<1>5. r \in DOMAIN chunk /\ r \in Nat
  BY HeldChunk
<1>6. p + Extent(p) <= r
  BY <1>2, <1>3, <1>5 DEF HeapSound, ChunksDisjoint
<1> QED
  BY <1>1, <1>2, <1>3, <1>4, <1>5, <1>6

\* No chunk reaches across the start of the own heap: GEMDOS never hands out
\* the byte below it.
LEMMA NotAcross ==
  ASSUME HeapSound, NEW a \in DOMAIN chunk, a + Extent(a) >= HeapStart
  PROVE  a >= HeapStart
<1> SUFFICES ASSUME a < HeapStart PROVE FALSE
  BY ChunkFields, AddressAssumption
<1>1. a \in Nat /\ Extent(a) \in Nat /\ HeapStart \in Nat /\ HeapTop \in Nat /\ HeapStart <= HeapTop
  BY ChunkFields, AddressAssumption
<1>2. HeapStart - 1 \in a..(a + Extent(a) - 1)
  BY <1>1
<1>3. Owned(HeapStart - 1)
  BY <1>2 DEF HeapSound, ChunksOwned
<1>4. \A g \in DOMAIN region : /\ g \in Nat /\ region[g] \in Nat
                               /\ g + region[g] < HeapStart \/ g >= HeapTop
  BY DEF HeapSound, TypeOK, BlocksHaveBorders
<1> QED
  BY <1>1, <1>3, <1>4 DEF Owned

\* A chunk that ends in the unused part of the own heap ends where it starts.
LEMMA EndsAtHeapTop ==
  ASSUME HeapSound, NEW r \in DOMAIN chunk, NEW end, end = r + Extent(r), AtHeapTop(end)
  PROVE  end = heapbase /\ r >= HeapStart /\ heapbase # NULL
<1>1. /\ heapbase # NULL /\ heapbase <= end /\ end < heapbase + stksize
  BY DEF AtHeapTop, OwnHeap
<1>2. /\ heapbase \in Nat /\ heapbase + stksize = HeapTop /\ HeapStart <= heapbase
  BY <1>1 DEF HeapSound, TypeOK, HeapAndStack
<1>3. /\ r \in Nat /\ Extent(r) \in Nat /\ Extent(r) >= HDR
      /\ HeapStart \in Nat /\ HeapTop \in Nat
  BY ChunkFields, AddressAssumption
<1>4. end - 1 \in r..(r + Extent(r) - 1) /\ end - 1 \in Int /\ end \in Int
  BY <1>3 DEF HDR
<1>5. Owned(end - 1)
  BY <1>4 DEF HeapSound, ChunksOwned
<1>6. \A g \in DOMAIN region : /\ g \in Nat /\ region[g] \in Nat
                               /\ g + region[g] < HeapStart \/ g >= HeapTop
  BY DEF HeapSound, TypeOK, BlocksHaveBorders
<1>7. end - 1 < heapbase
  BY <1>1, <1>2, <1>3, <1>4, <1>5, <1>6 DEF Owned
<1>8. end = heapbase
  BY <1>1, <1>2, <1>4, <1>7
<1>9. r >= HeapStart
  <2>1. r + Extent(r) >= HeapStart
    BY <1>2, <1>3, <1>8
  <2> QED
    BY <2>1, NotAcross
<1> QED
  BY <1>1, <1>8, <1>9

\* The own heap takes back its topmost chunks, from r on.
LEMMA HeapLowered ==
  ASSUME HeapSound, heapbase # NULL, NEW r \in Nat, r >= HeapStart, r <= heapbase,
         DOMAIN chunk' \subseteq DOMAIN chunk,
         \A x \in DOMAIN chunk' : chunk'[x] = chunk[x],
         \A x \in DOMAIN chunk' : x + Extent(x) <= r \/ heapbase <= x,
         heapbase' = r, stksize' = stksize + (heapbase - r), region' = region
  PROVE  /\ SizesSound' /\ ChunksDisjoint' /\ ChunksOwned'
         /\ BlocksHaveBorders' /\ BordersDescribeBlocks' /\ HeapAndStack'
         /\ heapbase' \in Nat /\ stksize' \in Int
<1>1. \A x \in DOMAIN chunk' : Extent(x)' = Extent(x)
  BY DEF Extent
<1>2. SizesSound'
  BY DEF HeapSound, SizesSound
<1>3. ChunksDisjoint'
  BY <1>1, ExtentsKept
<1>4. /\ heapbase \in Nat /\ stksize \in Int /\ heapbase + stksize = HeapTop
      /\ heapbase <= HeapTop /\ HeapStart \in Nat \ {NULL} /\ HeapTop \in Nat
  BY AddressAssumption DEF HeapSound, TypeOK, HeapAndStack
<1>5. heapbase' \in Nat /\ stksize' \in Int /\ heapbase' # NULL
  BY <1>4 DEF NULL
<1>6. HeapAndStack'
  BY <1>4 DEF HeapAndStack
<1>7. ChunksOwned'
  <2> SUFFICES ASSUME NEW e \in DOMAIN chunk', NEW x \in e..(e + Extent(e)' - 1)
               PROVE  Owned(x)'
    BY DEF ChunksOwned
  <2>1. e \in Nat /\ Extent(e) \in Nat /\ Extent(e)' = Extent(e) /\ x \in Int
    BY <1>1, ChunkFields
  <2>2. Owned(x)
    BY <2>1 DEF HeapSound, ChunksOwned
  <2>3. x < r \/ heapbase <= x
    BY <1>4, <2>1
  <2> QED
    BY <1>4, <1>5, <2>1, <2>2, <2>3 DEF Owned
<1>8. Valid({"BORDER"}) = {} /\ Valid({"BORDER"})' = {}
  <2>1. Valid({"BORDER"}) = {}
    BY DEF HeapSound, BlocksHaveBorders
  <2> QED
    BY <2>1 DEF Valid
<1>9. BlocksHaveBorders' /\ BordersDescribeBlocks'
  BY <1>5, <1>8 DEF HeapSound, BlocksHaveBorders, BordersDescribeBlocks
<1> QED
  BY <1>2, <1>3, <1>5, <1>6, <1>7, <1>9

\* A block goes back to GEMDOS with every chunk in it.
LEMMA BlockReturned ==
  ASSUME HeapSound, NEW o \in Valid({"BORDER"}),
         DOMAIN chunk' \subseteq DOMAIN chunk \ {o},
         \A x \in DOMAIN chunk' : chunk'[x] = chunk[x],
         \A x \in Valid({"BORDER"}) : x # o => x \in DOMAIN chunk',
         \A x \in DOMAIN chunk' : x + Extent(x) <= o \/ o + region[o] <= x,
         region' = Drop(region, o), UNCHANGED <<heapbase, stksize>>
  PROVE  /\ SizesSound' /\ ChunksDisjoint' /\ ChunksOwned'
         /\ BlocksHaveBorders' /\ BordersDescribeBlocks' /\ HeapAndStack'
         /\ DOMAIN region' \subseteq Nat /\ region' \in [DOMAIN region' -> Nat]
<1>1. \A x \in DOMAIN chunk' : Extent(x)' = Extent(x)
  BY DEF Extent
<1>2. SizesSound'
  BY DEF HeapSound, SizesSound
<1>3. ChunksDisjoint'
  BY <1>1, ExtentsKept
<1>4. /\ DOMAIN region' = DOMAIN region \ {o}
      /\ \A g \in DOMAIN region' : region'[g] = region[g]
  BY DEF Drop
<1>5. DOMAIN region' \subseteq Nat /\ region' \in [DOMAIN region' -> Nat]
  BY <1>4 DEF HeapSound, TypeOK, Drop
<1>6. HeapAndStack'
  BY DEF HeapSound, HeapAndStack
<1>7. ChunksOwned'
  <2> SUFFICES ASSUME NEW e \in DOMAIN chunk', NEW x \in e..(e + Extent(e)' - 1)
               PROVE  Owned(x)'
    BY DEF ChunksOwned
  <2>1. e \in Nat /\ Extent(e) \in Nat /\ Extent(e)' = Extent(e) /\ x \in Int
    BY <1>1, ChunkFields
  <2>2. Owned(x)
    BY <2>1 DEF HeapSound, ChunksOwned
  <2>3. o \in Nat /\ o \in DOMAIN region /\ region[o] \in Nat
    BY DEF HeapSound, BordersDescribeBlocks, TypeOK
  <2>4. x < o \/ o + region[o] <= x
    BY <2>1, <2>3
  <2>5. CASE \E g \in DOMAIN region : g <= x /\ x < g + region[g]
    <3>1. PICK g \in DOMAIN region : g <= x /\ x < g + region[g]
      BY <2>5
    <3>2. g # o
      BY <2>1, <2>3, <2>4, <3>1
    <3> QED
      BY <1>4, <3>1, <3>2 DEF Owned
  <2>6. CASE heapbase # NULL /\ HeapStart <= x /\ x < heapbase
    BY <2>6 DEF Owned
  <2> QED
    BY <2>2, <2>5, <2>6 DEF Owned
<1>8. Valid({"BORDER"})' = Valid({"BORDER"}) \ {o}
  BY DEF Valid
<1>9. BordersDescribeBlocks'
  BY <1>4, <1>8 DEF HeapSound, BordersDescribeBlocks, Valid
<1>10. BlocksHaveBorders'
  BY <1>4, <1>8 DEF HeapSound, BlocksHaveBorders
<1> QED
  BY <1>2, <1>3, <1>5, <1>6, <1>7, <1>9, <1>10

\* The rest of the invariant at the end of __free.
LEMMA FreeReturns ==
  ASSUME HeapSound, pc = "merge", NEW r, r = call.r, Return,
         UNCHANGED <<split_mem, minhunk, maxhunk, live, lost>>,
         \A x \in Valid({"ALLOC", "MOVED"}) : x \in DOMAIN chunk' /\ chunk'[x] = chunk[x],
         DOMAIN chunk' \subseteq DOMAIN chunk, chunk' \in [DOMAIN chunk' -> HeaderType],
         fl' \in Seq(Nat), heapbase' \in Nat, stksize' \in Int,
         DOMAIN region' \subseteq Nat, region' \in [DOMAIN region' -> Nat]
  PROVE  /\ TypeOK' /\ CallSound' /\ LiveBlocksWhole' /\ AssertHolds'
         /\ InFlight' = {} /\ pc' = "idle"
<1>1. pc' = "idle" /\ call' \in Calls
  BY ReturnTypes
<1>2. TypeOK'
  BY <1>1 DEF HeapSound, TypeOK, Places, HeaderType
<1>3. LiveBlocksWhole'
  BY LiveKept
<1> QED
  BY <1>1, <1>2, <1>3 DEF CallSound, AssertHolds, InFlight

\* A freed chunk that only has to be listed.
LEMMA FreeListed ==
  ASSUME HeapSound, pc = "merge", NEW r, r = call.r, Return,
         NEW k \in 1..(Len(fl) + 1), StopsAt(k, r), fl' = InsertAt(fl, k, r),
         UNCHANGED <<chunk, region, heapbase, stksize, split_mem, minhunk, maxhunk, live,
                     lost>>
  PROVE  HeapSound' /\ (Kept => Kept')
<1>1. /\ r \in DOMAIN chunk /\ chunk[r].valid = "FREE" /\ r \in Nat
      /\ InFlight = {r} /\ r \notin ToSet(fl)
  BY HeldChunk
<1>2. pc' = "idle"
  BY ReturnTypes
<1>3. InFlight' = {}
  BY <1>2 DEF InFlight
<1>4. Valid({"FREE", "BORDER"})' \ InFlight' = (Valid({"FREE", "BORDER"}) \ InFlight) \cup {r}
  BY <1>1, <1>3 DEF Valid
<1>5. fl' \in Seq(Nat) /\ FreeListAscending' /\ FreeListExact'
  BY <1>1, <1>4, ListInserted
<1>6. /\ chunk' \in [DOMAIN chunk' -> HeaderType] /\ heapbase' \in Nat /\ stksize' \in Int
      /\ DOMAIN region' \subseteq Nat /\ region' \in [DOMAIN region' -> Nat]
  BY DEF HeapSound, TypeOK, HeaderType
<1>7. TypeOK' /\ CallSound' /\ LiveBlocksWhole' /\ AssertHolds'
  BY <1>5, <1>6, FreeReturns DEF Valid
<1>8. SizesSound'
  BY DEF HeapSound, SizesSound
<1>9. ChunksDisjoint' /\ ChunksOwned'
  <2>1. \A x \in DOMAIN chunk' : Extent(x)' = Extent(x)
    BY DEF Extent
  <2> QED
    BY <2>1, ExtentsKept
<1>10. BlocksHaveBorders' /\ BordersDescribeBlocks' /\ HeapAndStack'
  BY BordersKept DEF Valid
<1>11. Kept => Kept'
  <2>1. \A a \in DOMAIN chunk : Extent(a)' = Extent(a)
    BY DEF Extent
  <2> QED
    BY <2>1, CoveredSame, KeptSame
<1> QED
  BY <1>5, <1>7, <1>8, <1>9, <1>10, <1>11 DEF HeapSound

\* __free linking a chunk that it cannot merge, or returning it to the own heap,
\* keeps the invariant.
LEMMA MergeLinkSound ==
  ASSUME HeapSound, MergeLink
  PROVE  HeapSound' /\ (Kept => Kept')
<1> PICK r, end : r = call.r /\ end = r + chunk[r].size
  OBVIOUS
<1>1. pc = "merge" /\ Return
      /\ UNCHANGED <<region, split_mem, minhunk, maxhunk, live, lost>>
  BY DEF MergeLink
<1> PICK k \in 1..(Len(fl) + 1) :
       /\ StopsAt(k, r)
       /\ IF AtHeapTop(end)
          THEN /\ heapbase' = IF end = heapbase THEN r ELSE heapbase
               /\ stksize' = IF end = heapbase THEN stksize + chunk[r].size
                                               ELSE stksize
               /\ chunk' = IF end = heapbase THEN Drop(chunk, r) ELSE chunk
               /\ UNCHANGED fl
          ELSE /\ fl' = InsertAt(fl, k, r)
               /\ UNCHANGED <<chunk, heapbase, stksize>>
  BY DEF MergeLink
<1>2. /\ r \in DOMAIN chunk /\ chunk[r].valid = "FREE" /\ r \in Nat
      /\ Extent(r) = chunk[r].size /\ chunk[r].size \in Nat
      /\ InFlight = {r} /\ r \notin ToSet(fl)
  BY <1>1, HeldChunk
<1>3. CASE ~AtHeapTop(end)
  BY <1>1, <1>3, FreeListed
<1>4. CASE AtHeapTop(end)
  <2>1. end = heapbase /\ r >= HeapStart /\ heapbase # NULL
    BY <1>2, <1>4, EndsAtHeapTop
  <2>2. /\ heapbase' = r /\ stksize' = stksize + chunk[r].size
        /\ chunk' = Drop(chunk, r) /\ fl' = fl
    BY <1>4, <2>1
  <2>3. /\ DOMAIN chunk' = DOMAIN chunk \ {r}
        /\ \A x \in DOMAIN chunk' : chunk'[x] = chunk[x]
    BY <2>2 DEF Drop
  <2>4. r <= heapbase /\ heapbase - r = chunk[r].size
    BY <1>2, <2>1
  <2>5. \A x \in DOMAIN chunk' : x + Extent(x) <= r \/ heapbase <= x
    <3>1. ASSUME NEW x \in DOMAIN chunk' PROVE x + Extent(x) <= r \/ r + Extent(r) <= x
      BY <1>2, <2>3, Apart
    <3> QED
      BY <1>2, <2>1, <3>1
  <2>6. /\ SizesSound' /\ ChunksDisjoint' /\ ChunksOwned'
        /\ BlocksHaveBorders' /\ BordersDescribeBlocks' /\ HeapAndStack'
        /\ heapbase' \in Nat /\ stksize' \in Int
    BY <1>1, <1>2, <2>1, <2>2, <2>3, <2>4, <2>5, HeapLowered
  <2>7. chunk' \in [DOMAIN chunk' -> HeaderType]
    BY <2>2 DEF HeapSound, TypeOK, HeaderType, Drop
  <2>8. /\ fl' \in Seq(Nat) /\ DOMAIN region' \subseteq Nat
        /\ region' \in [DOMAIN region' -> Nat]
    BY <1>1, <2>2 DEF HeapSound, TypeOK
  <2>9. /\ TypeOK' /\ CallSound' /\ LiveBlocksWhole' /\ AssertHolds'
        /\ InFlight' = {} /\ pc' = "idle"
    BY <1>1, <1>2, <2>3, <2>6, <2>7, <2>8, FreeReturns DEF Valid
  <2>10. FreeListAscending'
    BY <2>2 DEF HeapSound, FreeListAscending
  <2>11. Valid({"FREE", "BORDER"})' \ InFlight' = Valid({"FREE", "BORDER"}) \ InFlight
    BY <1>2, <2>3, <2>9 DEF Valid
  <2>12. FreeListExact'
    BY <2>2, <2>11 DEF HeapSound, FreeListExact
  <2>13. Kept => Kept'
    <3>1. \A x \in Nat : Covered(x)' <=>
            Covered(x) /\ ~\E a \in {r} : a <= x /\ x < a + Extent(a)
      BY <1>2, <2>3, CoveredDropped
    <3>2. \A x \in Nat : x \in ChunkBytes(r) <=> r <= x /\ x < heapbase
      BY <1>2, <2>1, ChunkBytesAre
    <3>3. \A x \in Nat : Owned(x)' <=> Owned(x) /\ ~(r <= x /\ x < heapbase)
      BY <1>1, <1>2, <2>1, <2>2, <2>4, OwnLowered
    <3>4. \A x \in Nat : /\ Covered(x)' <=> Covered(x) /\ x \notin ChunkBytes(r)
                         /\ Owned(x)' <=> Owned(x) /\ x \notin ChunkBytes(r)
                         /\ x \in ChunkBytes(r) => Covered(x)
      BY <1>2, <2>1, <3>1, <3>2, <3>3 DEF Covered
    <3> QED
      BY <1>1, <3>4, KeptReturned
  <2> QED
    BY <2>6, <2>9, <2>10, <2>12, <2>13 DEF HeapSound
<1> QED
  BY <1>3, <1>4

\* __free meeting the border of the block, and returning the block when it is
\* free as a whole, keeps the invariant.
LEMMA MergeBorderSound ==
  ASSUME HeapSound, MergeBorder
  PROVE  HeapSound' /\ (Kept => Kept')
<1> PICK r : r = call.r
  OBVIOUS
<1>1. pc = "merge" /\ Return
      /\ UNCHANGED <<heapbase, stksize, split_mem, minhunk, maxhunk, live, lost>>
  BY DEF MergeBorder
<1> PICK k, p :
       /\ k \in 1..(Len(fl) + 1)
       /\ p = fl[k - 1]
       /\ StopsAt(k, r) /\ TakesBefore(k, r) /\ chunk[p].valid = "BORDER"
       /\ IF p + chunk[p].size # r THEN UNCHANGED <<fl, chunk, region>>
          ELSE IF chunk[p].asize = chunk[r].size
          THEN /\ fl' = RemoveAt(fl, k - 1)
               /\ chunk' = Drop(Drop(chunk, r), p)
               /\ region' = Drop(region, p)
          ELSE fl' = InsertAt(fl, k, r) /\ UNCHANGED <<chunk, region>>
  BY DEF MergeBorder
<1>2. /\ r \in DOMAIN chunk /\ chunk[r].valid = "FREE" /\ r \in Nat
      /\ Extent(r) = chunk[r].size /\ chunk[r].size \in Nat
      /\ chunk[r].size >= HDR /\ InFlight = {r}
  BY <1>1, HeldChunk
<1>3. /\ k - 1 \in 1..Len(fl) /\ p \in DOMAIN chunk /\ p # r
      /\ p \in Nat /\ Extent(p) = chunk[p].size /\ chunk[p].size \in Nat
      /\ chunk[p].size >= HDR /\ p + chunk[p].size = r
  BY <1>1, PrevIsAdjacent
<1>4. CASE chunk[p].asize # chunk[r].size
  BY <1>1, <1>3, <1>4, FreeListed
<1>5. CASE chunk[p].asize = chunk[r].size
  <2>1. /\ fl' = RemoveAt(fl, k - 1) /\ chunk' = Drop(Drop(chunk, r), p)
        /\ region' = Drop(region, p)
    BY <1>3, <1>5
  <2>2. /\ DOMAIN chunk' = DOMAIN chunk \ {r, p}
        /\ \A x \in DOMAIN chunk' : chunk'[x] = chunk[x]
    BY <2>1 DEF Drop
  <2>3. p \in Valid({"BORDER"}) /\ p \in DOMAIN region
        /\ p + region[p] = r + chunk[r].size
    <3>1. p \in Valid({"BORDER"})
      BY <1>3 DEF Valid
    <3>2. /\ p \in DOMAIN region /\ region[p] = BORDER_EXTRA + chunk[p].asize
          /\ chunk[p].size = BORDER_EXTRA
      BY <1>3, <3>1 DEF HeapSound, BordersDescribeBlocks, SizesSound
    <3> QED
      BY <1>2, <1>3, <1>5, <3>1, <3>2
  <2>4. \A x \in DOMAIN chunk' : x + Extent(x) <= p \/ p + region[p] <= x
    <3> SUFFICES ASSUME NEW x \in DOMAIN chunk'
                 PROVE  x + Extent(x) <= p \/ p + region[p] <= x
      OBVIOUS
    <3>1. x + Extent(x) <= r \/ r + Extent(r) <= x
      BY <1>2, <2>2, Apart
    <3>2. x + Extent(x) <= p \/ p + Extent(p) <= x
      BY <1>3, <2>2, Apart
    <3>3. x \in Nat /\ Extent(x) \in Nat /\ Extent(x) >= HDR
      BY <2>2, ChunkFields
    <3> QED
      BY <1>2, <1>3, <2>3, <3>1, <3>2, <3>3 DEF HDR
  <2>5. /\ SizesSound' /\ ChunksDisjoint' /\ ChunksOwned'
        /\ BlocksHaveBorders' /\ BordersDescribeBlocks' /\ HeapAndStack'
        /\ DOMAIN region' \subseteq Nat /\ region' \in [DOMAIN region' -> Nat]
    <3>1. \A x \in Valid({"BORDER"}) : x # p => x \in DOMAIN chunk'
      BY <1>2, <2>2 DEF Valid
    <3> QED
      BY <1>1, <2>1, <2>2, <2>3, <2>4, <3>1, BlockReturned
  <2>6. Valid({"FREE", "BORDER"})' = (Valid({"FREE", "BORDER"}) \ {r}) \ {p}
    BY <2>2 DEF Valid
  <2>7. pc' = "idle" /\ InFlight' = {}
    BY <1>1, ReturnTypes DEF InFlight
  <2>8. fl' \in Seq(Nat) /\ FreeListAscending' /\ FreeListExact'
    <3>1. Valid({"FREE", "BORDER"})' \ InFlight'
            = (Valid({"FREE", "BORDER"}) \ InFlight) \ {fl[k - 1]}
      BY <1>2, <2>6, <2>7
    <3> QED
      BY <1>3, <2>1, <3>1, ListRemoved
  <2>9. chunk' \in [DOMAIN chunk' -> HeaderType]
    <3>1. chunk \in [DOMAIN chunk -> HeaderType]
      BY DEF HeapSound, TypeOK, HeaderType
    <3> QED
      BY <2>1, <3>1 DEF Drop
  <2>10. heapbase' \in Nat /\ stksize' \in Int
    BY <1>1 DEF HeapSound, TypeOK
  <2>11. TypeOK' /\ CallSound' /\ LiveBlocksWhole' /\ AssertHolds'
    <3>1. \A x \in Valid({"ALLOC", "MOVED"}) : x \in DOMAIN chunk' /\ chunk'[x] = chunk[x]
      BY <1>2, <2>2 DEF Valid
    <3>2. DOMAIN chunk' \subseteq DOMAIN chunk
      BY <2>2
    <3> QED
      BY <1>1, <2>5, <2>8, <2>9, <2>10, <3>1, <3>2, FreeReturns
  <2>12. Kept => Kept'
    <3> DEFINE B == Bytes(p, region[p])
    <3>1. {r, p} \in SUBSET DOMAIN chunk
      BY <1>2, <1>3
    <3>2. \A x \in Nat : Covered(x)' <=>
            Covered(x) /\ ~\E a \in {r, p} : a <= x /\ x < a + Extent(a)
      BY <2>2, <3>1, CoveredDropped
    <3>3. region[p] \in Nat
      BY <2>3 DEF HeapSound, TypeOK
    <3>4. \A x \in Nat : x \in B <=> p <= x /\ x < p + region[p]
      BY <1>3, <3>3, BytesAre
    <3> HIDE DEF B
    <3>5. ASSUME NEW x \in Nat
          PROVE  x \in B <=> \E a \in {r, p} : a <= x /\ x < a + Extent(a)
      <4>1. x \in B <=> (p <= x /\ x < r) \/ (r <= x /\ x < r + chunk[r].size)
        BY <1>2, <1>3, <2>3, <3>3, <3>4
      <4> QED
        BY <1>2, <1>3, <4>1
    <3>6. \A x \in Nat : Owned(x)' <=> Owned(x) /\ ~(p <= x /\ x < p + region[p])
      BY <1>1, <2>1, <2>3, OwnReturned
    <3>7. \A x \in Nat : /\ Covered(x)' <=> Covered(x) /\ x \notin B
                         /\ Owned(x)' <=> Owned(x) /\ x \notin B
                         /\ x \in B => Covered(x)
      BY <3>1, <3>2, <3>4, <3>5, <3>6 DEF Covered
    <3> QED
      BY <1>1, <3>7, KeptReturned
  <2> QED
    BY <2>5, <2>8, <2>11, <2>12 DEF HeapSound
<1> QED
  BY <1>4, <1>5

\* The list without two neighbours.
LEMMA RemoveTwo ==
  ASSUME NEW s \in Seq(Nat), Ascending(s), NEW k \in 2..Len(s)
  PROVE  /\ RemoveAt(RemoveAt(s, k), k - 1) \in Seq(Nat)
         /\ Ascending(RemoveAt(RemoveAt(s, k), k - 1))
         /\ ToSet(RemoveAt(RemoveAt(s, k), k - 1)) = ToSet(s) \ {s[k - 1], s[k]}
<1> DEFINE t == RemoveAt(s, k)
<1>1. Len(s) \in Nat
  BY LenProperties
<1>2. k \in 1..Len(s) /\ k - 1 \in 1..(Len(s) - 1) /\ k - 1 < k
  BY <1>1
<1>3. t \in Seq(Nat) /\ Ascending(t) /\ ToSet(t) = ToSet(s) \ {s[k]}
  BY <1>2, RemoveAscending
<1>4. /\ Len(t) = Len(s) - 1
      /\ \A j \in 1..(Len(s) - 1) : t[j] = IF j < k THEN s[j] ELSE s[j + 1]
  BY <1>2, RemoveAtElements
<1> HIDE DEF t
<1>5. k - 1 \in 1..Len(t) /\ t[k - 1] = s[k - 1]
  BY <1>2, <1>4
<1>6. /\ RemoveAt(t, k - 1) \in Seq(Nat) /\ Ascending(RemoveAt(t, k - 1))
      /\ ToSet(RemoveAt(t, k - 1)) = ToSet(t) \ {t[k - 1]}
  BY <1>3, <1>5, RemoveAscending
<1>7. ToSet(t) \ {t[k - 1]} = ToSet(s) \ {s[k - 1], s[k]}
  BY <1>3, <1>5
<1> QED
  BY <1>6, <1>7 DEF t

\* The border listed right before the free chunk p heads the block p lies in,
\* so when p and the chunk r behind it are as large as the border says, the
\* block holds nothing else.
LEMMA WholeBlock ==
  ASSUME HeapSound, NEW k \in 2..Len(fl), NEW o, o = fl[k - 1], NEW p, p = fl[k],
         chunk[o].valid = "BORDER", chunk[p].valid = "FREE",
         NEW r \in DOMAIN chunk, chunk[r].valid = "FREE", p + chunk[p].size = r,
         chunk[o].asize = chunk[p].size + chunk[r].size
  PROVE  /\ o \in Valid({"BORDER"}) /\ o \in DOMAIN region /\ o < p
         /\ o + Extent(o) = p /\ o + region[o] = r + chunk[r].size
<1>0. /\ k \in 1..Len(fl) /\ k - 1 \in 1..Len(fl) /\ k - 1 < k
      /\ Len(fl) \in Nat /\ DOMAIN fl = 1..Len(fl)
  <2>1. fl \in Seq(Nat)
    BY DEF HeapSound, TypeOK
  <2>2. Len(fl) \in Nat /\ DOMAIN fl = 1..Len(fl)
    BY <2>1, LenProperties
  <2> QED
    BY <2>2
<1>1. /\ o \in Nat /\ o \in DOMAIN chunk /\ p \in Nat /\ p \in DOMAIN chunk
  BY <1>0, ListEntry
<1>2. /\ o \in Valid({"BORDER"}) /\ o \in DOMAIN region
      /\ region[o] = BORDER_EXTRA + chunk[o].asize /\ chunk[o].size = BORDER_EXTRA
      /\ heapbase = NULL
  <2>1. o \in Valid({"BORDER"})
    BY <1>1 DEF Valid
  <2> QED
    BY <1>1, <2>1 DEF HeapSound, BordersDescribeBlocks, SizesSound, BlocksHaveBorders
<1>3. /\ Extent(o) = BORDER_EXTRA /\ Extent(p) = chunk[p].size /\ Extent(r) = chunk[r].size
      /\ chunk[p].size \in Nat /\ chunk[r].size \in Nat /\ r \in Nat
      /\ chunk[p].size >= HDR /\ chunk[r].size >= HDR /\ BORDER_EXTRA \in Nat
      /\ region[o] \in Nat
  <2>1. Extent(o) = BORDER_EXTRA
    BY <1>2 DEF Extent
  <2>2. /\ Extent(p) = chunk[p].size /\ chunk[p].size \in Nat /\ chunk[p].size >= HDR
        /\ Extent(r) = chunk[r].size /\ chunk[r].size \in Nat /\ chunk[r].size >= HDR /\ r \in Nat
    BY <1>1, ChunkFields
  <2>3. BORDER_EXTRA \in Nat /\ region[o] \in Nat
    BY <1>2 DEF BORDER_EXTRA, HeapSound, TypeOK
  <2> QED
    BY <2>1, <2>2, <2>3
<1>4. o < p /\ o + Extent(o) <= p
  <2>1. o < p
    BY <1>0 DEF HeapSound, FreeListAscending
  <2> QED
    BY <1>1, <2>1 DEF HeapSound, ChunksDisjoint
<1>5. \A g \in DOMAIN region : g \in Nat /\ region[g] \in Nat /\ g \in Valid({"BORDER"})
  BY <1>2 DEF HeapSound, TypeOK, BlocksHaveBorders
<1>6. \A g, h \in DOMAIN region : h > g => g + region[g] <= h
  BY DEF HeapSound, BlocksHaveBorders
<1>7. ASSUME NEW g \in DOMAIN region PROVE g <= o \/ g >= p
  <2>1. g \in ToSet(fl)
    <3>1. g \in DOMAIN chunk /\ chunk[g].valid = "BORDER"
      BY <1>5 DEF Valid
    <3>2. g \notin InFlight
      BY <3>1 DEF HeapSound, CallSound, InFlight, Valid
    <3> QED
      BY <3>1, <3>2 DEF HeapSound, FreeListExact, Valid
  <2>2. PICK i \in 1..Len(fl) : g = fl[i]
    BY <1>0, <2>1 DEF ToSet
  <2>3. i <= k - 1 \/ i >= k
    BY <1>0
  <2>4. CASE i <= k - 1
    <3>1. i = k - 1 \/ fl[i] < fl[k - 1]
      BY <1>0, <2>4 DEF HeapSound, FreeListAscending
    <3> QED
      BY <1>1, <1>5, <2>2, <3>1
  <2>5. CASE i >= k
    <3>1. i = k \/ fl[k] < fl[i]
      BY <1>0, <2>5 DEF HeapSound, FreeListAscending
    <3> QED
      BY <1>1, <1>5, <2>2, <3>1
  <2> QED
    BY <2>3, <2>4, <2>5
<1>8. PICK x : x = r + chunk[r].size - 1
  OBVIOUS
<1>9. Owned(x) /\ x \in Nat
  <2>1. x \in r..(r + Extent(r) - 1) /\ x \in Nat
    BY <1>3, <1>8, SMTT(30) DEF HDR
  <2> QED
    BY <2>1 DEF HeapSound, ChunksOwned
<1>10. PICK g \in DOMAIN region : g <= x /\ x < g + region[g]
  BY <1>2, <1>9 DEF Owned
<1>11. g = o
  <2>1. CASE g < o
    <3>1. g + region[g] <= o
      BY <1>2, <1>6, <2>1
    <3>2. x >= p
      BY <1>1, <1>3, <1>8, SMTT(30) DEF HDR
    <3> QED
      BY <1>1, <1>4, <1>5, <1>9, <1>10, <3>1, <3>2
  <2>2. CASE g > o
    <3>1. g \in DOMAIN chunk /\ g # p /\ g # r /\ g >= p /\ Extent(g) \in Nat /\ Extent(g) >= HDR
      <4>1. g \in DOMAIN chunk /\ chunk[g].valid = "BORDER"
        BY <1>5 DEF Valid
      <4>2. g >= p
        BY <1>1, <1>5, <1>7, <2>2
      <4> QED
        BY <4>1, <4>2, ChunkFields
    <3>2. p + Extent(p) <= g \/ g + Extent(g) <= p
      BY <1>1, <3>1, Apart
    <3>3. r + Extent(r) <= g \/ g + Extent(g) <= r
      BY <3>1, Apart
    <3>4. g \in Nat
      BY <1>5
    <3>5. r <= g
      BY <1>1, <1>3, <3>1, <3>2, <3>4 DEF HDR
    <3>6. r + Extent(r) <= g
      BY <1>3, <3>1, <3>3, <3>4, <3>5 DEF HDR
    <3> QED
      BY <1>3, <1>8, <1>9, <1>10, <3>4, <3>6
  <2> QED
    BY <1>1, <1>5, <2>1, <2>2
<1>12. r + chunk[r].size <= o + region[o]
  BY <1>1, <1>3, <1>8, <1>9, <1>10, <1>11, SMTT(30)
<1>13. PICK P, R, B, G : P = chunk[p].size /\ R = chunk[r].size /\ B = BORDER_EXTRA
                         /\ G = region[o]
  OBVIOUS
<1>14. /\ P \in Nat /\ R \in Nat /\ B \in Nat /\ G \in Nat /\ o \in Nat /\ p \in Nat /\ r \in Nat
       /\ o + B <= p /\ p + P = r /\ G = B + (P + R) /\ r + R <= o + G
  <2>1. P \in Nat /\ R \in Nat /\ B \in Nat /\ G \in Nat /\ o \in Nat /\ p \in Nat /\ r \in Nat
    BY <1>1, <1>3, <1>13
  <2>2. o + B <= p /\ p + P = r
    BY <1>3, <1>4, <1>13
  <2>3. G = B + (P + R)
    BY <1>2, <1>13
  <2>4. r + R <= o + G
    BY <1>12, <1>13
  <2> QED
    BY <2>1, <2>2, <2>3, <2>4
<1>15. o + B = p /\ o + G = r + R
  BY <1>14, Z3T(60)
<1> QED
  BY <1>2, <1>3, <1>4, <1>13, <1>15

\* __free merging with the chunk before, and returning what became free as a
\* whole, keeps the invariant.
LEMMA MergeBeforeSound ==
  ASSUME HeapSound, MergeBefore
  PROVE  HeapSound' /\ (Kept => Kept')
<1> PICK r : r = call.r
  OBVIOUS
<1>1. /\ pc = "merge" /\ Return
      /\ UNCHANGED <<split_mem, minhunk, maxhunk, live, lost>>
  BY DEF MergeBefore
<1>1a. PICK k, p, size, end :
       /\ k \in 1..(Len(fl) + 1)
       /\ p = fl[k - 1] /\ size = chunk[p].size + chunk[r].size /\ end = p + size
       /\ StopsAt(k, r) /\ TakesBefore(k, r) /\ chunk[p].valid # "BORDER"
       /\ LET joined == Drop(Put(chunk, p, Header("FREE", size)), r)
          IN IF p + chunk[p].size # r
             THEN UNCHANGED <<fl, chunk, region, heapbase, stksize>>
             ELSE IF AtHeapTop(end)
             THEN /\ chunk' = IF end = heapbase THEN Drop(joined, p) ELSE joined
                  /\ fl' = IF end = heapbase THEN RemoveAt(fl, k - 1) ELSE fl
                  /\ heapbase' = IF end = heapbase THEN p ELSE heapbase
                  /\ stksize' = IF end = heapbase THEN stksize + size ELSE stksize
                  /\ UNCHANGED region
             ELSE IF k > 2 /\ chunk[fl[k - 2]].valid = "BORDER"
                           /\ chunk[fl[k - 2]].asize = size
             THEN /\ chunk' = Drop(Drop(joined, p), fl[k - 2])
                  /\ fl' = RemoveAt(RemoveAt(fl, k - 1), k - 2)
                  /\ region' = Drop(region, fl[k - 2])
                  /\ UNCHANGED <<heapbase, stksize>>
             ELSE chunk' = joined /\ UNCHANGED <<fl, region, heapbase, stksize>>
  BY DEF MergeBefore
<1>2. /\ r \in DOMAIN chunk /\ chunk[r].valid = "FREE" /\ r \in Nat
      /\ Extent(r) = chunk[r].size /\ chunk[r].size \in Nat
      /\ chunk[r].size >= HDR /\ InFlight = {r}
  BY <1>1, HeldChunk
<1>3. /\ k \in 2..Len(fl) /\ k - 1 \in 1..Len(fl) /\ p \in DOMAIN chunk /\ p # r /\ p < r
      /\ p \in Nat /\ Extent(p) = chunk[p].size /\ chunk[p].size \in Nat
      /\ chunk[p].size >= HDR /\ chunk[p].valid = "FREE" /\ p + chunk[p].size = r
  BY <1>1, <1>1a, PrevIsAdjacent
<1>3a. p = fl[k - 1] /\ size = chunk[p].size + chunk[r].size /\ end = p + size
  BY <1>1a
<1>4. /\ size \in Nat /\ end = r + chunk[r].size /\ end \in Nat
  BY <1>2, <1>3, <1>3a
<1>5. pc' = "idle" /\ InFlight' = {}
  BY <1>1, ReturnTypes DEF InFlight
<1>6. chunk \in [DOMAIN chunk -> HeaderType] /\ DOMAIN chunk \subseteq Nat
  BY DEF HeapSound, TypeOK, HeaderType
<1>7. \A x \in DOMAIN chunk \ {r, p} : x + Extent(x) <= p \/ end <= x
  <2> SUFFICES ASSUME NEW x \in DOMAIN chunk \ {r, p}
               PROVE  x + Extent(x) <= p \/ end <= x
    OBVIOUS
  <2>1. x + Extent(x) <= r \/ r + Extent(r) <= x
    BY <1>2, Apart
  <2>2. x + Extent(x) <= p \/ p + Extent(p) <= x
    BY <1>3, Apart
  <2>3. x \in Nat /\ Extent(x) \in Nat /\ Extent(x) >= HDR
    BY ChunkFields
  <2> QED
    BY <1>2, <1>3, <1>4, <2>1, <2>2, <2>3 DEF HDR
<1>8. CASE AtHeapTop(end)
  <2>1. end = heapbase /\ r >= HeapStart /\ heapbase # NULL
    BY <1>2, <1>4, <1>8, EndsAtHeapTop
  <2>2. /\ chunk' = Drop(Drop(Put(chunk, p, Header("FREE", size)), r), p)
        /\ fl' = RemoveAt(fl, k - 1) /\ heapbase' = p /\ stksize' = stksize + size
        /\ region' = region
    BY <1>1a, <1>3, <1>8, <2>1
  <2>3. /\ DOMAIN chunk' = DOMAIN chunk \ {r, p}
        /\ \A x \in DOMAIN chunk' : chunk'[x] = chunk[x]
    BY <1>3, <2>2 DEF Drop, Put
  <2>4. p >= HeapStart
    BY <1>3, <2>1, NotAcross
  <2>5. p <= heapbase /\ heapbase - p = size
    BY <1>3, <1>3a, <1>4, <2>1
  <2>6. /\ SizesSound' /\ ChunksDisjoint' /\ ChunksOwned'
        /\ BlocksHaveBorders' /\ BordersDescribeBlocks' /\ HeapAndStack'
        /\ heapbase' \in Nat /\ stksize' \in Int
    <3>1. /\ DOMAIN chunk' \subseteq DOMAIN chunk
          /\ \A x \in DOMAIN chunk' : x + Extent(x) <= p \/ heapbase <= x
      BY <1>7, <2>1, <2>3
    <3> QED
      BY <1>3, <2>1, <2>2, <2>3, <2>4, <2>5, <3>1, HeapLowered
  <2>7. fl' \in Seq(Nat) /\ FreeListAscending' /\ FreeListExact'
    <3>1. Valid({"FREE", "BORDER"})' = (Valid({"FREE", "BORDER"}) \ {r}) \ {p}
      BY <2>3 DEF Valid
    <3>2. Valid({"FREE", "BORDER"})' \ InFlight'
            = (Valid({"FREE", "BORDER"}) \ InFlight) \ {fl[k - 1]}
      BY <1>2, <1>3a, <1>5, <3>1
    <3> QED
      BY <1>3, <2>2, <3>2, ListRemoved
  <2>8. TypeOK' /\ CallSound' /\ LiveBlocksWhole' /\ AssertHolds'
    <3>1. \A x \in Valid({"ALLOC", "MOVED"}) : x \in DOMAIN chunk' /\ chunk'[x] = chunk[x]
      BY <1>2, <1>3, <2>3 DEF Valid
    <3>2. DOMAIN chunk' \subseteq DOMAIN chunk /\ chunk' \in [DOMAIN chunk' -> HeaderType]
      <4>1. chunk' = [x \in DOMAIN chunk \ {r, p} |-> chunk[x]]
        BY <2>2 DEF Drop, Put
      <4> QED
        BY <1>6, <4>1
    <3>3. DOMAIN region' \subseteq Nat /\ region' \in [DOMAIN region' -> Nat]
      BY <2>2 DEF HeapSound, TypeOK
    <3> QED
      BY <1>1, <2>6, <2>7, <3>1, <3>2, <3>3, FreeReturns
  <2>9. Kept => Kept'
    <3> DEFINE B == Bytes(p, size)
    <3>1. {r, p} \in SUBSET DOMAIN chunk
      BY <1>2, <1>3
    <3>2. \A x \in Nat : Covered(x)' <=>
            Covered(x) /\ ~\E a \in {r, p} : a <= x /\ x < a + Extent(a)
      BY <2>3, <3>1, CoveredDropped
    <3>3. \A x \in Nat : x \in B <=> p <= x /\ x < end
      BY <1>3, <1>3a, <1>4, BytesAre
    <3> HIDE DEF B
    <3>4. ASSUME NEW x \in Nat
          PROVE  x \in B <=> \E a \in {r, p} : a <= x /\ x < a + Extent(a)
      <4>1. x \in B <=> (p <= x /\ x < r) \/ (r <= x /\ x < r + chunk[r].size)
        BY <1>2, <1>3, <1>4, <3>3
      <4> QED
        BY <1>2, <1>3, <4>1
    <3>5. \A x \in Nat : Owned(x)' <=> Owned(x) /\ ~(p <= x /\ x < heapbase)
      BY <1>3, <2>1, <2>2, <2>4, <2>5, OwnLowered
    <3>6. \A x \in Nat : /\ Covered(x)' <=> Covered(x) /\ x \notin B
                         /\ Owned(x)' <=> Owned(x) /\ x \notin B
                         /\ x \in B => Covered(x)
      BY <2>1, <3>1, <3>2, <3>3, <3>4, <3>5 DEF Covered
    <3> QED
      BY <1>1, <3>6, KeptReturned
  <2> QED
    BY <2>6, <2>7, <2>8, <2>9 DEF HeapSound
<1>9. CASE /\ ~AtHeapTop(end)
           /\ k > 2 /\ chunk[fl[k - 2]].valid = "BORDER" /\ chunk[fl[k - 2]].asize = size
  <2> PICK o : o = fl[k - 2]
    OBVIOUS
  <2>1. /\ chunk' = Drop(Drop(Drop(Put(chunk, p, Header("FREE", size)), r), p), o)
        /\ fl' = RemoveAt(RemoveAt(fl, k - 1), k - 2) /\ region' = Drop(region, o)
        /\ UNCHANGED <<heapbase, stksize>>
    BY <1>1a, <1>3, <1>9
  <2>2. /\ DOMAIN chunk' = DOMAIN chunk \ {r, p, o}
        /\ \A x \in DOMAIN chunk' : chunk'[x] = chunk[x]
    BY <1>3, <2>1 DEF Drop, Put
  <2>3. k - 1 \in 2..Len(fl) /\ (k - 1) - 1 = k - 2
    BY <1>3, <1>9
  <2>4. /\ o \in Valid({"BORDER"}) /\ o \in DOMAIN region /\ o < p
        /\ o + Extent(o) = p /\ o + region[o] = end
    <3>1. PICK j \in 2..Len(fl) : j = k - 1 /\ j - 1 = k - 2
      BY <2>3
    <3>2. o = fl[j - 1] /\ p = fl[j]
      BY <1>3a, <3>1
    <3>3. chunk[o].valid = "BORDER" /\ chunk[o].asize = chunk[p].size + chunk[r].size
      BY <1>3a, <1>9
    <3>4. /\ o \in Valid({"BORDER"}) /\ o \in DOMAIN region /\ o < p
          /\ o + Extent(o) = p /\ o + region[o] = r + chunk[r].size
      BY <1>2, <1>3, <3>2, <3>3, WholeBlock, Z3T(30)
    <3> QED
      BY <1>4, <3>4
  <2>5. \A x \in DOMAIN chunk' : x + Extent(x) <= o \/ o + region[o] <= x
    <3> SUFFICES ASSUME NEW x \in DOMAIN chunk'
                 PROVE  x + Extent(x) <= o \/ o + region[o] <= x
      OBVIOUS
    <3>1. x + Extent(x) <= p \/ end <= x
      BY <1>7, <2>2
    <3>2. x + Extent(x) <= o \/ o + Extent(o) <= x
      BY <2>2, <2>4, Apart DEF Valid
    <3>3. x \in Nat /\ Extent(x) \in Nat /\ Extent(x) >= HDR
      BY <2>2, ChunkFields
    <3> QED
      BY <1>3, <1>4, <2>4, <3>1, <3>2, <3>3 DEF HDR
  <2>6. /\ SizesSound' /\ ChunksDisjoint' /\ ChunksOwned'
        /\ BlocksHaveBorders' /\ BordersDescribeBlocks' /\ HeapAndStack'
        /\ DOMAIN region' \subseteq Nat /\ region' \in [DOMAIN region' -> Nat]
    <3>1. \A x \in Valid({"BORDER"}) : x # o => x \in DOMAIN chunk'
      BY <1>2, <1>3, <2>2 DEF Valid
    <3>2. DOMAIN chunk' \subseteq DOMAIN chunk \ {o}
      BY <2>2
    <3> QED
      BY <2>1, <2>2, <2>4, <2>5, <3>1, <3>2, BlockReturned
  <2>7. fl' \in Seq(Nat) /\ FreeListAscending' /\ FreeListExact'
    <3>1. fl \in Seq(Nat) /\ Ascending(fl) /\ ToSet(fl) = Valid({"FREE", "BORDER"}) \ {r}
      BY <1>2 DEF HeapSound, TypeOK, FreeListAscending, FreeListExact, Ascending
    <3> PICK j : j = k - 1
      OBVIOUS
    <3>2. j \in 2..Len(fl) /\ j - 1 = k - 2
      BY <2>3
    <3>3. /\ RemoveAt(RemoveAt(fl, j), j - 1) \in Seq(Nat)
          /\ Ascending(RemoveAt(RemoveAt(fl, j), j - 1))
          /\ ToSet(RemoveAt(RemoveAt(fl, j), j - 1)) = ToSet(fl) \ {fl[j - 1], fl[j]}
      BY <3>1, <3>2, RemoveTwo
    <3>4. fl' = RemoveAt(RemoveAt(fl, j), j - 1) /\ fl[j - 1] = o /\ fl[j] = p
      BY <1>3a, <2>1, <3>2
    <3>5. FreeListAscending'
      BY <3>3, <3>4 DEF FreeListAscending, Ascending
    <3>6. Valid({"FREE", "BORDER"})' = (Valid({"FREE", "BORDER"}) \ {r}) \ {o, p}
      BY <2>2 DEF Valid
    <3>7. ToSet(fl') = Valid({"FREE", "BORDER"})' \ InFlight'
      BY <1>5, <3>1, <3>3, <3>4, <3>6
    <3>8. FreeListExact'
      BY <3>7 DEF FreeListExact, ToSet
    <3> QED
      BY <3>3, <3>4, <3>5, <3>8
  <2>8. TypeOK' /\ CallSound' /\ LiveBlocksWhole' /\ AssertHolds'
    <3>1. \A x \in Valid({"ALLOC", "MOVED"}) : x \in DOMAIN chunk' /\ chunk'[x] = chunk[x]
      BY <1>2, <1>3, <1>9, <2>2 DEF Valid
    <3>2. DOMAIN chunk' \subseteq DOMAIN chunk /\ chunk' \in [DOMAIN chunk' -> HeaderType]
      <4>1. chunk' = [x \in DOMAIN chunk \ {r, p, o} |-> chunk[x]]
        BY <2>1 DEF Drop, Put
      <4> QED
        BY <1>6, <4>1
    <3>3. heapbase' \in Nat /\ stksize' \in Int
      BY <2>1 DEF HeapSound, TypeOK
    <3> QED
      BY <1>1, <2>6, <2>7, <3>1, <3>2, <3>3, FreeReturns
  <2>9. Kept => Kept'
    <3> DEFINE B == Bytes(o, region[o])
    <3>1. {r, p, o} \in SUBSET DOMAIN chunk
      BY <1>2, <1>3, <2>4 DEF Valid
    <3>2. \A x \in Nat : Covered(x)' <=>
            Covered(x) /\ ~\E a \in {r, p, o} : a <= x /\ x < a + Extent(a)
      BY <2>2, <3>1, CoveredDropped
    <3>3. region[o] \in Nat /\ o \in Nat
      BY <2>4 DEF HeapSound, TypeOK
    <3>4. \A x \in Nat : x \in B <=> o <= x /\ x < o + region[o]
      BY <3>3, BytesAre
    <3> HIDE DEF B
    <3>5. ASSUME NEW x \in Nat
          PROVE  x \in B <=> \E a \in {r, p, o} : a <= x /\ x < a + Extent(a)
      <4>1. x \in B <=> \/ o <= x /\ x < p
                        \/ p <= x /\ x < r
                        \/ r <= x /\ x < r + chunk[r].size
        <5>1. x \in B <=> o <= x /\ x < end
          BY <2>4, <3>4
        <5>2. o < p /\ p < r /\ r <= end
          BY <1>2, <1>3, <1>4, <2>4
        <5>3. end = r + chunk[r].size /\ end \in Nat
          BY <1>4
        <5>4. o <= x /\ x < end <=> \/ o <= x /\ x < p
                                    \/ p <= x /\ x < r
                                    \/ r <= x /\ x < end
          <6>1. o \in Nat /\ p \in Nat /\ r \in Nat /\ end \in Nat
            BY <1>2, <1>3, <3>3, <5>3
          <6> QED
            BY <5>2, <6>1
        <5> QED
          BY <5>1, <5>3, <5>4
      <4> QED
        BY <1>2, <1>3, <2>4, <4>1
    <3>6. \A x \in Nat : Owned(x)' <=> Owned(x) /\ ~(o <= x /\ x < o + region[o])
      BY <2>1, <2>4, OwnReturned
    <3>7. \A x \in Nat : /\ Covered(x)' <=> Covered(x) /\ x \notin B
                         /\ Owned(x)' <=> Owned(x) /\ x \notin B
                         /\ x \in B => Covered(x)
      BY <3>1, <3>2, <3>4, <3>5, <3>6 DEF Covered
    <3> QED
      BY <1>1, <3>7, KeptReturned
  <2> QED
    BY <2>6, <2>7, <2>8, <2>9 DEF HeapSound
<1>10. CASE /\ ~AtHeapTop(end)
            /\ ~(k > 2 /\ chunk[fl[k - 2]].valid = "BORDER" /\ chunk[fl[k - 2]].asize = size)
  <2>1. /\ chunk' = Drop(Put(chunk, p, Header("FREE", chunk[p].size + chunk[r].size)), r)
        /\ UNCHANGED <<fl, region, heapbase, stksize>>
    BY <1>1a, <1>3, <1>10
  <2>2. /\ DOMAIN chunk' = DOMAIN chunk \ {r} /\ chunk'[p].valid = "FREE"
        /\ \A x \in DOMAIN chunk' : x # p => chunk'[x] = chunk[x]
        /\ chunk' \in [DOMAIN chunk' -> HeaderType]
        /\ SizesSound' /\ ChunksDisjoint' /\ ChunksOwned'
        /\ \A x \in Nat : Covered(x)' <=> Covered(x)
        /\ BlocksHaveBorders' /\ BordersDescribeBlocks' /\ HeapAndStack'
    BY <1>2, <1>3, <2>1, MergedTable
  <2>3. Valid({"FREE", "BORDER"})' = Valid({"FREE", "BORDER"}) \ {r}
    BY <1>3, <2>2 DEF Valid
  <2>4. FreeListAscending' /\ FreeListExact'
    <3>1. FreeListAscending'
      BY <2>1 DEF HeapSound, FreeListAscending
    <3> QED
      BY <1>2, <1>5, <2>1, <2>3, <3>1 DEF HeapSound, FreeListExact
  <2>5. TypeOK' /\ CallSound' /\ LiveBlocksWhole' /\ AssertHolds'
    <3>1. \A x \in Valid({"ALLOC", "MOVED"}) : x \in DOMAIN chunk' /\ chunk'[x] = chunk[x]
      BY <1>2, <1>3, <2>2 DEF Valid
    <3>2. /\ fl' \in Seq(Nat) /\ heapbase' \in Nat /\ stksize' \in Int
          /\ DOMAIN region' \subseteq Nat /\ region' \in [DOMAIN region' -> Nat]
      BY <2>1 DEF HeapSound, TypeOK
    <3>3. DOMAIN chunk' \subseteq DOMAIN chunk
      BY <2>2
    <3> QED
      BY <1>1, <2>2, <3>1, <3>2, <3>3, FreeReturns
  <2>6. Kept => Kept'
    BY <1>1, <2>1, <2>2, KeptSame
  <2> QED
    BY <2>2, <2>4, <2>5, <2>6 DEF HeapSound
<1> QED
  BY <1>8, <1>9, <1>10

-----------------------------------------------------------------------------
(* The theorems.                                                           *)

\* The invariant holds when the program starts.
LEMMA InitSound == Init => HeapSound
<1> SUFFICES ASSUME Init PROVE HeapSound
  OBVIOUS
<1>1. /\ fl = <<>> /\ DOMAIN chunk = {} /\ DOMAIN region = {} /\ DOMAIN live = {}
      /\ pc = "idle" /\ call = Idle /\ lost = {} /\ split_mem \in BOOLEAN
      /\ heapbase \in {NULL, HeapStart} /\ stksize = HeapTop - HeapStart
      /\ minhunk = MinHunk /\ maxhunk = MaxHunk
  <2>1. DOMAIN <<>> = {}
    OBVIOUS
  <2> QED
    BY <2>1 DEF Init
<1>2. TypeOK
  <2>1. fl \in Seq(Nat)
    BY <1>1
  <2>2. call \in Calls
    BY <1>1 DEF Idle, Call, Calls, NULL
  <2>3. chunk = [x \in {} |-> chunk[x]] /\ region = [x \in {} |-> region[x]]
        /\ live = [x \in {} |-> live[x]]
    BY DEF Init
  <2>4. /\ chunk \in [DOMAIN chunk -> [valid : {"FREE", "ALLOC", "BORDER", "MOVED"},
                                       size : Nat, asize : Nat]]
        /\ region \in [DOMAIN region -> Nat] /\ live \in [DOMAIN live -> Nat]
    BY <1>1, <2>3
  <2>5. /\ heapbase \in Nat /\ stksize \in Int /\ minhunk \in Nat /\ maxhunk \in Nat
    BY <1>1, SizeAssumption, AddressAssumption DEF NULL
  <2> QED
    BY <1>1, <2>1, <2>2, <2>4, <2>5 DEF TypeOK, Places
<1>3. CallSound /\ AssertHolds
  BY <1>1 DEF CallSound, AssertHolds
<1>4. SizesSound /\ ChunksDisjoint /\ ChunksOwned /\ LiveBlocksWhole
  BY <1>1 DEF SizesSound, ChunksDisjoint, ChunksOwned, LiveBlocksWhole
<1>5. Valid({"BORDER"}) = {} /\ Valid({"FREE", "BORDER"}) = {}
  BY <1>1 DEF Valid
<1>6. BlocksHaveBorders /\ BordersDescribeBlocks
  BY <1>1, <1>5 DEF BlocksHaveBorders, BordersDescribeBlocks
<1>7. HeapAndStack
  BY <1>1, AddressAssumption DEF HeapAndStack
<1>8. FreeListAscending
  BY <1>1 DEF FreeListAscending
<1>9. FreeListExact
  <2>1. ToSet(fl) = {}
    BY <1>1 DEF ToSet
  <2> QED
    BY <1>5, <2>1 DEF FreeListExact
<1> QED
  BY <1>2, <1>3, <1>4, <1>6, <1>7, <1>8, <1>9 DEF HeapSound

\* A step that changes nothing.
LEMMA StutterSound ==
  ASSUME HeapSound, UNCHANGED vars
  PROVE  HeapSound'
<1> USE DEF vars
<1>1. TypeOK' /\ CallSound' /\ SizesSound'
  BY DEF HeapSound, TypeOK, CallSound, SizesSound, Valid
<1>2. FreeListAscending' /\ FreeListExact'
  BY DEF HeapSound, FreeListAscending, FreeListExact, Valid, InFlight
<1>3. ChunksDisjoint' /\ ChunksOwned'
  BY DEF HeapSound, ChunksDisjoint, ChunksOwned, Extent, Owned
<1>4. BlocksHaveBorders' /\ BordersDescribeBlocks' /\ HeapAndStack'
  BY DEF HeapSound, BlocksHaveBorders, BordersDescribeBlocks, HeapAndStack, Valid
<1>5. LiveBlocksWhole' /\ AssertHolds'
  BY DEF HeapSound, LiveBlocksWhole, AssertHolds, Valid, Extent
<1> QED
  BY <1>1, <1>2, <1>3, <1>4, <1>5 DEF HeapSound

\* Every step of malloc, free, realloc, memalign and sbrk keeps the heap sound.
LEMMA NextSound ==
  ASSUME HeapSound, [Next]_vars
  PROVE  HeapSound'
<1>1. CASE \/ \E n \in Requests : CallMalloc(n)
           \/ \E n \in Requests, a \in Alignments : CallMemalign(a, n)
           \/ \E u \in DOMAIN live : CallFree(u)
           \/ \E u \in Resizable, n \in Requests :
                CallShrink(u, n) \/ CallKeep(u, n) \/ CallGrow(u, n)
           \/ \E siz \in ChunkSizes : MallocChunkSize(siz)
  BY <1>1, CallsSound
<1>2. CASE \E u \in Resizable, n \in Requests : CallExtend(u, n)
  BY <1>2, CallExtendSound
<1>3. CASE SearchFound \/ SearchFailed \/ SbrkSwitch
  BY <1>3, SearchSound
<1>4. CASE SbrkFailed \/ AlignKept \/ ReallocCopy
  BY <1>4, ReturnsSound
<1>5. CASE SbrkOs \/ SbrkHeap
  BY <1>5, SbrkOsSound, SbrkHeapSound
<1>6. CASE CarveSplit \/ CarveWhole \/ AlignMoved
  BY <1>6, CarveSplitSound, CarveWholeSound, AlignMovedSound
<1>7. CASE FreeRefused \/ FreeAlone \/ FreeAfter
  BY <1>7, FreeRefusedSound, FreeAloneSound, FreeAfterSound
<1>8. CASE MergeLink \/ MergeBorder \/ MergeBefore
  BY <1>8, MergeLinkSound, MergeBorderSound, MergeBeforeSound
<1>9. CASE UNCHANGED vars
  BY <1>9, StutterSound
<1> QED
  BY <1>1, <1>2, <1>3, <1>4, <1>5, <1>6, <1>7, <1>8, <1>9 DEF Next

\* The heap is sound in every reachable state, whatever the program asks for,
\* wherever GEMDOS places its blocks and however _crtinit set up the process.
THEOREM HeapIsSound == Spec => []HeapSound
<1>1. Init => HeapSound
  BY InitSound
<1>2. HeapSound /\ [Next]_vars => HeapSound'
  BY NextSound
<1> QED
  BY <1>1, <1>2, PTL DEF Spec

\* The variables of the allocator always have their types.
THEOREM TypeCorrect == Spec => []TypeOK
<1>1. HeapSound => TypeOK
  BY DEF HeapSound
<1> QED
  BY <1>1, HeapIsSound, PTL

\* The free list is always sorted by address, and holds the free chunks and the
\* borders and nothing else: the early returns of __free lose no chunk.
THEOREM ListCorrect == Spec => [](FreeListAscending /\ FreeListExact)
<1>1. HeapSound => FreeListAscending /\ FreeListExact
  BY DEF HeapSound
<1> QED
  BY <1>1, HeapIsSound, PTL

\* No byte is in two chunks.
THEOREM NoOverlap == Spec => []ChunksDisjoint
<1>1. HeapSound => ChunksDisjoint
  BY DEF HeapSound
<1> QED
  BY <1>1, HeapIsSound, PTL

\* No chunk has a byte that was given back to GEMDOS or to the stack.
THEOREM NoUseAfterReturn == Spec => []ChunksOwned
<1>1. HeapSound => ChunksOwned
  BY DEF HeapSound
<1> QED
  BY <1>1, HeapIsSound, PTL

\* The program's blocks stay as large as it asked for until it frees them.
THEOREM BlocksStayWhole == Spec => []LiveBlocksWhole
<1>1. HeapSound => LiveBlocksWhole
  BY DEF HeapSound
<1> QED
  BY <1>1, HeapIsSound, PTL

\* assert (s == q) in __realloc holds, and a border tells the truth about its
\* block.
THEOREM AssertionsHold == Spec => [](AssertHolds /\ BordersDescribeBlocks)
<1>1. HeapSound => AssertHolds /\ BordersDescribeBlocks
  BY DEF HeapSound
<1> QED
  BY <1>1, HeapIsSound, PTL

\* The memcpy of realloc reads inside the old block, writes inside the new one
\* and copies all that has to survive.
THEOREM CopyCorrect == Spec => []CopyIsSafe
<1>1. HeapSound => CopyIsSafe
  <2> SUFFICES ASSUME HeapSound, pc = "copy"
               PROVE  /\ Copied >= call.size \/ Copied >= live[call.r + HDR]
                      /\ Copied <= chunk[call.r].size - HDR
                      /\ Copied <= chunk[call.q].size - HDR
    BY DEF CopyIsSafe
  <2>1. /\ call.op \in {"shrink", "grow"} /\ call.r \in DOMAIN chunk
        /\ chunk[call.r].valid = "ALLOC" /\ call.r + HDR \in DOMAIN live
        /\ call.q \in DOMAIN chunk /\ chunk[call.q].size >= ChunkSize(call.n)
        /\ call.op = "shrink" => chunk[call.r].size >= ChunkSize(call.n)
        /\ call.op = "grow" => chunk[call.r].size < ChunkSize(call.n)
    BY DEF HeapSound, CallSound, Valid
  <2>2. /\ call.n \in Nat /\ call.size \in Nat /\ call.n >= call.size /\ call.r \in Nat
        /\ ChunkSize(call.n) \in Nat /\ ChunkSize(call.n) >= HDR + call.n
    BY CallSizes
  <2>3. /\ chunk[call.r].size \in Nat /\ chunk[call.q].size \in Nat
        /\ Extent(call.r) = chunk[call.r].size
    BY <2>1, ChunkFields
  <2>4. CASE call.op = "shrink"
    BY <2>1, <2>2, <2>3, <2>4 DEF Copied, HDR
  <2>5. CASE call.op = "grow"
    <3>1. (call.r + HDR) - HDR = call.r
      BY <2>2 DEF HDR
    <3>2. HDR + live[call.r + HDR] <= chunk[call.r].size /\ live[call.r + HDR] \in Nat
      BY <2>1, <2>3, <3>1 DEF HeapSound, LiveBlocksWhole, TypeOK
    <3> QED
      BY <2>1, <2>2, <2>3, <2>5, <3>2 DEF Copied, HDR
  <2> QED
    BY <2>1, <2>4, <2>5
<1> QED
  BY <1>1, HeapIsSound, PTL

-----------------------------------------------------------------------------
(* The heap implements Allocator: seen through the blocks the program      *)
(* holds, every step of malloc, free, realloc and memalign gives out,      *)
(* takes back or resizes one block, apart from all others.                 *)

\* The blocks of the program lie apart, as do the chunks they are in.
LEMMA LiveApart ==
  ASSUME HeapSound, NEW u \in DOMAIN live, NEW v \in DOMAIN live, u # v
  PROVE  u + live[u] <= v \/ v + live[v] <= u
<1>1. /\ u \in Nat /\ v \in Nat /\ live[u] \in Nat /\ live[v] \in Nat
      /\ u - HDR \in DOMAIN chunk /\ HDR + live[u] <= Extent(u - HDR)
      /\ v - HDR \in DOMAIN chunk /\ HDR + live[v] <= Extent(v - HDR)
  BY DEF HeapSound, LiveBlocksWhole, Valid, TypeOK
<1>2. /\ u - HDR \in Nat /\ v - HDR \in Nat
      /\ Extent(u - HDR) \in Nat /\ Extent(v - HDR) \in Nat
  BY <1>1, ChunkFields
<1>3. u - HDR # v - HDR
  BY <1>1 DEF HDR
<1>4. \/ (u - HDR) + Extent(u - HDR) <= v - HDR
      \/ (v - HDR) + Extent(v - HDR) <= u - HDR
  BY <1>1, <1>3, Apart
<1> QED
  BY <1>1, <1>2, <1>4 DEF HDR

\* A block lies behind its header.
LEMMA LiveBehindHeader ==
  ASSUME HeapSound, NEW u \in DOMAIN live
  PROVE  u \in Nat /\ u >= HDR
<1>1. u \in Nat /\ u - HDR \in DOMAIN chunk
  BY DEF HeapSound, LiveBlocksWhole, Valid, TypeOK
<1>2. u - HDR \in Nat
  BY <1>1, ChunkFields
<1> QED
  BY <1>1, <1>2 DEF HDR

\* What a state of the heap promises: blocks lie apart, and none at NULL.
LiveSafe == Promise!BlocksApart /\ 0 \notin DOMAIN live

\* A sound heap keeps that promise.
LEMMA SoundIsSafe == HeapSound => LiveSafe
<1> SUFFICES ASSUME HeapSound PROVE LiveSafe
  OBVIOUS
<1>1. Promise!BlocksApart
  BY LiveApart DEF Promise!BlocksApart, Promise!Apart
<1>2. 0 \notin DOMAIN live
  BY LiveBehindHeader DEF HDR
<1> QED
  BY <1>1, <1>2 DEF LiveSafe

\* A new block in a heap that stays sound is an allocation.
LEMMA Allocated ==
  ASSUME LiveSafe', NEW u, u \notin DOMAIN live, NEW n, live' = Put(live, u, n)
  PROVE  Promise!Allocate
<1>1. /\ DOMAIN live' = DOMAIN live \cup {u} /\ live'[u] = n
      /\ \A v \in DOMAIN live : live'[v] = live[v]
  BY DEF Put
<1>2. u # 0
  BY <1>1 DEF LiveSafe
<1>3. ASSUME NEW v \in DOMAIN live
      PROVE  v # u /\ (u + live'[u] <= v \/ v + live[v] <= u)
  BY <1>1, <1>3 DEF LiveSafe, Promise!BlocksApart, Promise!Apart
<1>4. Promise!Room(u, live'[u], DOMAIN live)
  BY <1>3 DEF Promise!Room, Promise!Apart
<1>5. live' = [v \in DOMAIN live \cup {u} |-> IF v = u THEN live'[u] ELSE live[v]]
  BY <1>1 DEF Put
<1> QED
  BY <1>1, <1>2, <1>4, <1>5 DEF Promise!Allocate

\* A block that becomes another in a heap that stays sound is resized.
LEMMA Resized ==
  ASSUME LiveSafe', NEW u \in DOMAIN live, NEW w, w = u \/ w \notin DOMAIN live,
         NEW n, live' = Put(Drop(live, u), w, n)
  PROVE  Promise!Resize
<1>1. /\ DOMAIN live' = (DOMAIN live \ {u}) \cup {w} /\ live'[w] = n
      /\ \A v \in DOMAIN live \ {u} : v # w /\ live'[v] = live[v]
  BY DEF Put, Drop
<1>2. w # 0
  BY <1>1 DEF LiveSafe
<1>3. ASSUME NEW v \in DOMAIN live \ {u}
      PROVE  v # w /\ (w + live'[w] <= v \/ v + live[v] <= w)
  BY <1>1, <1>3 DEF LiveSafe, Promise!BlocksApart, Promise!Apart
<1>4. Promise!Room(w, live'[w], DOMAIN live \ {u})
  BY <1>3 DEF Promise!Room, Promise!Apart
<1>5. live' = [v \in (DOMAIN live \ {u}) \cup {w} |-> IF v = w THEN live'[w] ELSE live[v]]
  BY <1>1 DEF Put, Drop
<1> QED
  BY <1>1, <1>2, <1>4, <1>5 DEF Promise!Resize

-----------------------------------------------------------------------------
(* The steps that change what the program holds.                           *)

\* A block __malloc carved goes to the program, memalign or realloc.
LEMMA CarveRefines ==
  ASSUME HeapSound, LiveSafe', CarveSplit \/ CarveWhole
  PROVE  Promise!Allocate \/ UNCHANGED live
<1> DEFINE q == call.q
           n == ChunkSize(call.n)
           a == q + chunk[q].size - n
<1>1. /\ pc = "carve" /\ q \in DOMAIN chunk /\ chunk[q].valid = "FREE"
      /\ q \in Nat /\ chunk[q].size \in Nat /\ Extent(q) = chunk[q].size
      /\ chunk[q].size >= n /\ n \in Nat /\ n >= HDR
  <2>1. pc = "carve"
    BY DEF CarveSplit, CarveWhole
  <2> QED
    BY <2>1, ChunkFields, CallSizes, ChunkSizeBounds DEF HeapSound, CallSound, Valid, HDR
<1>2. ASSUME NEW c \in Nat, AfterCarve(c), c + HDR \notin DOMAIN live
      PROVE  Promise!Allocate \/ UNCHANGED live
  BY <1>2, Allocated DEF AfterCarve
<1>3. CASE CarveWhole
  <2>1. q + HDR \notin DOMAIN live
    <3>1. (q + HDR) - HDR = q
      BY <1>1 DEF HDR
    <3> QED
      BY <1>1, <3>1 DEF HeapSound, LiveBlocksWhole, Valid
  <2> QED
    BY <1>1, <1>2, <1>3, <2>1 DEF CarveWhole
<1>4. CASE CarveSplit
  <2>1. /\ chunk[q].size > n + HDR /\ AfterCarve(a)
    BY <1>4 DEF CarveSplit
  <2>2. a \in Nat /\ q < a /\ a < q + chunk[q].size
    BY <1>1, <2>1 DEF HDR
  <2>3. a \notin DOMAIN chunk
    <3> SUFFICES ASSUME a \in DOMAIN chunk PROVE FALSE
      OBVIOUS
    <3>1. q + Extent(q) <= a \/ a + Extent(a) <= q
      BY <1>1, <2>2, Apart
    <3>2. Extent(a) \in Nat
      BY ChunkFields
    <3> QED
      BY <1>1, <2>2, <3>1, <3>2
  <2>4. a + HDR \notin DOMAIN live
    <3>1. (a + HDR) - HDR = a
      BY <2>2 DEF HDR
    <3> QED
      BY <2>3, <3>1 DEF HeapSound, LiveBlocksWhole, Valid
  <2> QED
    BY <1>2, <2>1, <2>2, <2>4
<1> QED
  BY <1>3, <1>4

\* memalign returns the block of malloc, or an aligned one inside it.
LEMMA AlignRefines ==
  ASSUME HeapSound, LiveSafe', AlignKept \/ AlignMoved
  PROVE  Promise!Allocate
<1> DEFINE q == call.q
           mem == RoundUp(q + HDR, call.align)
<1>1. /\ pc = "align" /\ q \in DOMAIN chunk /\ chunk[q].valid = "ALLOC"
      /\ q + HDR \notin DOMAIN live
      /\ chunk[q].size >= ChunkSize(call.n)
  <2>1. pc = "align"
    BY DEF AlignKept, AlignMoved
  <2> QED
    BY <2>1 DEF HeapSound, CallSound, Valid
<1>2. CASE AlignKept
  BY <1>1, <1>2, Allocated DEF AlignKept
<1>3. CASE AlignMoved
  <2>1. call.align > MALLOC_ALIGNMENT /\ live' = Put(live, mem, call.size)
    BY <1>3 DEF AlignMoved
  <2>2. call.n = call.size + call.align - 1
    BY <1>1, <2>1 DEF HeapSound, CallSound
  <2>3. /\ q \in Nat /\ chunk[q].size \in Nat /\ Extent(q) = chunk[q].size
        /\ call.size \in Nat /\ call.align \in Nat \ {0}
        /\ ChunkSize(call.n) \in Nat /\ ChunkSize(call.n) >= HDR + call.n
    BY <1>1, ChunkFields, CallSizes
  <2>4. mem \in Nat /\ q + HDR <= mem /\ mem <= q + HDR + call.align - 1
    <3>1. q + HDR \in Nat
      BY <2>3 DEF HDR
    <3> QED
      BY <2>3, <3>1, RoundUpBounds
  <2>5. mem \notin DOMAIN live
    <3> SUFFICES ASSUME mem \in DOMAIN live PROVE FALSE
      OBVIOUS
    <3>1. mem - HDR \in DOMAIN chunk
      BY DEF HeapSound, LiveBlocksWhole, Valid
    <3>2. mem - HDR # q
      BY <1>1, <2>3, <2>4 DEF HDR
    <3>3. q + Extent(q) <= mem - HDR \/ (mem - HDR) + Extent(mem - HDR) <= q
      BY <1>1, <3>1, <3>2, Apart
    <3>4. Extent(mem - HDR) \in Nat /\ Extent(mem - HDR) >= HDR
      BY <3>1, ChunkFields
    <3> QED
      BY <1>1, <2>2, <2>3, <2>4, <3>3, <3>4 DEF HDR
  <2> QED
    BY <2>1, <2>5, Allocated
<1> QED
  BY <1>2, <1>3

\* realloc moves or resizes the block it was given and no other.
LEMMA ReallocRefines ==
  ASSUME HeapSound, LiveSafe',
         \/ SbrkFailed \/ ReallocCopy
         \/ \E u \in Resizable, n \in Requests : CallKeep(u, n) \/ CallExtend(u, n)
  PROVE  Promise!Resize \/ UNCHANGED live
<1>1. ASSUME NEW u \in DOMAIN live, NEW n, live' = Put(live, u, n)
      PROVE  Promise!Resize
  <2>1. live' = Put(Drop(live, u), u, n)
    BY <1>1 DEF Put, Drop
  <2> QED
    BY <2>1, Resized
<1>2. CASE SbrkFailed
  <2>1. CASE call.op = "shrink"
    <3>1. call.r + HDR \in DOMAIN live
      BY <1>2, <2>1 DEF SbrkFailed, HeapSound, CallSound
    <3> QED
      BY <1>1, <1>2, <2>1, <3>1 DEF SbrkFailed
  <2> QED
    BY <1>2, <2>1 DEF SbrkFailed
<1>3. CASE ReallocCopy
  <2>1. /\ call.r + HDR \in DOMAIN live /\ call.q + HDR \notin DOMAIN live
        /\ live' = Put(Drop(live, call.r + HDR), call.q + HDR, call.size)
    BY <1>3 DEF ReallocCopy, HeapSound, CallSound
  <2> QED
    BY <2>1, Resized
<1>4. ASSUME NEW u \in Resizable, NEW n \in Requests, CallKeep(u, n) \/ CallExtend(u, n)
      PROVE  Promise!Resize \/ UNCHANGED live
  <2>1. live' = Put(live, u, n) \/ UNCHANGED live
    BY <1>4 DEF CallKeep, CallExtend
  <2>2. u \in DOMAIN live
    BY DEF Resizable
  <2> QED
    BY <1>1, <2>1, <2>2
<1> QED
  BY <1>2, <1>3, <1>4

\* Every other step keeps the blocks as they are, or gives one up.
LEMMA StepRefines ==
  ASSUME HeapSound, LiveSafe', [Next]_vars
  PROVE  [Promise!Next]_live
<1>1. CASE CarveSplit \/ CarveWhole
  BY <1>1, CarveRefines DEF Promise!Next
<1>2. CASE AlignKept \/ AlignMoved
  BY <1>2, AlignRefines DEF Promise!Next
<1>3. CASE \/ SbrkFailed \/ ReallocCopy
           \/ \E u \in Resizable, n \in Requests : CallKeep(u, n) \/ CallExtend(u, n)
  BY <1>3, ReallocRefines DEF Promise!Next
<1>4. CASE \E u \in DOMAIN live : CallFree(u)
  BY <1>4 DEF CallFree, Drop, Promise!Next, Promise!Release
<1>5. CASE \/ \E n \in Requests : CallMalloc(n)
           \/ \E n \in Requests, al \in Alignments : CallMemalign(al, n)
           \/ \E u \in Resizable, n \in Requests : CallShrink(u, n) \/ CallGrow(u, n)
           \/ \E siz \in ChunkSizes : MallocChunkSize(siz)
           \/ SearchFound \/ SearchFailed \/ SbrkOs \/ SbrkHeap \/ SbrkSwitch
           \/ FreeRefused \/ FreeAlone \/ FreeAfter
           \/ MergeLink \/ MergeBorder \/ MergeBefore
           \/ UNCHANGED vars
  BY <1>5 DEF CallMalloc, CallMemalign, CallShrink, CallGrow, MallocChunkSize, SearchFound,
     SearchFailed, SbrkOs, SbrkHeap, SbrkSwitch, FreeRefused, FreeAlone, FreeAfter, MergeLink,
     MergeBorder, MergeBefore, vars
<1> QED
  BY <1>1, <1>2, <1>3, <1>4, <1>5 DEF Next

\* malloc, free, realloc and memalign keep their promise: the detailed heap
\* implements Allocator, for every memory layout and sequence of requests.
THEOREM KeepsThePromise == Spec => ImplementsAllocator
<1>1. Init => Promise!Init
  BY DEF Init, Promise!Init
<1>2. HeapSound /\ LiveSafe' /\ [Next]_vars => [Promise!Next]_live
  BY StepRefines
<1> QED
  BY <1>1, <1>2, HeapIsSound, SoundIsSafe, PTL DEF Spec, ImplementsAllocator, Promise!Spec

\* The program's blocks never overlap.
THEOREM LiveBlocksApart == Spec => []Promise!BlocksApart
<1>1. HeapSound => Promise!BlocksApart
  BY SoundIsSafe DEF LiveSafe
<1> QED
  BY <1>1, HeapIsSound, PTL

\* The own heap and the stack always share their area without a gap or an
\* overlap.
THEOREM HeapMeetsStack == Spec => []HeapAndStack
<1>1. HeapSound => HeapAndStack
  BY DEF HeapSound
<1> QED
  BY <1>1, HeapIsSound, PTL

-----------------------------------------------------------------------------
(* No block gets lost.                                                     *)

\* Steps that leave the headers alone.
LEMMA CallsHold ==
  ASSUME HeapSound, NoOrphans,
         \/ \E n \in Requests : CallMalloc(n)
         \/ \E n \in Requests, al \in Alignments : CallMemalign(al, n)
         \/ \E u \in DOMAIN live : CallFree(u)
         \/ \E u \in Resizable, n \in Requests :
              CallShrink(u, n) \/ CallKeep(u, n) \/ CallGrow(u, n)
         \/ \E siz \in ChunkSizes : MallocChunkSize(siz)
         \/ SearchFound \/ SearchFailed \/ SbrkSwitch \/ SbrkFailed
         \/ AlignKept \/ ReallocCopy \/ UNCHANGED vars
  PROVE  NoOrphans'
<1> USE DEF Return, EnterMalloc, EnterFree, Call, Idle, heap, Put, Drop, Valid, InTransit
<1>1. CASE \/ \E n \in Requests : CallMalloc(n)
           \/ \E n \in Requests, al \in Alignments : CallMemalign(al, n)
           \/ \E u \in Resizable, n \in Requests : CallShrink(u, n) \/ CallGrow(u, n)
           \/ \E siz \in ChunkSizes : MallocChunkSize(siz)
           \/ SearchFound \/ SearchFailed \/ SbrkSwitch \/ UNCHANGED vars
  <2>1. \/ pc \notin {"align", "copy", "free"} /\ pc' \notin {"align", "copy", "free"}
       \/ UNCHANGED vars
    BY <1>1 DEF CallMalloc, CallMemalign, CallShrink, CallGrow, MallocChunkSize, SearchFound,
       SearchFailed, SbrkSwitch
  <2>2. UNCHANGED <<chunk, live>>
    BY <1>1 DEF CallMalloc, CallMemalign, CallShrink, CallGrow, MallocChunkSize, SearchFound,
       SearchFailed, SbrkSwitch, vars
  <2> QED
    BY <2>1, <2>2 DEF NoOrphans, vars
<1>2. ASSUME NEW u \in DOMAIN live, CallFree(u) PROVE NoOrphans'
  <2>1. u \in Nat
    BY LiveBehindHeader
  <2>2. /\ pc = "idle" /\ pc' = "free" /\ call'.r = u - HDR /\ chunk' = chunk
        /\ DOMAIN live' = DOMAIN live \ {u}
    BY <1>2 DEF CallFree
  <2>3. ASSUME NEW x \in DOMAIN chunk, x + HDR = u PROVE x = u - HDR
    BY <2>1, <2>3, ChunkFields DEF HDR
  <2> QED
    BY <2>2, <2>3 DEF NoOrphans
<1>3. ASSUME NEW u \in Resizable, NEW n \in Requests, CallKeep(u, n) PROVE NoOrphans'
  BY <1>3 DEF NoOrphans, CallKeep
<1>4. CASE SbrkFailed \/ AlignKept
  BY <1>4 DEF NoOrphans, SbrkFailed, AlignKept
<1>5. CASE ReallocCopy
  <2>1. /\ pc = "copy" /\ pc' = "free" /\ call'.r = call.r /\ chunk' = chunk
        /\ DOMAIN live' = (DOMAIN live \ {call.r + HDR}) \cup {call.q + HDR}
    BY <1>5 DEF ReallocCopy
  <2>2. call.r \in DOMAIN chunk
    BY <2>1 DEF HeapSound, CallSound
  <2>3. ASSUME NEW x \in DOMAIN chunk, x + HDR = call.r + HDR PROVE x = call.r
    BY <2>2, <2>3, ChunkFields DEF HDR
  <2> QED
    BY <2>1, <2>3 DEF NoOrphans
<1> QED
  BY <1>1, <1>2, <1>3, <1>4, <1>5

\* From table f to table g no header becomes that of a handed out chunk.
NoneNew(f, g) ==
  \A x \in DOMAIN g : g[x].valid \in {"ALLOC", "MOVED"} => x \in DOMAIN f /\ f[x] = g[x]

\* Writing free headers and borders and dropping headers hands out no chunk.
LEMMA NoneNewFacts ==
  ASSUME NEW f, NEW g, NoneNew(f, g), NEW a
  PROVE  /\ NoneNew(f, f) /\ NoneNew(f, Drop(g, a))
         /\ \A sz : NoneNew(f, Put(g, a, Header("FREE", sz)))
         /\ \A sz : NoneNew(f, Put(g, a, Border(sz)))
BY DEF NoneNew, Drop, Put, Header, Border

\* Steps that make, split or hand out chunks.
LEMMA CarvesHold ==
  ASSUME HeapSound, NoOrphans,
         \/ SbrkOs \/ SbrkHeap \/ CarveSplit \/ CarveWhole \/ AlignMoved
         \/ \E u \in Resizable, n \in Requests : CallExtend(u, n)
  PROVE  NoOrphans'
<1>1. CASE SbrkOs \/ SbrkHeap
  <2>1. /\ pc = "sbrk" /\ pc' = "carve" /\ live' = live
        /\ \E b, sz : LinkNew(b, sz)
    BY <1>1 DEF SbrkOs, SbrkHeap
  <2>2. PICK b, sz : LinkNew(b, sz)
    BY <2>1
  <2>3. NoneNew(chunk, chunk')
    <3>1. \/ chunk' = Put(Put(chunk, b, Border(sz - BORDER_EXTRA)),
                          b + BORDER_EXTRA, Header("FREE", sz - BORDER_EXTRA))
          \/ chunk' = Put(chunk, b, Header("FREE", sz))
      BY <2>2 DEF LinkNew
    <3>2. NoneNew(chunk, chunk)
      BY DEF NoneNew
    <3> QED
      BY <3>1, <3>2, NoneNewFacts
  <2> QED
    BY <2>1, <2>3 DEF NoOrphans, NoneNew, Valid, InTransit
<1>2. CASE CarveSplit \/ CarveWhole
  <2>1. PICK c, g, v : /\ AfterCarve(c) /\ chunk' = Put(g, c, v)
                       /\ NoneNew(chunk, g)
    <3>1. NoneNew(chunk, chunk)
      BY DEF NoneNew
    <3>2. CASE CarveSplit
      BY <3>1, <3>2, NoneNewFacts DEF CarveSplit
    <3>3. CASE CarveWhole
      BY <3>1, <3>3 DEF CarveWhole
    <3> QED
      BY <1>2, <3>2, <3>3
  <2>2. pc = "carve"
    BY <1>2 DEF CarveSplit, CarveWhole
  <2>3. /\ DOMAIN live \subseteq DOMAIN live'
        /\ c + HDR \in DOMAIN live' \/ (pc' \in {"align", "copy"} /\ call'.q = c)
    <3>1. CASE call.op = "malloc"
      BY <2>1, <3>1 DEF AfterCarve, Put
    <3>2. CASE call.op = "memalign"
      BY <2>1, <3>2 DEF AfterCarve, HeapSound, TypeOK, Calls
    <3>3. CASE call.op \notin {"malloc", "memalign"}
      BY <2>1, <3>3 DEF AfterCarve, HeapSound, TypeOK, Calls
    <3> QED
      BY <3>1, <3>2, <3>3
  <2>4. \A x \in DOMAIN chunk' : chunk'[x].valid \in {"ALLOC", "MOVED"} =>
          x = c \/ (x \in DOMAIN chunk /\ chunk[x].valid \in {"ALLOC", "MOVED"})
    BY <2>1 DEF NoneNew, Put
  <2> QED
    BY <2>2, <2>3, <2>4 DEF NoOrphans, Valid, InTransit
<1>3. CASE AlignMoved
  <2> DEFINE mem == RoundUp(call.q + HDR, call.align)
  <2>1. /\ pc = "align" /\ pc' = "idle"
        /\ chunk' = Put(Drop(chunk, call.q), mem - HDR, Header("MOVED", call.size))
        /\ live' = Put(live, mem, call.size)
    BY <1>3 DEF AlignMoved, Return
  <2>2. call.q + HDR \in Nat /\ call.align \in Nat \ {0}
    <3>1. call \in Calls
      BY DEF HeapSound, TypeOK
    <3> QED
      BY <3>1 DEF Calls, HDR
  <2>3. mem \in Nat
    BY <2>2, RoundUpBounds
  <2>4. (mem - HDR) + HDR = mem
    BY <2>3 DEF HDR
  <2>5. /\ DOMAIN chunk' = (DOMAIN chunk \ {call.q}) \cup {mem - HDR}
        /\ \A x \in DOMAIN chunk \ {call.q} : x # mem - HDR => chunk'[x] = chunk[x]
        /\ DOMAIN live' = DOMAIN live \cup {mem}
    BY <2>1 DEF Put, Drop
  <2> QED
    BY <2>1, <2>4, <2>5 DEF NoOrphans, Valid, InTransit
<1>4. ASSUME NEW u \in Resizable, NEW n \in Requests, CallExtend(u, n) PROVE NoOrphans'
  <2>1. u \in DOMAIN live /\ u - HDR \in DOMAIN chunk /\ chunk[u - HDR].valid = "ALLOC"
    BY DEF Resizable, HeapSound, LiveBlocksWhole, Valid
  <2>2. /\ pc = "idle" /\ DOMAIN live \subseteq DOMAIN live'
        /\ \A x \in DOMAIN chunk' : x = u - HDR \/ (x \in DOMAIN chunk /\ chunk'[x] = chunk[x])
    BY <1>4 DEF CallExtend, Put, Drop
  <2> QED
    BY <2>1, <2>2 DEF NoOrphans, Valid, InTransit
<1> QED
  BY <1>1, <1>2, <1>3, <1>4

\* Steps of free.
LEMMA FreesHold ==
  ASSUME HeapSound, NoOrphans,
         \/ FreeRefused \/ FreeAlone \/ FreeAfter
         \/ MergeLink \/ MergeBorder \/ MergeBefore
  PROVE  NoOrphans'
<1>0. NoneNew(chunk, chunk)
  BY DEF NoneNew
<1>1. CASE FreeRefused \/ FreeAlone \/ FreeAfter
  <2>1. pc = "free" /\ pc' \in {"idle", "merge"} /\ live' = live
    BY <1>1 DEF FreeRefused, FreeAlone, FreeAfter, Return
  <2>2. NoneNew(Drop(chunk, call.r), chunk')
    <3>0. NoneNew(Drop(chunk, call.r), Drop(chunk, call.r))
      BY DEF NoneNew
    <3>1. CASE FreeRefused
      BY <3>0, <3>1 DEF FreeRefused
    <3>2. ASSUME NEW sz PROVE NoneNew(Drop(chunk, call.r), Put(chunk, call.r, Header("FREE", sz)))
      BY DEF NoneNew, Put, Drop, Header
    <3>3. CASE FreeAlone
      BY <3>2, <3>3 DEF FreeAlone
    <3>4. CASE FreeAfter
      <4>1. PICK k, sz :
              LET freed == Put(chunk, call.r, Header("FREE", sz))
              IN chunk' = freed \/ chunk' = Drop(freed, fl[k])
        BY <3>4 DEF FreeAfter
      <4> QED
        BY <3>2, <4>1, NoneNewFacts
    <3> QED
      BY <1>1, <3>1, <3>3, <3>4
  <2> QED
    BY <2>1, <2>2 DEF NoOrphans, NoneNew, Drop, Valid, InTransit
<1>2. CASE MergeLink \/ MergeBorder \/ MergeBefore
  <2>1. pc = "merge" /\ pc' = "idle" /\ live' = live
    BY <1>2 DEF MergeLink, MergeBorder, MergeBefore, Return
  <2>2. NoneNew(chunk, chunk')
    <3>1. CASE MergeLink
      BY <1>0, <3>1, NoneNewFacts DEF MergeLink
    <3>2. CASE MergeBorder
      BY <1>0, <3>2, NoneNewFacts DEF MergeBorder
    <3>3. CASE MergeBefore
      <4>1. PICK k, sz :
              LET p == fl[k - 1]
                  joined == Drop(Put(chunk, p, Header("FREE", sz)), call.r)
              IN \/ chunk' = chunk \/ chunk' = joined \/ chunk' = Drop(joined, p)
                 \/ chunk' = Drop(Drop(joined, p), fl[k - 2])
        BY <3>3 DEF MergeBefore
      <4> QED
        BY <1>0, <4>1, NoneNewFacts
    <3> QED
      BY <1>2, <3>1, <3>2, <3>3
  <2> QED
    BY <2>1, <2>2 DEF NoOrphans, NoneNew, Valid, InTransit
<1> QED
  BY <1>1, <1>2

\* Every block __malloc handed out is held by the program or the running
\* call until it is freed: a failing realloc or memalign drops none.
THEOREM NothingOrphaned == Spec => []NoOrphans
<1>1. Init => NoOrphans
  BY DEF Init, NoOrphans, Valid
<1>2. HeapSound /\ NoOrphans /\ [Next]_vars => NoOrphans'
  BY CallsHold, CarvesHold, FreesHold DEF Next
<1> QED
  BY <1>1, <1>2, HeapIsSound, PTL DEF Spec

-----------------------------------------------------------------------------
(* No byte gets lost.                                                      *)

\* HeapAlloc hands out its memory in units of 8 bytes and __sbrk links only what
\* was asked for: what __malloc asks of the own heap is a whole number of units.
HunkWhole == pc = "sbrk" /\ heapbase # NULL => call.sz % 8 = 0

\* Rounded to a multiple of 8, a size is one.
LEMMA RoundUpWhole ==
  ASSUME NEW x \in Nat, NEW k \in Nat \ {0}, k % 8 = 0
  PROVE  RoundUp(x, k) % 8 = 0
<1>1. PICK j \in Nat : k = 8 * j
  <2>1. k \div 8 \in Nat /\ k = 8 * (k \div 8)
    OBVIOUS
  <2> QED
    BY <2>1
<1>2. PICK m \in Nat : m = (x + k - 1) \div k
  <2>1. x + k - 1 \in Nat
    OBVIOUS
  <2> QED
    BY <2>1
<1>3. m * (8 * j) = 8 * (m * j) /\ m * j \in Nat
  OBVIOUS
<1>4. \A z \in Nat : (8 * z) % 8 = 0
  OBVIOUS
<1>5. RoundUp(x, k) = 8 * (m * j)
  BY <1>1, <1>2, <1>3 DEF RoundUp
<1> QED
  BY <1>3, <1>4, <1>5

\* What __malloc asks for is a whole number of units in every step.
LEMMA HunkSound ==
  ASSUME HeapSound, HunkWhole, [Next]_vars
  PROVE  HunkWhole'
<1>1. CASE SearchFailed
  <2> DEFINE n     == ChunkSize(call.n)
             exact == OwnHeap \/ n + BORDER_EXTRA > minhunk
             sz    == IF ~exact THEN minhunk
                      ELSE IF heapbase = NULL THEN n + BORDER_EXTRA ELSE n
             hunk  == IF split_mem \/ heapbase = NULL THEN RoundUp(sz, PageSize) ELSE sz
  <2>1. call \in Calls /\ call.n \in Nat /\ minhunk \in Nat
    BY DEF HeapSound, TypeOK, Calls
  <2>2. n \in Nat /\ n % 8 = 0
    <3>1. call.n + HDR \in Nat /\ 8 \in Nat \ {0} /\ 8 % 8 = 0
      BY <2>1 DEF HDR
    <3>2. RoundUp(call.n + HDR, 8) % 8 = 0
      BY <3>1, RoundUpWhole
    <3> QED
      BY <2>1, <3>2, ChunkSizeBounds DEF ChunkSize, MALLOC_ALIGNMENT
  <2>3. call' = [call EXCEPT !.sz = hunk] /\ heapbase' = heapbase
    BY <1>1 DEF SearchFailed, heap
  <2> HIDE DEF n
  <2>4. sz \in Nat
    BY <2>1, <2>2 DEF BORDER_EXTRA
  <2>5. ASSUME heapbase # NULL PROVE hunk % 8 = 0
    <3>1. CASE split_mem
      <4> HIDE DEF sz
      <4>1. RoundUp(sz, PageSize) % 8 = 0
        BY <2>4, RoundUpWhole, SizeAssumption, PageAssumption
      <4> QED
        BY <3>1, <4>1
    <3>2. CASE ~split_mem
      <4>1. exact
        BY <2>5, <3>2 DEF OwnHeap
      <4>2. hunk = n
        BY <2>5, <3>2, <4>1
      <4> QED
        BY <2>2, <4>2
    <3> QED
      BY <3>1, <3>2
  <2> HIDE DEF hunk
  <2>6. call'.sz = hunk
    BY <2>1, <2>3 DEF Calls
  <2> QED
    BY <2>3, <2>5, <2>6 DEF HunkWhole
<1>2. CASE SbrkSwitch \/ (\E siz \in ChunkSizes : MallocChunkSize(siz)) \/ UNCHANGED vars
  BY <1>2 DEF SbrkSwitch, MallocChunkSize, vars, heap, HunkWhole
<1>3. CASE \/ \E n \in Requests : CallMalloc(n)
           \/ \E n \in Requests, al \in Alignments : CallMemalign(al, n)
           \/ \E u \in DOMAIN live : CallFree(u)
           \/ \E u \in Resizable, n \in Requests :
                CallShrink(u, n) \/ CallKeep(u, n) \/ CallExtend(u, n) \/ CallGrow(u, n)
  BY <1>3 DEF CallMalloc, CallMemalign, CallFree, CallShrink, CallKeep, CallExtend, CallGrow,
     EnterMalloc, EnterFree, HunkWhole
<1>4. CASE \/ SearchFound \/ SbrkOs \/ SbrkHeap \/ SbrkFailed
           \/ AlignKept \/ AlignMoved \/ ReallocCopy
           \/ FreeRefused \/ FreeAlone \/ FreeAfter
           \/ MergeLink \/ MergeBorder \/ MergeBefore
  BY <1>4 DEF SearchFound, SbrkOs, SbrkHeap, SbrkFailed, AlignKept, AlignMoved, ReallocCopy,
     FreeRefused, FreeAlone, FreeAfter, MergeLink, MergeBorder, MergeBefore, Return, EnterFree,
     HunkWhole
<1>5. CASE CarveSplit \/ CarveWhole
  <2>1. \E q : AfterCarve(q)
    BY <1>5 DEF CarveSplit, CarveWhole
  <2>2. pc' \in {"idle", "align", "copy"}
    BY <2>1 DEF AfterCarve, Return
  <2> QED
    BY <2>2 DEF HunkWhole
<1> QED
  BY <1>1, <1>2, <1>3, <1>4, <1>5 DEF Next

\* No step loses a byte, or hands one out twice.
LEMMA StepKeeps ==
  ASSUME HeapSound, HunkWhole, Kept, [Next]_vars
  PROVE  Kept'
<1>1. CASE \/ \E n \in Requests : CallMalloc(n)
           \/ \E n \in Requests, al \in Alignments : CallMemalign(al, n)
           \/ \E u \in DOMAIN live : CallFree(u)
           \/ \E u \in Resizable, n \in Requests :
                CallShrink(u, n) \/ CallKeep(u, n) \/ CallGrow(u, n)
           \/ \E siz \in ChunkSizes : MallocChunkSize(siz)
           \/ SearchFound \/ SearchFailed \/ SbrkSwitch
           \/ SbrkFailed \/ AlignKept \/ ReallocCopy \/ UNCHANGED vars
  <2>1. UNCHANGED <<chunk, region, heapbase, lost>>
    BY <1>1 DEF CallMalloc, CallMemalign, CallFree, CallShrink, CallKeep, CallGrow,
       MallocChunkSize, SearchFound, SearchFailed, SbrkSwitch, SbrkFailed, AlignKept,
       ReallocCopy, vars, heap
  <2>2. \A a \in DOMAIN chunk : Extent(a)' = Extent(a)
    BY <2>1 DEF Extent
  <2> QED
    BY <2>1, <2>2, CoveredSame, KeptSame
<1>2. CASE SbrkHeap
  <2>1. call.sz % 8 = 0
    BY <1>2 DEF SbrkHeap, OwnHeap, HunkWhole
  <2> QED
    BY <1>2, <2>1, SbrkHeapSound
<1>3. CASE SbrkOs \/ CarveSplit \/ CarveWhole \/ AlignMoved
  BY <1>3, SbrkOsSound, CarveSplitSound, CarveWholeSound, AlignMovedSound
<1>4. CASE \E u \in Resizable, n \in Requests : CallExtend(u, n)
  BY <1>4, CallExtendSound
<1>5. CASE FreeRefused \/ FreeAlone \/ FreeAfter
  BY <1>5, FreeRefusedSound, FreeAloneSound, FreeAfterSound
<1>6. CASE MergeLink \/ MergeBorder \/ MergeBefore
  BY <1>6, MergeLinkSound, MergeBorderSound, MergeBeforeSound
<1> QED
  BY <1>1, <1>2, <1>3, <1>4, <1>5, <1>6 DEF Next

\* Every byte the system or the own heap gave and did not get back is either in
\* a chunk or one memalign is known to leak; no chunk holds any other byte. With
\* NoOverlap: in one chunk only.
THEOREM NothingLost == Spec => []Conservation
<1>1. Init => HunkWhole /\ Kept
  <2> SUFFICES ASSUME Init PROVE HunkWhole /\ Kept
    OBVIOUS
  <2>1. /\ pc = "idle" /\ lost = {} /\ DOMAIN chunk = {} /\ DOMAIN region = {}
        /\ heapbase \in {NULL, HeapStart}
    BY DEF Init
  <2>2. HeapStart \in Nat
    BY AddressAssumption
  <2>3. \A x \in Nat : ~Owned(x) /\ ~Covered(x)
    BY <2>1, <2>2 DEF Owned, Covered
  <2> QED
    BY <2>1, <2>3 DEF HunkWhole, Kept
<1>2. HeapSound /\ HunkWhole /\ Kept /\ [Next]_vars => HunkWhole' /\ Kept'
  BY HunkSound, StepKeeps
<1>3. HeapSound /\ Kept => Conservation
  BY ConservationIsKept
<1> QED
  BY <1>1, <1>2, <1>3, HeapIsSound, PTL DEF Spec

=============================================================================
