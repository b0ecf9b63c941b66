-------------------------- MODULE StreamRefinement --------------------------
(***************************************************************************)
(* Stream implements ByteFile: to a Careful program a stream is a file     *)
(* with one position, whatever the buffer, its size and the mode, and      *)
(* whatever it calls, for every stream that is Modest: no stream that      *)
(* reads is line buffered and none that appends is without a buffer.       *)
(*                                                                         *)
(* Outcome is the file once the stream is flushed, PlaceOf the position,   *)
(* Back what was pushed back: View, Place and pushed of the refinement     *)
(* mapping, for any stream.  What is needed besides Sound is in Honest:    *)
(* the buffer holds what the file has at the target, and the kernel's      *)
(* position is the stream's where there is no buffer.  As in StreamProofs  *)
(* there is a lemma for each operator, bottom up; those named Step show    *)
(* that a call keeps RefInv and is a step of ByteFile.                     *)
(***************************************************************************)
EXTENDS StreamProofs

-----------------------------------------------------------------------------
(* What a write makes of a file.                                           *)

LEMMA FileofIs ==
  ASSUME NEW x \in Seq(Byte), NEW at \in Nat, at <= Len(x), NEW d \in Seq(Byte),
         NEW y, y = Fileof(x, at, d)
  PROVE  /\ y \in Seq(Byte) /\ Len(y) = Most(Len(x), at + Len(d)) /\ Len(y) \in Nat
         /\ Len(x) <= Len(y) /\ at + Len(d) <= Len(y)
         /\ \A i \in 1 .. Len(y) :
              y[i] = IF at < i /\ i <= at + Len(d) THEN d[i - at] ELSE x[i]
         /\ \A i \in 1 .. Len(y) : i <= Len(x) \/ i <= at + Len(d)
<1> DEFINE n == Most(Len(x), at + Len(d))
<1>1. Len(x) \in Nat /\ Len(d) \in Nat /\ at + Len(d) \in Nat
  OBVIOUS
<1>2. n \in Nat /\ Len(x) <= n /\ at + Len(d) <= n /\ n \in {Len(x), at + Len(d)}
  BY <1>1 DEF Most
<1>3. y \in Seq(Byte) /\ Len(y) = n
  <2>1. CASE d = <<>>
    <3>1. y = x /\ Len(d) = 0
      BY <2>1, FileofTyped
    <3> QED
      BY <1>1, <3>1 DEF Most
  <2>2. CASE d # <<>>
    BY <2>2, FileofTyped
  <2> QED
    BY <2>1, <2>2
<1>4. ASSUME NEW i \in 1 .. n
      PROVE  y[i] = IF at < i /\ i <= at + Len(d) THEN d[i - at] ELSE x[i]
  <2>1. CASE d = <<>>
    <3>1. y = x /\ Len(d) = 0
      BY <2>1, FileofTyped
    <3>2. ~(at < i /\ i <= at + Len(d))
      BY <1>2, <3>1
    <3> QED
      BY <3>1, <3>2
  <2>2. CASE d # <<>>
    <3>1. y[i] = IF i > at /\ i <= at + Len(d) THEN d[i - at]
                 ELSE IF i <= Len(x) THEN x[i] ELSE Zero
      BY <2>2 DEF Fileof
    <3>2. (i > at /\ i <= at + Len(d)) \/ i <= Len(x)
      BY <1>1, <1>2
    <3>3. i > at <=> at < i
      BY <1>2
    <3> HIDE DEF n
    <3> QED
      BY <3>1, <3>2, <3>3
  <2> QED
    BY <2>1, <2>2
<1>5. \A i \in 1 .. n : i <= Len(x) \/ i <= at + Len(d)
  BY <1>2
<1> HIDE DEF n
<1> QED
  BY <1>2, <1>3, <1>4, <1>5 DEF n

LEMMA SameBytes ==
  ASSUME NEW x \in Seq(Byte), NEW y \in Seq(Byte), Len(x) = Len(y),
         \A i \in 1 .. Len(x) : x[i] = y[i]
  PROVE  x = y
  OBVIOUS

\* y is x after a part of what makes it goal was written, none of it after q.
Part(y, x, goal, q) ==
  /\ Len(x) <= Len(y)
  /\ \A i \in 1 .. Len(y) : \/ i <= Len(x) /\ y[i] = x[i]
                            \/ i <= q /\ i <= Len(goal) /\ y[i] = goal[i]

LEMMA PartSame ==
  ASSUME NEW x \in Seq(Byte), NEW goal, NEW q
  PROVE  Part(x, x, goal, q)
<1>1. Len(x) \in Nat
  OBVIOUS
<1> QED
  BY <1>1 DEF Part

LEMMA PartChain ==
  ASSUME NEW x \in Seq(Byte), NEW y \in Seq(Byte), NEW z \in Seq(Byte),
         NEW h \in Seq(Byte), NEW k \in Seq(Byte), NEW q \in Nat, NEW r \in Nat,
         Part(y, x, h, q), Part(z, y, k, r), q <= r, Len(h) <= Len(k),
         \A i \in 1 .. Len(h) : i <= q => k[i] = h[i]
  PROVE  Part(z, x, k, r)
<1>1. Len(x) \in Nat /\ Len(y) \in Nat /\ Len(z) \in Nat /\ Len(h) \in Nat /\ Len(k) \in Nat
  OBVIOUS
<1>2. Len(x) <= Len(z)
  BY <1>1 DEF Part
<1>3. ASSUME NEW i \in 1 .. Len(z)
      PROVE  (i <= Len(x) /\ z[i] = x[i]) \/ (i <= r /\ i <= Len(k) /\ z[i] = k[i])
  <2>1. CASE i <= r /\ i <= Len(k) /\ z[i] = k[i]
    BY <2>1
  <2>2. CASE i <= Len(y) /\ z[i] = y[i]
    <3>1. i \in 1 .. Len(y)
      BY <1>1, <2>2
    <3>2. CASE i <= Len(x) /\ y[i] = x[i]
      BY <2>2, <3>2
    <3>3. CASE i <= q /\ i <= Len(h) /\ y[i] = h[i]
      <4>1. i \in 1 .. Len(h) /\ i <= r /\ i <= Len(k)
        BY <1>1, <3>3
      <4> QED
        BY <2>2, <3>3, <4>1
    <3> QED
      BY <3>1, <3>2, <3>3 DEF Part
  <2> QED
    BY <2>1, <2>2 DEF Part
<1> QED
  BY <1>2, <1>3 DEF Part

LEMMA PartWritten ==
  ASSUME NEW x \in Seq(Byte), NEW at \in Nat, at <= Len(x), NEW d \in Seq(Byte),
         NEW n \in 0 .. Len(d), NEW y, y = Fileof(x, at, SubSeq(d, 1, n)),
         NEW h, h = Fileof(x, at, d)
  PROVE  Part(y, x, h, at + Len(d)) /\ (n = Len(d) => y = h) /\ y \in Seq(Byte)
<1>1. SubSeq(d, 1, n) \in Seq(Byte) /\ Len(SubSeq(d, 1, n)) = n
      /\ \A j \in 1 .. n : SubSeq(d, 1, n)[j] = d[j]
  OBVIOUS
<1> DEFINE e == SubSeq(d, 1, n)
<1>2. /\ e \in Seq(Byte) /\ Len(e) = n /\ \A j \in 1 .. n : e[j] = d[j]
      /\ y = Fileof(x, at, e)
  BY <1>1
<1> HIDE DEF e
<1>3. /\ y \in Seq(Byte) /\ Len(y) = Most(Len(x), at + n) /\ Len(y) \in Nat
      /\ Len(x) <= Len(y)
      /\ \A i \in 1 .. Len(y) : y[i] = IF at < i /\ i <= at + n THEN e[i - at] ELSE x[i]
      /\ \A i \in 1 .. Len(y) : i <= Len(x) \/ i <= at + n
  <2>1. /\ y \in Seq(Byte) /\ Len(y) = Most(Len(x), at + Len(e)) /\ Len(y) \in Nat
        /\ Len(x) <= Len(y)
        /\ \A i \in 1 .. Len(y) : y[i] = IF at < i /\ i <= at + Len(e) THEN e[i - at] ELSE x[i]
        /\ \A i \in 1 .. Len(y) : i <= Len(x) \/ i <= at + Len(e)
    BY <1>2, FileofIs
  <2> QED
    BY <1>2, <2>1
<1>4. /\ h \in Seq(Byte) /\ Len(h) \in Nat /\ at + Len(d) <= Len(h)
      /\ Len(h) = Most(Len(x), at + Len(d))
      /\ \A i \in 1 .. Len(h) : h[i] = IF at < i /\ i <= at + Len(d) THEN d[i - at] ELSE x[i]
  BY FileofIs
<1>5. ASSUME NEW i \in 1 .. Len(y)
      PROVE  \/ i <= Len(x) /\ y[i] = x[i]
             \/ i <= at + Len(d) /\ i <= Len(h) /\ y[i] = h[i]
  <2>1. CASE at < i /\ i <= at + n
    <3>1. i - at \in 1 .. n /\ i <= at + Len(d) /\ i <= Len(h) /\ i \in 1 .. Len(h)
      BY <1>3, <1>4, <2>1
    <3>2. y[i] = e[i - at] /\ e[i - at] = d[i - at]
      BY <1>2, <1>3, <2>1, <3>1
    <3>3. h[i] = d[i - at]
      BY <1>4, <2>1, <3>1
    <3> QED
      BY <3>1, <3>2, <3>3
  <2>2. CASE ~(at < i /\ i <= at + n)
    <3>1. y[i] = x[i]
      BY <1>3, <2>2
    <3>2. i <= Len(x)
      BY <1>3, <2>2
    <3> QED
      BY <3>1, <3>2
  <2> QED
    BY <2>1, <2>2
<1>6. n = Len(d) => y = h
  <2>1. HAVE n = Len(d)
  <2>2. e = d
    BY <1>2, <2>1
  <2> QED
    BY <1>2, <2>2
<1> QED
  BY <1>3, <1>5, <1>6 DEF Part

\* What write() makes of the file.
LEMMA SysWriteIs ==
  ASSUME NEW f, Typed(f), NEW d \in Seq(Byte), At(f) <= Len(f.file),
         NEW w, w = SysWrite(f, d), NEW h, h = Fileof(f.file, At(f), d)
  PROVE  /\ Part(w.file, f.file, h, At(f) + Len(d)) /\ (w.ret = Len(d) => w.file = h)
         /\ w.file \in Seq(Byte)
<1> DEFINE at   == At(f)
           fits == Least(Len(d), Most(0, MaxFile - at))
           r    == IF fits = Len(d) THEN fits ELSE -1
<1>1. at \in Nat /\ f.file \in Seq(Byte) /\ Len(d) \in Nat /\ MaxFile \in Nat
  BY StreamAssumption DEF At, Typed
<1>2. fits \in 0 .. Len(d)
  BY <1>1 DEF Least, Most
<1>3. w.file = Fileof(f.file, at, SubSeq(d, 1, fits)) /\ w.ret = r
  <2>1. CASE fits = 0
    <3>1. w = [f EXCEPT !.ret = r]
      BY <2>1 DEF SysWrite, At
    <3>2. SubSeq(d, 1, fits) = <<>>
      BY <2>1
    <3> HIDE DEF fits, r
    <3> QED
      BY <3>1, <3>2 DEF Fileof, Typed
  <2>2. CASE fits # 0
    <3> DEFINE new == Fileof(f.file, at, SubSeq(d, 1, fits))
    <3>1. w = [f EXCEPT !.file = new, !.kpos = at + fits, !.ret = r]
      BY <2>2 DEF SysWrite, At
    <3> HIDE DEF new, r
    <3> QED
      BY <3>1 DEF Typed, new
  <2> QED
    BY <2>1, <2>2
<1>4. r = Len(d) => fits = Len(d)
  BY <1>1
<1> HIDE DEF fits, r, at
<1>5. at <= Len(f.file) /\ h = Fileof(f.file, at, d)
  BY DEF at
<1>6. Part(w.file, f.file, h, at + Len(d)) /\ (fits = Len(d) => w.file = h)
      /\ w.file \in Seq(Byte)
  BY <1>1, <1>2, <1>3, <1>5, PartWritten
<1> QED
  BY <1>3, <1>4, <1>6 DEF at

-----------------------------------------------------------------------------
(* What a stream stands for.                                               *)

\* Where output goes, and where the next character of it will.
OutAt(f) == IF f.mode.append THEN Len(f.file) ELSE Goal(f)
Spot(f) == OutAt(f) + f.bufp

\* An appending stream with room for output holds nothing it read.
Flat(f) == f.mode.append /\ (f.putl > 0 \/ f.active) => f.getl = 0

\* The modes a careful program uses: no line buffering where it reads, and a
\* buffer where it appends.
Modest(m) == (m.buffering = "line" => ~m.read) /\ (m.append => m.buffering # "none")

\* A stream that was only written up to b.
Faithful(f, b) == Match(f, b) /\ Bare(f) /\ Flat(f) /\ Modest(f.mode)

LEMMA SpotType ==
  ASSUME NEW f, Safe(f), f.mode.write, Bare(f), ~f.eof
  PROVE  /\ OutAt(f) \in Nat /\ OutAt(f) <= Len(f.file) /\ Spot(f) \in Nat
         /\ f.bufp \in 0 .. BufSize /\ Len(f.file) \in Nat /\ OutAt(f) <= Spot(f)
<1>1. /\ f.file \in Seq(Byte) /\ f.kpos \in Nat /\ f.target \in Nat \cup {-1}
      /\ f.offset \in Nat \cup {-1} /\ f.bufp \in 0 .. BufSize /\ BufSize \in Nat
  BY StreamAssumption DEF Safe, Shape, Typed
<1>2. Len(f.file) \in Nat
  BY <1>1
<1>3. Goal(f) \in Nat
  BY <1>1 DEF Goal
<1>4. ~f.mode.append => Goal(f) <= Len(f.file)
  <2>1. CASE Buffered(f)
    <3>1. /\ f.target # -1 => f.target + f.getl <= f.offset /\ f.offset <= f.kpos
          /\ f.kpos <= Len(f.file)
      BY <2>1 DEF Safe, Known
    <3>2. f.getl \in Nat
      BY <1>1 DEF Safe, Shape, Typed
    <3> QED
      BY <1>1, <1>2, <3>1, <3>2 DEF Goal
  <2>2. CASE ~Buffered(f)
    <3>1. CASE f.target = -1
      BY <2>2, <3>1 DEF Bare, Goal
    <3>2. CASE f.target # -1
      <4>1. f.target = f.offset /\ f.offset = f.kpos /\ f.kpos <= Len(f.file)
        BY <2>2, <3>2 DEF Bare
      <4> QED
        BY <3>2, <4>1 DEF Goal
    <3> QED
      BY <3>1, <3>2
  <2> QED
    BY <2>1, <2>2
<1> QED
  BY <1>1, <1>2, <1>3, <1>4 DEF OutAt, Spot

\* The first n bytes of the buffer.
LEMMA SliceIs ==
  ASSUME NEW f, Typed(f), NEW n \in 0 .. BufSize,
         \A i \in 0 .. BufSize - 1 : i < n => f.buf[i] \in Byte
  PROVE  /\ Slice(f, 0, n) \in Seq(Byte) /\ Len(Slice(f, 0, n)) = n
         /\ \A k \in 1 .. n : Slice(f, 0, n)[k] = f.buf[k - 1]
<1>1. n \in Nat /\ n - 0 = n /\ BufSize \in Nat
  BY StreamAssumption
<1>2. \A k \in 1 .. n : 0 + k - 1 = k - 1
  BY <1>1
<1>3. Slice(f, 0, n) = [k \in 1 .. n |-> f.buf[k - 1]]
  BY <1>1, <1>2 DEF Slice
<1> QED
  BY <1>3, SliceTyped

\* Output the stream holds, laid over the file.
LEMMA OutcomeIs ==
  ASSUME NEW f, Writes(f), Bare(f), Roomy(f) \/ f.bufp = 0,
         NEW d, d = Slice(f, 0, f.bufp)
  PROVE  /\ d \in Seq(Byte) /\ Len(d) = f.bufp
         /\ \A k \in 1 .. f.bufp : d[k] = f.buf[k - 1]
         /\ Outcome(f) = Fileof(f.file, OutAt(f), d)
<1>1. Typed(f) /\ f.bufp \in 0 .. BufSize /\ f.file \in Seq(Byte)
      /\ f.mode.write /\ ~f.pushed /\ ~f.error
  BY DEF Writes, Safe, Shape, Typed
<1>2. \A i \in 0 .. BufSize - 1 : i < f.bufp => f.buf[i] \in Byte
  BY DEF Writes, Safe, Clean
<1>3. /\ d \in Seq(Byte) /\ Len(d) = f.bufp
      /\ \A k \in 1 .. f.bufp : d[k] = f.buf[k - 1]
  BY <1>1, <1>2, SliceIs
<1>4. Outcome(f) = IF ~(f.putl > 0 \/ f.active) THEN f.file
                   ELSE Fileof(f.file, OutAt(f), d)
  BY <1>1 DEF Outcome, OutAt
<1>5. CASE f.bufp = 0
  <2>1. d = <<>>
    BY <1>3, <1>5
  <2>2. Fileof(f.file, OutAt(f), d) = f.file
    BY <2>1 DEF Fileof
  <2> QED
    BY <1>3, <1>4, <2>2
<1>6. CASE f.bufp # 0
  <2>1. f.putl > 0 \/ f.active
    <3>1. Buffered(f)
      BY <1>6 DEF Writes, Safe, Shape
    <3> QED
      BY <1>6, <3>1 DEF Roomy
  <2> QED
    BY <1>3, <1>4, <2>1
<1> QED
  BY <1>5, <1>6

\* What a flush writes makes the same of the file, whether or not it takes what
\* was read after it along.
LEMMA ToWriteIs ==
  ASSUME NEW f, Writes(f), Roomy(f), Faithful(f, f.bufp), f.bufp > 0, f.putl > 0,
         NEW n, n = ToWrite(f), NEW d, d = Slice(f, 0, n)
  PROVE  /\ n \in 1 .. BufSize /\ d \in Seq(Byte) /\ Len(d) = n
         /\ Fileof(f.file, OutAt(f), d) = Outcome(f)
         /\ \A y : Part(y, f.file, Outcome(f), OutAt(f) + n) /\ y \in Seq(Byte)
                   => Part(y, f.file, Outcome(f), Spot(f))
<1>1. /\ Typed(f) /\ f.bufp \in 1 .. BufSize /\ f.file \in Seq(Byte) /\ Safe(f)
      /\ Buffered(f) /\ f.getl \in 0 .. BufSize /\ BufSize \in Nat /\ Len(f.file) \in Nat
      /\ Bare(f) /\ f.target \in Nat \cup {-1} /\ f.mode.write /\ ~f.eof
  BY StreamAssumption DEF Writes, Safe, Shape, Typed, Faithful
<1>2. n \in 1 .. BufSize /\ f.bufp <= n /\ n \in {f.bufp, f.getl}
  BY <1>1, ToWriteDoes
<1>3. \A i \in 0 .. BufSize - 1 : i < n => f.buf[i] \in Byte
  BY <1>1, <1>2 DEF Safe, Clean
<1>4. /\ d \in Seq(Byte) /\ Len(d) = n
      /\ \A k \in 1 .. n : d[k] = f.buf[k - 1]
  <2>1. n \in 0 .. BufSize /\ d = Slice(f, 0, n)
    BY <1>2
  <2> QED
    BY ONLY <1>1, <1>3, <2>1, SliceIs
<1> DEFINE e  == Slice(f, 0, f.bufp)
           at == OutAt(f)
<1>15. PICK g : g = Fileof(f.file, at, d)
  OBVIOUS
<1>16. PICK h : h = Fileof(f.file, at, e)
  OBVIOUS
<1>5. /\ e \in Seq(Byte) /\ Len(e) = f.bufp
      /\ \A k \in 1 .. f.bufp : e[k] = f.buf[k - 1]
      /\ Outcome(f) = h
  BY <1>1, <1>16, OutcomeIs
<1>6. at \in Nat /\ at <= Len(f.file)
  BY <1>1, SpotType
<1>7. Spot(f) = at + f.bufp
  BY DEF Spot
<1> HIDE DEF at, e
<1>8. /\ g \in Seq(Byte) /\ Len(g) = Most(Len(f.file), at + n) /\ Len(g) \in Nat
      /\ \A i \in 1 .. Len(g) : g[i] = IF at < i /\ i <= at + n THEN d[i - at] ELSE f.file[i]
  <2>1. /\ g \in Seq(Byte) /\ Len(g) = Most(Len(f.file), at + Len(d)) /\ Len(g) \in Nat
        /\ \A i \in 1 .. Len(g) :
             g[i] = IF at < i /\ i <= at + Len(d) THEN d[i - at] ELSE f.file[i]
    <3>1. f.file \in Seq(Byte) /\ d \in Seq(Byte)
      BY <1>1, <1>4
    <3> QED
      BY ONLY <3>1, <1>6, <1>15, FileofIs
  <2> QED
    BY <1>4, <2>1
<1>9. /\ h \in Seq(Byte) /\ Len(h) = Most(Len(f.file), at + f.bufp) /\ Len(h) \in Nat
      /\ \A i \in 1 .. Len(h) :
           h[i] = IF at < i /\ i <= at + f.bufp THEN e[i - at] ELSE f.file[i]
  <2>1. /\ h \in Seq(Byte) /\ Len(h) = Most(Len(f.file), at + Len(e)) /\ Len(h) \in Nat
        /\ \A i \in 1 .. Len(h) :
             h[i] = IF at < i /\ i <= at + Len(e) THEN e[i - at] ELSE f.file[i]
    BY <1>1, <1>5, <1>6, <1>16, FileofIs, ZenonT(60)
  <2> QED
    BY <1>5, <2>1
<1>10. \A i \in Nat : at + f.bufp < i /\ i <= at + n =>
         i <= Len(f.file) /\ d[i - at] = f.file[i]
  <2> SUFFICES ASSUME NEW i \in Nat, at + f.bufp < i, i <= at + n
               PROVE  i <= Len(f.file) /\ d[i - at] = f.file[i]
    OBVIOUS
  <2>1. n = f.getl /\ f.bufp < f.getl
    BY <1>1, <1>2, <1>6
  <2>2. ~f.mode.append
    BY <1>1, <2>1 DEF Faithful, Flat
  <2> DEFINE j == i - at - 1
  <2>3. j \in 0 .. BufSize - 1 /\ f.bufp <= j /\ j < f.getl /\ i - at \in 1 .. n
        /\ j = (i - at) - 1
    BY <1>1, <1>2, <1>6, <2>1
  <2>4. f.target \in Nat /\ f.target + j < Len(f.file) /\ f.buf[j] = f.file[f.target + j + 1]
    BY <2>3 DEF Faithful, Match
  <2>5. at = f.target
    BY <2>2, <2>4 DEF at, OutAt, Goal
  <2>6. f.target + j + 1 = i
    BY <1>6, <2>3, <2>5
  <2>7. d[i - at] = f.buf[j]
    BY <1>4, <2>3
  <2> HIDE DEF j
  <2>8. j \in Nat /\ f.target \in Nat
    BY <2>3, <2>4
  <2> QED
    BY <1>1, <2>4, <2>6, <2>7, <2>8
<1>11. Len(g) = Len(h)
  <2>1. CASE n = f.bufp
    BY <1>8, <1>9, <2>1
  <2>2. CASE n # f.bufp
    <3>1. at + n \in Nat /\ at + f.bufp < at + n
      BY <1>1, <1>2, <1>6, <2>2
    <3>2. at + n <= Len(f.file) /\ at + f.bufp <= Len(f.file)
      BY <1>1, <1>6, <1>10, <3>1
    <3>3. at + f.bufp \in Int /\ at + n \in Int
      BY <1>1, <1>6, <3>1
    <3> QED
      BY <1>1, <1>8, <1>9, <3>2, <3>3 DEF Most
  <2> QED
    BY <2>1, <2>2
<1>12. ASSUME NEW i \in 1 .. Len(g) PROVE g[i] = h[i]
  <2>1. CASE at < i /\ i <= at + f.bufp
    <3>1. i - at \in 1 .. f.bufp /\ i - at \in 1 .. n /\ i <= at + n
      BY <1>1, <1>2, <1>6, <2>1
    <3>2. d[i - at] = e[i - at]
      BY <1>4, <1>5, <3>1
    <3> QED
      BY <1>8, <1>9, <1>11, <2>1, <3>1, <3>2
  <2>2. CASE at + f.bufp < i /\ i <= at + n
    <3>1. d[i - at] = f.file[i] /\ at < i /\ ~(i <= at + f.bufp)
      BY <1>1, <1>6, <1>10, <2>2
    <3> QED
      BY <1>8, <1>9, <1>11, <2>2, <3>1
  <2>3. CASE i <= at \/ at + n < i
    <3>1. ~(at < i /\ i <= at + n) /\ ~(at < i /\ i <= at + f.bufp)
      BY <1>1, <1>2, <1>6, <2>3
    <3> QED
      BY <1>8, <1>9, <1>11, <3>1
  <2> QED
    BY <1>1, <1>2, <1>6, <2>1, <2>2, <2>3
<1>13. g = h
  BY <1>8, <1>9, <1>11, <1>12, SameBytes
<1>14. ASSUME NEW y \in Seq(Byte), Part(y, f.file, h, at + n)
       PROVE  Part(y, f.file, h, at + f.bufp)
  <2> SUFFICES ASSUME NEW i \in 1 .. Len(y), i <= at + n, i <= Len(h), y[i] = h[i],
                      ~(i <= at + f.bufp)
               PROVE  i <= Len(f.file) /\ y[i] = f.file[i]
    BY <1>14 DEF Part
  <2>1. i \in Nat /\ at + f.bufp < i /\ i \in 1 .. Len(h)
    BY <1>1, <1>6, <1>9
  <2>2. i <= Len(f.file)
    BY <1>10, <2>1
  <2>3. h[i] = f.file[i]
    BY <1>9, <2>1
  <2> QED
    BY <2>2, <2>3
<1> QED
  BY <1>2, <1>4, <1>5, <1>7, <1>13, <1>14, <1>15 DEF at

-----------------------------------------------------------------------------
(* What a flush makes of the file.                                         *)

\* The part of the buffer that is written goes where output goes.
LEMMA WriteDataIs ==
  ASSUME NEW f, Writes(f), Roomy(f), Faithful(f, f.bufp), f.putl > 0, f.bufp > 0,
         NEW w, w = WriteData(f, Slice(f, 0, ToWrite(f)))
  PROVE  /\ Part(w.file, f.file, Outcome(f), Spot(f))
         /\ ~w.error => w.file = Outcome(f)
<1> DEFINE n == ToWrite(f)
           d == Slice(f, 0, n)
           p == IF f.mode.append THEN f ELSE SeekToTarget(f)
           r == SysWrite(p, d)
<1>0. Typed(f) /\ Safe(f) /\ Bare(f) /\ f.mode.write /\ ~f.eof
  BY DEF Writes, Safe, Shape, Faithful
<1>1. /\ n \in 1 .. BufSize /\ d \in Seq(Byte) /\ Len(d) = n
      /\ Fileof(f.file, OutAt(f), d) = Outcome(f)
      /\ \A y : Part(y, f.file, Outcome(f), OutAt(f) + n) /\ y \in Seq(Byte)
                => Part(y, f.file, Outcome(f), Spot(f))
  BY ToWriteIs
<1>2. OutAt(f) \in Nat /\ OutAt(f) <= Len(f.file)
  BY <1>0, SpotType
<1>3. d # <<>> /\ n \in Nat
  BY <1>1
<1>4. w = Wrote(r, n)
  <2>1. p.error = FALSE
    <3>1. CASE f.mode.append
      BY <1>0, <3>1 DEF Safe, Typed
    <3>2. CASE ~f.mode.append
      <4> DEFINE o == IF f.offset = -1 THEN f.kpos ELSE f.offset
                 t == IF f.target = -1 THEN o ELSE f.target
                 k == IF o = t THEN f.kpos ELSE t
      <4>1. p = [f EXCEPT !.offset = t, !.target = t, !.seen = TRUE, !.kpos = k]
        BY <1>0, <3>2, SeekToTargetDoes
      <4>2. f.error = FALSE
        BY <1>0 DEF Safe, Typed
      <4> HIDE DEF t, k, o, p
      <4> QED
        BY <1>0, <4>1, <4>2 DEF Typed
    <3> QED
      BY <3>1, <3>2
  <2>2. w = IF p.error THEN [p EXCEPT !.bufp = 0] ELSE Wrote(r, n)
    BY <1>1, <1>3 DEF WriteData
  <2> QED
    BY <2>1, <2>2
<1> HIDE DEF n, d
<1>5. Typed(p) /\ p.file = f.file /\ At(p) = OutAt(f)
  <2>1. CASE f.mode.append
    BY <1>0, <2>1 DEF At, OutAt
  <2>2. CASE ~f.mode.append
    <3> DEFINE o == IF f.offset = -1 THEN f.kpos ELSE f.offset
               t == IF f.target = -1 THEN o ELSE f.target
               k == IF o = t THEN f.kpos ELSE t
    <3>1. /\ p = [f EXCEPT !.offset = t, !.target = t, !.seen = TRUE, !.kpos = k]
          /\ t \in Nat /\ k \in Nat /\ Typed(p)
      BY <1>0, <2>2, SeekToTargetDoes
    <3>2. Buffered(f)
      BY <1>0 DEF Safe, Shape
    <3>3. t = Goal(f) /\ k = t
      BY <1>0, <2>2, <3>2 DEF Goal, Safe, Known, Typed
    <3> HIDE DEF t, k, o, p
    <3>4. p.file = f.file /\ p.kpos = k /\ p.mode = f.mode
      BY <1>0, <3>1 DEF Typed
    <3> QED
      BY <2>2, <3>1, <3>3, <3>4 DEF At, OutAt
  <2> QED
    BY <2>1, <2>2
<1> HIDE DEF p
<1>6. r.ret \in {-1, n} /\ Typed(r)
  BY <1>1, <1>5, SysWriteDoes
<1>7. /\ Part(r.file, p.file, Outcome(f), At(p) + Len(d))
      /\ (r.ret = Len(d) => r.file = Outcome(f)) /\ r.file \in Seq(Byte)
  BY <1>1, <1>2, <1>5, SysWriteIs
<1> HIDE DEF r
<1>8. w.file = r.file /\ (~w.error => r.ret = n)
  <2>1. w.file = r.file /\ w.error = (r.ret < n)
    BY <1>4, <1>6 DEF Wrote, Typed
  <2>2. ~(r.ret < n) => r.ret = n
    BY <1>3, <1>6
  <2> QED
    BY <2>1, <2>2
<1> QED
  BY <1>1, <1>5, <1>7, <1>8

\* A flush with room in the buffer writes what it holds.
LEMMA WriteOutIs ==
  ASSUME NEW f, Writes(f), Roomy(f), Faithful(f, f.bufp), f.putl > 0,
         NEW tw \in BOOLEAN, ~tw, NEW g, g = WriteOut(f, EOF, tw)
  PROVE  /\ Part(g.file, f.file, Outcome(f), Spot(f))
         /\ ~g.error => g.file = Outcome(f)
<1> DEFINE w == WriteData(f, Slice(f, 0, ToWrite(f)))
<1>0. Typed(f) /\ Safe(f) /\ f.bufp \in 0 .. BufSize /\ Buffered(f) /\ f.file \in Seq(Byte)
  BY DEF Writes, Safe, Shape, Typed
<1>1. g = Settled(w, tw, f.bufp)
  BY DEF WriteOut, WriteChar
<1>2. /\ Typed(w) /\ Part(w.file, f.file, Outcome(f), Spot(f))
      /\ ~w.error => w.file = Outcome(f)
  <2>1. CASE f.bufp = 0
    <3>1. w = f
      BY <1>0, <2>1, WriteDataNone
    <3>2. Outcome(f) = f.file
      <4>1. ~f.pushed
        BY DEF Writes
      <4> QED
        BY <1>0, <2>1, <4>1, OutcomeLength
    <3> HIDE DEF w
    <3> QED
      BY <1>0, <3>1, <3>2, PartSame
  <2>2. CASE f.bufp # 0
    <3>1. f.bufp > 0 /\ f.mode.write /\ ~f.pushed
      BY <1>0, <2>2 DEF Writes
    <3>2. Typed(w)
      BY <1>0, <3>1, WriteDataDoes
    <3> QED
      BY <3>1, <3>2, WriteDataIs
  <2> HIDE DEF w
  <2> QED
    BY <2>1, <2>2
<1> HIDE DEF w
<1>3. IsSettled(g, w, tw, f.bufp)
  BY <1>0, <1>1, <1>2, SettledDoes
<1>4. g.file = w.file /\ g.error = w.error
  BY <1>2, <1>3, SettledFrame
<1> QED
  BY <1>2, <1>4

\* Input that was not changed is what the file has.
LEMMA OutcomeSame ==
  ASSUME NEW f, Safe(f), Even(f), Match(f, 0), f.pushed => f.pushbufp <= f.getl
  PROVE  Outcome(f) = f.file
<1> DEFINE n == IF f.pushed THEN f.pushbufp ELSE f.bufp
<1>1. /\ Typed(f) /\ n \in 0 .. BufSize /\ f.file \in Seq(Byte) /\ Len(f.file) \in Nat
      /\ BufSize \in Nat /\ f.getl \in 0 .. BufSize
  BY StreamAssumption DEF Safe, Shape, Typed
<1>2. CASE n = 0 \/ ~f.mode.write \/ (Buffered(f) /\ ~Roomy(f))
  BY <1>2, OutcomeLength
<1>3. CASE n # 0 /\ f.mode.write /\ (Buffered(f) => Roomy(f))
  <2>1. Buffered(f)
    BY <1>3 DEF Safe, Shape
  <2>2. ~f.mode.append /\ n <= f.getl /\ f.target \in Nat /\ (f.putl > 0 \/ f.active)
    <3>1. f.putl > 0 \/ f.active
      BY <1>3, <2>1 DEF Roomy
    <3>2. f.bufp <= f.getl /\ (f.mode.append => f.bufp = 0 /\ f.getl = 0)
      BY <2>1, <3>1 DEF Even
    <3>3. n <= f.getl
      BY <3>2
    <3>4. 0 \in 0 .. BufSize - 1 /\ f.getl > 0
      BY <1>1, <1>3, <3>3
    <3>5. f.target \in Nat
      BY <3>4 DEF Match
    <3> HIDE DEF n
    <3> QED
      BY <3>1, <3>2, <3>3, <3>4, <3>5
  <2>3. Goal(f) = f.target
    BY <2>2 DEF Goal
  <2> DEFINE d == Slice(f, 0, n)
  <2>4. Outcome(f) = Fileof(f.file, f.target, d)
    BY <1>3, <2>2, <2>3 DEF Outcome, Safe
  <2> HIDE DEF n
  <2>5. \A i \in 0 .. BufSize - 1 : i < n => /\ f.target + i < Len(f.file)
                                            /\ f.buf[i] = f.file[f.target + i + 1]
    BY <1>1, <2>2 DEF Match
  <2>6. \A i \in 0 .. BufSize - 1 : i < n => f.buf[i] \in Byte
    <3> SUFFICES ASSUME NEW i \in 0 .. BufSize - 1, i < n PROVE f.buf[i] \in Byte
      OBVIOUS
    <3>1. f.target + i < Len(f.file) /\ f.buf[i] = f.file[f.target + i + 1]
      BY <2>5
    <3>2. f.target + i + 1 \in 1 .. Len(f.file)
      BY <1>1, <2>2, <3>1
    <3> QED
      BY <1>1, <3>1, <3>2
  <2>7. d \in Seq(Byte) /\ Len(d) = n /\ \A k \in 1 .. n : d[k] = f.buf[k - 1]
    BY <1>1, <2>6, SliceIs
  <2>8. f.target + n <= Len(f.file) /\ f.target <= Len(f.file)
    <3>1. n - 1 \in 0 .. BufSize - 1 /\ n - 1 < n /\ n \in Nat
      BY <1>1, <1>3
    <3>2. f.target + (n - 1) < Len(f.file)
      BY <2>5, <3>1
    <3> QED
      BY <1>1, <2>2, <3>1, <3>2
  <2> HIDE DEF d
  <2>9. PICK y : y = Fileof(f.file, f.target, d)
    OBVIOUS
  <2>10. /\ y \in Seq(Byte) /\ Len(y) = Most(Len(f.file), f.target + Len(d))
         /\ \A i \in 1 .. Len(y) :
              y[i] = IF f.target < i /\ i <= f.target + Len(d) THEN d[i - f.target] ELSE f.file[i]
    <3>1. f.file \in Seq(Byte) /\ f.target \in Nat /\ f.target <= Len(f.file)
          /\ d \in Seq(Byte)
      BY <1>1, <2>2, <2>7, <2>8
    <3> QED
      BY ONLY <2>9, <3>1, FileofIs
  <2>11. Len(y) = Len(f.file)
    BY <1>1, <2>2, <2>7, <2>8, <2>10 DEF Most
  <2>12. ASSUME NEW i \in 1 .. Len(y) PROVE y[i] = f.file[i]
    <3>1. CASE f.target < i /\ i <= f.target + n
      <4>1. i - f.target \in 1 .. n /\ (i - f.target) - 1 \in 0 .. BufSize - 1
            /\ (i - f.target) - 1 < n /\ f.target + ((i - f.target) - 1) + 1 = i
        BY <1>1, <2>2, <2>11, <3>1, SMTT(30)
      <4>2. d[i - f.target] = f.buf[(i - f.target) - 1]
        BY <2>7, <4>1
      <4>3. f.buf[(i - f.target) - 1] = f.file[i]
        BY <2>5, <4>1
      <4> QED
        BY <2>7, <2>10, <3>1, <4>2, <4>3
    <3>2. CASE ~(f.target < i /\ i <= f.target + n)
      BY <2>7, <2>10, <3>2
    <3> QED
      BY <3>1, <3>2
  <2>13. y = f.file
    BY <1>1, <2>10, <2>11, <2>12, SameBytes
  <2> QED
    BY <2>4, <2>9, <2>13
<1>4. CASE n # 0 /\ f.mode.write /\ ~Buffered(f)
  BY <1>4 DEF Safe, Shape
<1> QED
  BY <1>2, <1>3, <1>4

LEMMA EvenFlat ==
  ASSUME NEW f, Shape(f), Even(f)
  PROVE  Flat(f)
BY DEF Shape, Even, Flat

\* What is hidden or shown of the room of a buffer is not in the file.
LEMMA HiddenIs ==
  ASSUME NEW f, NEW h, IsHidden(h, f), NEW b
  PROVE  /\ Match(f, b) => Match(h, b)
         /\ Bare(f) => Bare(h)
         /\ OutAt(h) = OutAt(f) /\ Spot(h) = Spot(f)
         /\ Slice(h, 0, f.bufp) = Slice(f, 0, f.bufp)
<1>1. /\ h.file = f.file /\ h.kpos = f.kpos /\ h.buf = f.buf /\ h.bufp = f.bufp
      /\ h.getl = f.getl /\ h.target = f.target /\ h.offset = f.offset
      /\ h.mode = f.mode /\ h.eof = f.eof
  BY DEF IsHidden
<1>2. Match(f, b) => Match(h, b)
  BY <1>1 DEF Match
<1>3. Bare(f) => Bare(h)
  BY <1>1 DEF Bare, Buffered
<1>4. OutAt(h) = OutAt(f) /\ Spot(h) = Spot(f)
  BY <1>1 DEF OutAt, Spot, Goal
<1>5. Slice(h, 0, f.bufp) = Slice(f, 0, f.bufp)
  BY <1>1 DEF Slice
<1> QED
  BY <1>2, <1>3, <1>4, <1>5

\* fflush of a stream that was writing.
LEMMA FlushWrites ==
  ASSUME NEW f, Writes(f), Roomy(f), Buffered(f), Faithful(f, f.bufp),
         NEW g, g = Flshfp(f, EOF)
  PROVE  /\ Part(g.file, f.file, Outcome(f), Spot(f))
         /\ ~g.error => g.file = Outcome(f)
<1> DEFINE u == [f EXCEPT !.seen = TRUE]
           h == [u EXCEPT !.putl = IF u.active THEN BufSize ELSE u.putl]
           x == Flushbuf(h, EOF)
<1>0. Safe(f) /\ Typed(f) /\ Shape(f) /\ f.error = FALSE /\ f.pushed = FALSE
      /\ BufSize \in Nat \ {0} /\ f.putl \in {0, BufSize} /\ f.mode.write
  BY StreamAssumption DEF Writes, Safe, Shape, Typed
<1>1. g = Flushed(x, 0)
  <2>1. Unpush(f) = f
    BY <1>0 DEF Unpush
  <2>2. g = FlushOrPut(u, EOF)
    BY <1>0, <2>1 DEF Flshfp
  <2> HIDE DEF u
  <2> QED
    BY <2>2 DEF FlushOrPut
<1>2. Alike(u, f)
  BY <1>0, SeenAlike
<1> HIDE DEF u
<1>3. Writes(u) /\ Shape(u)
  BY <1>0, <1>2, AlikeKeeps
<1>4. /\ IsHidden(h, u) /\ h.active = u.active
      /\ h.putl = IF u.active THEN BufSize ELSE u.putl
  BY <1>3, ShownDoes
<1> HIDE DEF h
<1>5. u.mode.write /\ (u.active => Linebuf(u)) /\ (~Buffered(u) => h.putl = 0)
  <2>1. u.mode.write /\ (u.active => Linebuf(u))
    BY <1>3 DEF Writes, Shape
  <2>2. Buffered(u)
    BY <1>2 DEF Alike, Buffered
  <2> QED
    BY <2>1, <2>2
<1>6. Writes(h)
  BY <1>3, <1>4, <1>5, HiddenKeeps
<1>7. IsHidden(h, f) /\ h.putl = BufSize /\ Roomy(h) /\ h.putl > 0
  <2>1. IsHidden(h, f) /\ u.putl = f.putl /\ u.active = f.active
    BY <1>2, <1>4 DEF Alike, IsHidden
  <2>2. f.putl > 0 \/ f.active
    BY DEF Roomy
  <2>3. h.putl = BufSize
    BY <1>0, <1>4, <2>1, <2>2
  <2> QED
    BY <1>0, <2>1, <2>3 DEF Roomy
<1>8. Match(h, f.bufp) /\ Bare(h) /\ Spot(h) = Spot(f) /\ OutAt(h) = OutAt(f)
      /\ Slice(h, 0, f.bufp) = Slice(f, 0, f.bufp)
  BY <1>7, HiddenIs DEF Faithful
<1>9. h.bufp = f.bufp /\ h.file = f.file /\ h.mode = f.mode /\ h.getl = f.getl
  BY <1>7 DEF IsHidden
<1>10. Faithful(h, h.bufp)
  <2>1. Flat(f) /\ Modest(f.mode)
    BY DEF Faithful
  <2>2. f.putl > 0 \/ f.active
    BY DEF Roomy
  <2> QED
    BY <1>8, <1>9, <2>1, <2>2 DEF Faithful, Flat
<1>11. Outcome(h) = Outcome(f)
  <2>1. Outcome(h) = Fileof(h.file, OutAt(h), Slice(h, 0, h.bufp))
    BY <1>6, <1>7, <1>8, OutcomeIs
  <2>2. Outcome(f) = Fileof(f.file, OutAt(f), Slice(f, 0, f.bufp))
    BY OutcomeIs DEF Faithful
  <2> QED
    BY <1>8, <1>9, <2>1, <2>2
<1> DEFINE tw == FALSE
<1>12. x = WriteOut(h, EOF, tw) /\ tw \in BOOLEAN /\ ~tw
  BY <1>7 DEF Flushbuf
<1> HIDE DEF tw
<1>13. Part(x.file, h.file, Outcome(h), Spot(h)) /\ (~x.error => x.file = Outcome(h))
  <2> HIDE DEF x
  <2> QED
    BY <1>6, <1>7, <1>10, <1>12, WriteOutIs
<1>14. Typed(x)
  BY <1>6, <1>7, FlushbufDoes
<1> HIDE DEF x
<1>15. g.file = x.file /\ g.error = x.error
  BY <1>1, <1>14, FlushedDoes DEF IsHidden
<1> QED
  BY <1>8, <1>9, <1>11, <1>13, <1>15

\* fflush.
IsFlushed(g, f) ==
  /\ g.mode = f.mode /\ Part(g.file, f.file, Outcome(f), Spot(f))
  /\ \/ Stuck(g) /\ g.ret = EOF
     \/ /\ Writes(g) /\ Roomy(g) /\ Even(g) /\ g.ret = 0
        /\ Faithful(g, 0) /\ Touched(g) /\ (Buffered(f) => g.bufp < BufSize)
        /\ g.file = Outcome(f) /\ Outcome(g) = g.file
        /\ Even(f) \/ ~f.mode.append => Goal(g) + g.bufp = Goal(f) + f.bufp
        /\ Roomy(f) \/ ~f.mode.append => Spot(g) = Spot(f)
        /\ Roomy(f) => g.bufp = 0

LEMMA FlushIs ==
  ASSUME NEW f, Writes(f), Bare(f), Modest(f.mode),
         \/ Roomy(f) /\ Faithful(f, f.bufp)
         \/ Even(f) /\ Match(f, 0),
         NEW g, g = Flshfp(f, EOF)
  PROVE  IsFlushed(g, f)
<1>0. /\ Safe(f) /\ Typed(f) /\ Shape(f) /\ f.mode.write /\ ~f.pushed /\ ~f.eof
      /\ f.file \in Seq(Byte) /\ f.bufp \in 0 .. BufSize /\ BufSize \in Nat
      /\ Len(f.file) \in Nat
  BY StreamAssumption DEF Writes, Safe, Shape, Typed
<1>1. IsFlush(g, f)
  BY FlushDoes
<1>2. Typed(g) /\ g.mode = f.mode
  BY <1>1 DEF IsFlush
<1>3. (Even(f) /\ Match(f, 0)) => Faithful(f, f.bufp) /\ Outcome(f) = f.file
  <2>1. HAVE Even(f) /\ Match(f, 0)
  <2>2. Flat(f) /\ Match(f, f.bufp)
    BY <1>0, <2>1, EvenFlat DEF Match
  <2> QED
    BY <1>0, <2>1, <2>2, OutcomeSame DEF Faithful
<1>4. Faithful(f, f.bufp)
  BY <1>3
<1>5. /\ Part(g.file, f.file, Outcome(f), Spot(f))
      /\ ~g.error => g.file = Outcome(f)
  <2>1. CASE Roomy(f) /\ Buffered(f)
    BY <1>4, <2>1, FlushWrites
  <2>2. CASE ~Roomy(f) \/ ~Buffered(f)
    <3>1. g.file = f.file
      BY <1>1, <2>2 DEF IsFlush
    <3>2. Outcome(f) = f.file
      <4>1. CASE ~Roomy(f)
        BY <1>0, <1>3, <4>1
      <4>2. CASE ~Buffered(f)
        <5>1. f.bufp = 0
          BY <1>0, <4>2 DEF Shape
        <5> QED
          BY <1>0, <5>1, OutcomeLength
      <4> QED
        BY <2>2, <4>1, <4>2
    <3> QED
      BY <1>0, <3>1, <3>2, PartSame
  <2> QED
    BY <2>1, <2>2
<1>6. CASE Stuck(g) /\ g.ret = EOF
  BY <1>2, <1>5, <1>6 DEF IsFlushed
<1>7. CASE /\ Writes(g) /\ Roomy(g) /\ Even(g) /\ g.ret = 0
           /\ Match(g, 0) /\ Touched(g) /\ (Bare(f) => Bare(g))
           /\ Buffered(f) => g.bufp < BufSize
           /\ Roomy(f) => g.bufp = 0
           /\ Even(f) \/ ~f.mode.append => Goal(g) + g.bufp = Goal(f) + f.bufp
  <2>1. ~g.error /\ Safe(g) /\ Shape(g) /\ ~g.pushed
    BY <1>7 DEF Writes, Safe
  <2>2. Faithful(g, 0)
    BY <1>2, <1>7, <2>1, EvenFlat DEF Faithful
  <2>3. g.file = Outcome(f) /\ Outcome(g) = g.file
    BY <1>5, <1>7, <2>1, OutcomeSame
  <2>4. Roomy(f) \/ ~f.mode.append => Spot(g) = Spot(f)
    <3>1. CASE ~f.mode.append
      BY <1>2, <1>7, <3>1 DEF Spot, OutAt
    <3>2. CASE f.mode.append /\ Roomy(f)
      <4> DEFINE d == Slice(f, 0, f.bufp)
      <4>1. PICK y : y = Fileof(f.file, OutAt(f), d)
        OBVIOUS
      <4>2. d \in Seq(Byte) /\ Len(d) = f.bufp /\ Outcome(f) = y
        BY <3>2, <4>1, OutcomeIs
      <4>3. OutAt(f) = Len(f.file) /\ OutAt(g) = Len(g.file) /\ g.bufp = 0
        BY <1>2, <1>7, <3>2 DEF OutAt
      <4> HIDE DEF d
      <4>4. Len(y) = Most(Len(f.file), Len(f.file) + f.bufp)
        <5>1. Len(f.file) \in Nat /\ Len(f.file) <= Len(f.file)
          BY <1>0
        <5>2. Len(y) = Most(Len(f.file), OutAt(f) + Len(d))
          <6>1. f.file \in Seq(Byte) /\ OutAt(f) \in Nat /\ OutAt(f) <= Len(f.file)
                /\ d \in Seq(Byte)
            BY <1>0, <4>2, <4>3, <5>1
          <6> QED
            BY ONLY <4>1, <6>1, FileofIs
        <5> QED
          BY <4>2, <4>3, <5>2
      <4>5. Most(Len(f.file), Len(f.file) + f.bufp) = Len(f.file) + f.bufp
        BY <1>0 DEF Most
      <4>6. Len(g.file) = Len(f.file) + f.bufp
        BY <2>3, <4>2, <4>4, <4>5
      <4> QED
        BY <1>0, <4>3, <4>6 DEF Spot
    <3> QED
      BY <3>1, <3>2
  <2> QED
    BY <1>2, <1>5, <1>7, <2>2, <2>3, <2>4 DEF IsFlushed
<1> QED
  BY <1>1, <1>6, <1>7 DEF IsFlush

-----------------------------------------------------------------------------
(* What a stream reads is what the file has.                               *)

\* The stream reads, what it holds is in the file, and a careful program
\* opened it.
Serves(f) ==
  /\ Reads(f) /\ f.mode.read /\ Modest(f.mode)
  /\ Match(f, 0) /\ Bare(f) /\ Touched(f)

\* g is f after the character at at was read.
IsFetched(g, f, at) ==
  /\ Serves(g) /\ g.mode = f.mode /\ g.file = f.file /\ ~g.pushed
  /\ g.eof => g.ret = EOF
  /\ IsTaken(g, at)

LEMMA FillNormalIs ==
  ASSUME NEW f, Serves(f), ~f.pushed, Going(f), f.bufp = f.getl,
         NEW g, g = FillNormal(f)
  PROVE  IsFetched(g, f, Goal(f) + f.bufp)
<1> DEFINE x == IF f.putl > 0 THEN Flushbuf(f, EOF) ELSE f
           t == f.target + f.getl
           y == [x EXCEPT !.target = t]
<1>0. /\ Safe(f) /\ Typed(f) /\ Shape(f) /\ Even(f) /\ Standing(f) /\ ~f.error
      /\ BufSize \in Nat \ {0} /\ f.putl \in {0, BufSize} /\ f.getl \in 0 .. BufSize
      /\ f.bufp \in 0 .. BufSize /\ f.target \in Nat \cup {-1} /\ f.kpos \in Nat
      /\ f.offset \in Nat \cup {-1} /\ f.active = FALSE /\ Match(f, 0) /\ Bare(f)
      /\ Modest(f.mode) /\ f.mode.read /\ ~f.pushed
  <2>1. Reads(f) /\ f.mode.read /\ Modest(f.mode) /\ Match(f, 0) /\ Bare(f)
    BY DEF Serves
  <2>2. Shape(f) /\ Typed(f) /\ Safe(f) /\ Even(f) /\ Standing(f) /\ ~f.error
    BY <2>1 DEF Reads, Safe, Shape
  <2>3. f.active = FALSE
    BY <2>1, <2>2 DEF Shape, Typed, Modest, Linebuf
  <2> QED
    BY <2>1, <2>2, <2>3, StreamAssumption DEF Typed
<1>1. g = FillWritten(y)
  BY DEF FillNormal
<1>2. ASSUME Buffered(f)
      PROVE  /\ t \in Nat \cup {-1} /\ Typed(x) /\ x.mode = f.mode /\ ~x.error
             /\ ~x.pushed /\ ~x.active
             /\ t = -1 <=> x.offset = -1
             /\ t # -1 => t <= x.offset /\ x.offset = x.kpos
                          /\ (t # x.offset => t < Len(x.file))
             /\ x.mode.write => x.kpos <= Len(x.file)
             /\ x.file = f.file /\ (f.bufp = 0 => x.kpos = f.kpos)
  <2>1. /\ Known(f) /\ (f.target # -1 => f.offset = f.kpos) /\ f.bufp <= f.getl
        /\ (f.mode.append /\ f.putl > 0 => f.bufp = 0)
    BY <1>0, <1>2 DEF Safe, Standing, Even
  <2>2. /\ f.target = -1 <=> f.offset = -1
        /\ f.target = -1 => f.getl = 0 /\ f.bufp = 0
        /\ f.target # -1 => f.target + f.getl <= f.offset /\ f.offset = f.kpos
        /\ f.target # -1 /\ ~f.mode.write => f.offset = f.target + f.getl
        /\ f.mode.write => f.kpos <= Len(f.file)
    BY <1>0, <2>1 DEF Known
  <2>3. t \in Nat \cup {-1} /\ (t = -1 <=> f.target = -1)
    BY <1>0, <2>2
  <2>4. CASE f.putl = 0
    <3>1. x = f
      BY <2>4
    <3>2. Len(f.file) \in Nat
      BY <1>0 DEF Typed
    <3>3. t # -1 => t <= f.offset /\ f.offset = f.kpos
                    /\ (t # f.offset => t < Len(f.file))
      BY <1>0, <2>2, <2>3, <3>2
    <3> HIDE DEF t, x
    <3> QED
      BY <1>0, <2>2, <2>3, <3>1, <3>3
  <2>5. CASE f.putl # 0
    <3>1. f.putl = BufSize /\ f.putl > 0 /\ f.mode.write /\ ~f.eof
      BY <1>0, <2>5 DEF Shape, Going
    <3> DEFINE tw == FALSE
    <3>2. x = WriteOut(f, EOF, tw) /\ tw \in BOOLEAN /\ ~tw
      BY <3>1 DEF Flushbuf
    <3> HIDE DEF tw, x
    <3>3. /\ Safe(x) \/ Stuck(x)
          /\ x.mode = f.mode /\ x.active = f.active /\ ~x.pushed
          /\ x.error => f.bufp > 0 /\ (~f.mode.append => f.bufp > f.getl)
          /\ f.bufp = 0 => /\ x.file = f.file /\ x.kpos = f.kpos
                           /\ x.target = f.target /\ x.offset = f.offset
          /\ ~x.error /\ ~f.mode.append /\ f.bufp > 0 => Goal(f) + f.getl <= x.offset
      BY <1>0, <1>2, <3>1, <3>2, WriteOutDoes
    <3>4. ~x.error
      BY <1>0, <2>1, <3>1, <3>3
    <3>10. x.file = f.file
      <4>1. Writes(f) /\ Roomy(f)
        BY <1>0, <3>1 DEF Writes, Roomy
      <4>2. Faithful(f, f.bufp)
        BY <1>0, EvenFlat DEF Faithful, Match
      <4>3. Outcome(f) = f.file
        BY <1>0, OutcomeSame
      <4> QED
        BY <3>1, <3>2, <3>4, <4>1, <4>2, <4>3, WriteOutIs
    <3>5. Safe(x) /\ Buffered(x) /\ x.mode.write
      BY <1>2, <3>1, <3>3, <3>4 DEF Stuck, Buffered
    <3>6. Typed(x) /\ Known(x) /\ x.kpos \in Nat /\ x.offset \in Nat \cup {-1}
          /\ Len(x.file) \in Nat
      BY <3>5 DEF Safe, Shape, Typed
    <3>7. x.kpos <= Len(x.file)
      BY <3>5, <3>6 DEF Known
    <3>8. CASE f.bufp = 0
      <4>1. x.kpos = f.kpos /\ x.offset = f.offset
        BY <3>3, <3>8
      <4>2. t # -1 => t <= x.offset /\ x.offset = x.kpos
                      /\ (t # x.offset => t < Len(x.file))
        BY <1>0, <2>2, <2>3, <3>6, <3>7, <4>1
      <4> HIDE DEF t
      <4> QED
        BY <1>0, <2>2, <2>3, <3>3, <3>4, <3>5, <3>6, <3>7, <3>10, <4>1, <4>2
    <3>9. CASE f.bufp # 0
      <4>1. f.target # -1 /\ ~f.mode.append /\ f.bufp > 0
        BY <1>0, <2>1, <2>2, <3>1, <3>9
      <4>2. t <= x.offset /\ t \in Nat
        <5>1. Goal(f) = f.target
          BY <4>1 DEF Goal
        <5> QED
          BY <1>0, <3>3, <3>4, <4>1, <5>1
      <4>3. x.offset # -1 /\ x.offset = x.kpos
        <5>1. x.offset # -1
          BY <3>6, <4>2
        <5> QED
          BY <3>3, <3>6, <4>1, <5>1 DEF Known
      <4>4. t # x.offset => t < Len(x.file)
        BY <3>6, <3>7, <4>2, <4>3
      <4>5. t # -1
        BY <4>2
      <4> HIDE DEF t
      <4> QED
        BY <1>0, <2>3, <3>3, <3>4, <3>5, <3>6, <3>7, <3>9, <3>10, <4>2, <4>3, <4>4, <4>5
    <3> QED
      BY <3>8, <3>9
  <2> QED
    BY <2>4, <2>5
<1>3. CASE Buffered(f)
  <2>1. /\ t \in Nat \cup {-1} /\ Typed(x) /\ x.mode = f.mode /\ ~x.error
        /\ ~x.pushed /\ ~x.active
        /\ t = -1 <=> x.offset = -1
        /\ t # -1 => t <= x.offset /\ x.offset = x.kpos
                     /\ (t # x.offset => t < Len(x.file))
        /\ x.mode.write => x.kpos <= Len(x.file)
        /\ x.file = f.file /\ (f.bufp = 0 => x.kpos = f.kpos)
    BY <1>2, <1>3
  <2>9. /\ t # -1 => t = Goal(f) + f.bufp
        /\ t = -1 => f.bufp = 0 /\ Goal(f) = f.kpos
    <3>1. f.target = -1 => f.getl = 0
      BY <1>0, <1>3 DEF Safe, Known
    <3> QED
      BY <1>0, <3>1 DEF Goal
  <2> HIDE DEF x, t
  <2>2. /\ Typed(y) /\ SameStream(y, x) /\ y.kpos = x.kpos /\ y.target = t
        /\ y.offset = x.offset
    BY <2>1, TargetMoves
  <2> HIDE DEF y
  <2>3. Buffered(y) /\ ~y.error /\ ~y.pushed /\ ~y.active /\ y.mode = f.mode
        /\ y.file = f.file
    BY <1>3, <2>1, <2>2 DEF SameStream, Buffered
  <2>4. /\ y.target = -1 <=> y.offset = -1
        /\ y.target # -1 => /\ y.target <= y.offset /\ y.offset = y.kpos
                            /\ y.target # y.offset => y.target < Len(y.file)
        /\ y.mode.write => y.kpos <= Len(y.file)
    BY <2>1, <2>2, <2>3
  <2>10. Goal(y) = Goal(f) + f.bufp
    <3>1. CASE t = -1
      BY <1>0, <2>1, <2>2, <2>9, <3>1 DEF Goal
    <3>2. CASE t # -1
      BY <2>2, <2>9, <3>2 DEF Goal
    <3> QED
      BY <3>1, <3>2
  <2> DEFINE z == Fillbuf(y)
  <2>5. z.mode = y.mode /\ z.file = y.file /\ Reads(z) /\ ~z.pushed /\ (z.eof => z.ret = EOF)
        /\ Match(z, 0) /\ Touched(z) /\ IsTaken(z, Goal(y))
    BY <2>2, <2>3, <2>4, FillbufDoes
  <2>6. g = [z EXCEPT !.target = z.target]
    BY <1>1, <2>3 DEF FillWritten
  <2> HIDE DEF z
  <2>7. g = z
    BY <2>5, <2>6 DEF Reads, Safe, Shape, Typed
  <2>8. Bare(z)
    BY <2>3, <2>5 DEF Bare, Buffered
  <2> QED
    BY <1>0, <2>3, <2>5, <2>7, <2>8, <2>10 DEF IsFetched, Serves
<1>4. CASE ~Buffered(f)
  <2>1. f.putl = 0 /\ f.getl = 0 /\ ~f.eof
    BY <1>0, <1>4 DEF Shape, Going
  <2>2. y = f
    <3>1. x = f /\ t = f.target
      BY <1>0, <2>1
    <3>2. [f EXCEPT !.target = f.target] = f
      BY <1>0 DEF Typed
    <3> HIDE DEF x, t
    <3> QED
      BY <3>1, <3>2
  <2>3. g = FillWritten(f)
    BY <1>1, <2>2
  <2>4. g.mode = f.mode /\ g.file = f.file /\ Reads(g) /\ ~g.pushed
        /\ (g.eof => g.ret = EOF)
        /\ (Bare(f) /\ ~f.eof => Bare(g) /\ IsTaken(g, Goal(f)))
    <3>1. Shape(f) /\ ~Buffered(f) /\ ~f.error /\ ~f.pushed
      BY <1>0, <1>4
    <3> QED
      BY ONLY <2>3, <3>1, FillBare
  <2>5. Goal(f) + f.bufp = Goal(f)
    BY <1>0, <2>1 DEF Goal
  <2>6. Match(g, 0) /\ Touched(g)
    <3>1. g.getl = 0
      BY <1>4, <2>4 DEF Reads, Safe, Shape, Buffered
    <3> QED
      BY <3>1 DEF Match, Touched
  <2> QED
    BY <1>0, <2>1, <2>4, <2>5, <2>6 DEF IsFetched, Serves
<1> QED
  BY <1>3, <1>4

\* Where the character after those pushed back is.
Base(f) == Goal(f) + (IF f.pushed THEN f.pushbufp ELSE f.bufp)

LEMMA EofNoByte ==
  EOF \notin Byte
BY StreamAssumption DEF Byte

LEMMA ServesAlike ==
  ASSUME NEW f, Serves(f), NEW g, Alike(g, f), f.seen => g.seen
  PROVE  /\ Serves(g) /\ g.mode = f.mode /\ g.file = f.file /\ g.pushed = f.pushed
         /\ Goal(g) = Goal(f) /\ g.bufp = f.bufp /\ g.getl = f.getl /\ g.eof = f.eof
         /\ Base(g) = Base(f) /\ Pos(g) = Pos(f) /\ (Going(f) => Going(g))
<1>1. /\ g.file = f.file /\ g.kpos = f.kpos /\ g.buf = f.buf /\ g.bufp = f.bufp
      /\ g.getl = f.getl /\ g.target = f.target /\ g.offset = f.offset
      /\ g.pushed = f.pushed /\ g.pushbufp = f.pushbufp /\ g.eof = f.eof /\ g.mode = f.mode
  BY DEF Alike
<1>2. Reads(g) /\ Goal(g) = Goal(f)
  BY AlikeKeeps DEF Serves
<1>3. Match(g, 0)
  BY <1>1 DEF Serves, Match
<1>4. Bare(g)
  BY <1>1 DEF Serves, Bare, Buffered
<1>5. Touched(g)
  BY <1>1 DEF Serves, Touched
<1>6. Serves(g)
  BY <1>1, <1>2, <1>3, <1>4, <1>5 DEF Serves
<1>7. Base(g) = Base(f) /\ Pos(g) = Pos(f) /\ (Going(f) => Going(g))
  BY <1>1, <1>2 DEF Base, Pos, Going, Buffered
<1> QED
  BY <1>1, <1>2, <1>6, <1>7

\* What holds of a stream that is read from.
LEMMA ServesDoes ==
  ASSUME NEW f, Serves(f)
  PROVE  /\ Typed(f) /\ Shape(f) /\ Safe(f) /\ ~f.error /\ f.active = FALSE
         /\ ~Linebuf(f) /\ f.bufp <= f.getl /\ f.file \in Seq(Byte) /\ Len(f.file) \in Nat
         /\ Goal(f) \in Nat /\ f.bufp \in Nat /\ f.getl \in Nat /\ Base(f) \in Nat
         /\ f.pushed => f.bufp = f.getl /\ ~f.eof
         /\ ~Buffered(f) => f.bufp = 0 /\ f.getl = 0 /\ f.pushbufp = 0
         /\ f.eof => /\ f.bufp = 0 /\ f.getl = 0
                     /\ Buffered(f) => Len(f.file) <= Base(f) /\ Pos(f) = Base(f)
         /\ ~f.pushed /\ ~f.eof => Pos(f) = Base(f)
         /\ f.target = -1 \/ f.getl = 0 \/ f.target \in Nat
<1>1. Reads(f) /\ f.mode.read /\ Modest(f.mode)
  BY DEF Serves
<1>2. Shape(f) /\ Typed(f) /\ Safe(f) /\ Even(f) /\ Standing(f) /\ ~f.error
  BY <1>1 DEF Reads, Safe, Shape
<1>3. f.active = FALSE /\ ~Linebuf(f)
  BY <1>1, <1>2 DEF Shape, Typed, Modest, Linebuf
<1>4. /\ f.file \in Seq(Byte) /\ f.bufp \in 0 .. BufSize /\ f.getl \in 0 .. BufSize
      /\ f.target \in Nat \cup {-1} /\ f.kpos \in Nat /\ f.pushbufp \in 0 .. BufSize
      /\ BufSize \in Nat
  BY <1>2, StreamAssumption DEF Typed
<1>5. Goal(f) \in Nat /\ f.bufp \in Nat /\ f.getl \in Nat /\ f.pushbufp \in Nat
      /\ Len(f.file) \in Nat
  BY <1>4 DEF Goal
<1>6. ~Buffered(f) => f.bufp = 0 /\ f.getl = 0 /\ f.pushbufp = 0
  BY <1>2 DEF Shape
<1>7. f.bufp <= f.getl
  BY <1>2, <1>5, <1>6 DEF Even
<1>8. f.pushed => f.bufp = f.getl /\ ~f.eof
  BY <1>1 DEF Reads, Ended
<1>9. Base(f) \in Nat
  BY <1>5 DEF Base
<1>10. ASSUME f.eof PROVE /\ f.bufp = 0 /\ f.getl = 0
                          /\ Buffered(f) => Len(f.file) <= Base(f) /\ Pos(f) = Base(f)
  <2>1. Ended(f)
    BY <1>1, <1>10 DEF Reads
  <2>2. ASSUME Buffered(f) PROVE Len(f.file) <= Goal(f) /\ Goal(f) = Base(f) /\ Pos(f) = Base(f)
    <3>1. Goal(f) = f.kpos
      BY <2>1, <2>2 DEF Ended, Goal
    <3>2. Base(f) = Goal(f) + f.bufp /\ f.bufp = 0
      BY <2>1 DEF Base, Ended
    <3> QED
      BY <1>5, <2>1, <2>2, <3>1, <3>2 DEF Ended, Pos
  <2> QED
    BY <2>1, <2>2 DEF Ended
<1>11. ~f.pushed /\ ~f.eof => Pos(f) = Base(f)
  BY DEF Pos, Base
<1> QED
  BY <1>2, <1>3, <1>4, <1>5, <1>6, <1>7, <1>8, <1>9, <1>10, <1>11

\* The character after the buffer.
LEMMA FillBfIs ==
  ASSUME NEW f, Serves(f), ~f.pushed, Going(f), f.bufp = f.getl, NEW g, g = FillBf(f)
  PROVE  IsFetched(g, f, Base(f))
<1> DEFINE y == [f EXCEPT !.seen = TRUE]
<1>1. Typed(f) /\ f.active = FALSE /\ ~Linebuf(f)
  BY ServesDoes
<1>2. g = FillNormal(y)
  BY <1>1 DEF FillBf, FillLined
<1>3. Alike(y, f) /\ y.seen
  <2>1. Alike(y, f)
    BY <1>1, SeenAlike
  <2>2. y.seen = TRUE
    BY <1>1 DEF Typed
  <2> QED
    BY <2>1, <2>2
<1> HIDE DEF y
<1>4. /\ Serves(y) /\ y.mode = f.mode /\ y.file = f.file /\ y.pushed = f.pushed
      /\ Goal(y) = Goal(f) /\ y.bufp = f.bufp /\ y.getl = f.getl /\ Going(y)
  BY <1>3, ServesAlike
<1>5. IsFetched(g, y, Goal(y) + y.bufp)
  BY <1>2, <1>4, FillNormalIs
<1> QED
  BY <1>4, <1>5 DEF IsFetched, Base

\* The character that was pushed back.
IsReturned(g, f) ==
  /\ Serves(g) /\ g.mode = f.mode /\ g.file = f.file /\ ~g.pushed /\ ~g.eof
  /\ g.ret = f.pushc /\ Pos(g) = Base(f)

LEMMA UnpushIs ==
  ASSUME NEW f, Serves(f), f.pushed, NEW g, g = Unpush(f)
  PROVE  /\ Serves(g) /\ g.mode = f.mode /\ g.file = f.file /\ ~g.pushed /\ ~g.eof
         /\ Pos(g) = Base(f)
<1>1. Typed(f) /\ Reads(f) /\ ~f.eof
  BY ServesDoes DEF Serves
<1>2. /\ Reads(g) /\ ~g.pushed /\ g.mode = f.mode /\ g.file = f.file
      /\ Goal(g) = Goal(f) /\ g.eof = f.eof /\ g.bufp = f.pushbufp
  BY <1>1, UnpushDoes
<1>3. /\ g.buf = f.buf /\ g.getl = f.getl /\ g.target = f.target /\ g.offset = f.offset
      /\ g.kpos = f.kpos /\ g.seen = f.seen
  BY <1>1 DEF Unpush, Typed
<1>4. Match(g, 0) /\ Bare(g) /\ Touched(g)
  <2>1. Match(f, 0) /\ Bare(f) /\ Touched(f)
    BY DEF Serves
  <2>2. Match(g, 0)
    BY <1>2, <1>3, <2>1 DEF Match
  <2>3. Bare(g)
    BY <1>2, <1>3, <2>1 DEF Bare, Buffered
  <2> QED
    BY <1>3, <2>1, <2>2, <2>3 DEF Touched
<1> QED
  BY <1>1, <1>2, <1>4 DEF Serves, Pos, Base

LEMMA PushedIs ==
  ASSUME NEW f, Serves(f), f.pushed, NEW g, g = FillBf(f)
  PROVE  IsReturned(g, f)
<1> DEFINE u == Unpush(f)
<1>1. g = [u EXCEPT !.ret = f.pushc]
  BY DEF FillBf
<1>2. /\ Serves(u) /\ u.mode = f.mode /\ u.file = f.file /\ ~u.pushed /\ ~u.eof
      /\ Pos(u) = Base(f)
  BY UnpushIs
<1> HIDE DEF u
<1>3. Typed(u)
  BY <1>2, ServesDoes
<1>4. Alike(g, u) /\ g.ret = f.pushc /\ g.seen = u.seen
  <2>1. g.ret = f.pushc /\ g.seen = u.seen
    BY <1>1, <1>3 DEF Typed
  <2> QED
    BY <1>1, <1>3, <2>1, RetAlike
<1> QED
  BY <1>2, <1>4, ServesAlike DEF IsReturned

\* n characters are taken out of the buffer.
LEMMA TakeIs ==
  ASSUME NEW f, Serves(f), ~f.pushed, ~f.eof, NEW n \in Nat, f.bufp + n <= f.getl,
         NEW g, g = [f EXCEPT !.bufp = f.bufp + n]
  PROVE  /\ Serves(g) /\ g.mode = f.mode /\ g.file = f.file /\ ~g.pushed /\ ~g.eof
         /\ g.bufp = f.bufp + n /\ g.getl = f.getl /\ g.target = f.target
         /\ g.offset = f.offset /\ g.kpos = f.kpos
         /\ Goal(g) = Goal(f) /\ Pos(g) = Base(f) + n
         /\ \A i \in 0 .. n - 1 : /\ Base(f) + i < Len(f.file)
                                  /\ f.buf[f.bufp + i] = f.file[Base(f) + i + 1]
<1>1. /\ Reads(f) /\ Typed(f) /\ Match(f, 0) /\ Bare(f) /\ Touched(f) /\ f.bufp \in Nat
      /\ Goal(f) \in Nat
  BY ServesDoes DEF Serves
<1>2. /\ Reads(g) /\ g.mode = f.mode /\ g.bufp = f.bufp + n /\ g.getl = f.getl
      /\ g.pushed = f.pushed /\ g.eof = f.eof /\ g.file = f.file
      /\ g.target = f.target /\ g.offset = f.offset /\ g.kpos = f.kpos
  BY <1>1, TakeKeeps
<1>3. g.buf = f.buf /\ g.seen = f.seen
  BY <1>1 DEF Typed
<1>4. Match(g, 0) /\ Bare(g) /\ Touched(g)
  <2>1. Match(g, 0)
    BY <1>1, <1>2, <1>3 DEF Match
  <2>2. Bare(g)
    BY <1>1, <1>2 DEF Bare, Buffered
  <2> QED
    BY <1>1, <1>2, <1>3, <2>1, <2>2 DEF Touched
<1>5. Goal(g) = Goal(f) /\ Pos(g) = Base(f) + n
  <2>1. Goal(g) = Goal(f)
    BY <1>2 DEF Goal
  <2>2. Pos(g) = Goal(g) + g.bufp /\ Base(f) = Goal(f) + f.bufp
    BY <1>2 DEF Pos, Base
  <2> QED
    BY <1>1, <1>2, <2>1, <2>2
<1>6. ASSUME NEW i \in 0 .. n - 1
      PROVE  /\ Base(f) + i < Len(f.file)
             /\ f.buf[f.bufp + i] = f.file[Base(f) + i + 1]
  <2>1. f.getl \in 0 .. BufSize /\ BufSize \in Nat /\ i \in Nat
    BY <1>1, StreamAssumption DEF Typed
  <2>2. f.bufp + i \in 0 .. BufSize - 1 /\ f.bufp + i < f.getl /\ 0 <= f.bufp + i
    BY <1>1, <2>1
  <2>3. /\ f.target \in Nat /\ f.target + (f.bufp + i) < Len(f.file)
        /\ f.buf[f.bufp + i] = f.file[f.target + (f.bufp + i) + 1]
    BY <1>1, <2>2 DEF Match
  <2>4. Base(f) = f.target + f.bufp
    BY <2>3 DEF Base, Goal
  <2>5. Base(f) + i = f.target + (f.bufp + i)
    BY <1>1, <2>1, <2>3, <2>4
  <2> QED
    BY <2>3, <2>5
<1> QED
  BY <1>1, <1>2, <1>4, <1>5, <1>6 DEF Serves

\* getc.
LEMMA GetcIs ==
  ASSUME NEW f, Serves(f), Going(f), NEW g, g = Getc(f)
  PROVE  IF f.pushed THEN IsReturned(g, f) ELSE IsFetched(g, f, Base(f))
<1>1. /\ Typed(f) /\ f.bufp <= f.getl /\ f.bufp \in Nat /\ f.getl \in Nat /\ Base(f) \in Nat
      /\ f.pushed => f.bufp = f.getl /\ ~f.eof
      /\ f.eof => f.getl = 0
  BY ServesDoes
<1>2. CASE ~(f.bufp < f.getl)
  <2>1. g = FillBf(f) /\ f.bufp = f.getl
    BY <1>1, <1>2 DEF Getc
  <2> QED
    BY <2>1, PushedIs, FillBfIs
<1>3. CASE f.bufp < f.getl
  <2>1. ~f.pushed /\ ~f.eof
    BY <1>1, <1>3
  <2> DEFINE t == [f EXCEPT !.bufp = f.bufp + 1]
             c == f.buf[f.bufp]
  <2>2. g = [f EXCEPT !.bufp = f.bufp + 1, !.ret = c]
    BY <1>3 DEF Getc
  <2>3. g = [t EXCEPT !.ret = c]
    BY <1>1, <2>2 DEF Typed
  <2>4. /\ Serves(t) /\ t.mode = f.mode /\ t.file = f.file /\ ~t.pushed /\ ~t.eof
        /\ Pos(t) = Base(f) + 1
        /\ \A i \in 0 .. 1 - 1 : /\ Base(f) + i < Len(f.file)
                                 /\ f.buf[f.bufp + i] = f.file[Base(f) + i + 1]
    <3>1. f.bufp + 1 <= f.getl /\ 1 \in Nat
      BY <1>1, <1>3
    <3> HIDE DEF t
    <3>2. t = [f EXCEPT !.bufp = f.bufp + 1]
      BY DEF t
    <3> QED
      BY ONLY <2>1, <3>1, <3>2, Serves(f), TakeIs
  <2> HIDE DEF t
  <2>5. Base(f) < Len(f.file) /\ c = f.file[Base(f) + 1]
    <3>1. 0 \in 0 .. 1 - 1 /\ Base(f) + 0 = Base(f) /\ f.bufp + 0 = f.bufp
      BY <1>1
    <3> QED
      BY <2>4, <3>1
  <2>6. Typed(t)
    BY <2>4, ServesDoes
  <2> HIDE DEF c
  <2>7. Alike(g, t) /\ g.ret = c /\ g.seen = t.seen
    <3>1. g.ret = c /\ g.seen = t.seen
      BY <2>3, <2>6 DEF Typed
    <3> QED
      BY <2>3, <2>6, <3>1, RetAlike
  <2>8. Serves(g) /\ g.mode = f.mode /\ g.file = f.file /\ ~g.pushed /\ ~g.eof
        /\ Pos(g) = Base(f) + 1
    BY <2>4, <2>7, ServesAlike
  <2> QED
    BY <2>1, <2>5, <2>7, <2>8 DEF IsFetched, IsTaken
<1> QED
  BY <1>2, <1>3

LEMMA Joined ==
  \A x, y, z \in Seq(Byte) : (x \o y) \o z = x \o (y \o z)
<1> SUFFICES ASSUME NEW x \in Seq(Byte), NEW y \in Seq(Byte), NEW z \in Seq(Byte)
             PROVE  (x \o y) \o z = x \o (y \o z)
  OBVIOUS
<1> QED
  BY ONLY x \in Seq(Byte), y \in Seq(Byte), z \in Seq(Byte), ConcatAssociative

\* The reader r2 is r1 with the bytes e read from the file besides.
Drew(r2, r1, e) ==
  /\ Serves(r2.f) /\ r2.f.mode = r1.f.mode /\ r2.f.file = r1.f.file /\ ~r2.f.pushed
  /\ e \in Seq(Byte) /\ Len(e) <= r1.left /\ r2.got = r1.got \o e
  /\ \A i \in 1 .. Len(e) : /\ Base(r1.f) + i <= Len(r1.f.file)
                            /\ e[i] = r1.f.file[Base(r1.f) + i]
  /\ Pos(r2.f) = Base(r1.f) + Len(e)
  /\ \/ r2.left = r1.left - Len(e)
     \/ r2.left = 0 /\ Len(r1.f.file) <= Base(r1.f) + Len(e)
  /\ r2.f.eof => r2.left = 0

LEMMA DrewNone ==
  ASSUME NEW r, Serves(r.f), ~r.f.pushed, ~r.f.eof, r.left \in Nat, r.got \in Seq(Byte)
  PROVE  Drew(r, r, <<>>)
<1>1. Pos(r.f) = Base(r.f) /\ Base(r.f) \in Nat
  BY ServesDoes
<1> DEFINE e == <<>>
<1>2. e \in Seq(Byte) /\ Len(e) = 0 /\ r.got \o e = r.got
  OBVIOUS
<1> HIDE DEF e
<1>3. Drew(r, r, e)
  <2>1. \A i \in 1 .. Len(e) : /\ Base(r.f) + i <= Len(r.f.file)
                               /\ e[i] = r.f.file[Base(r.f) + i]
    BY <1>2
  <2> QED
    BY <1>1, <1>2, <2>1 DEF Drew
<1> QED
  BY <1>3 DEF e

LEMMA DrewChain ==
  ASSUME NEW r1, Serves(r1.f), r1.left \in Nat, r1.got \in Seq(Byte),
         NEW r2, NEW d, Drew(r2, r1, d), ~r2.f.eof, r2.left # 0,
         NEW r3, NEW e, Drew(r3, r2, e)
  PROVE  Drew(r3, r1, d \o e)
<1>1. /\ Pos(r2.f) = Base(r2.f) /\ Base(r2.f) \in Nat /\ Base(r1.f) \in Nat
      /\ Len(r1.f.file) \in Nat
  BY ServesDoes DEF Drew
<1>2. /\ d \in Seq(Byte) /\ e \in Seq(Byte) /\ r2.got = r1.got \o d /\ r3.got = r2.got \o e
      /\ Len(d) \in Nat /\ Len(e) \in Nat
  BY DEF Drew
<1>3. Base(r2.f) = Base(r1.f) + Len(d) /\ r2.f.file = r1.f.file
      /\ r2.left = r1.left - Len(d) /\ Len(e) <= r2.left
  BY <1>1 DEF Drew
<1> DEFINE a == d \o e
<1>4. /\ a \in Seq(Byte) /\ Len(a) = Len(d) + Len(e) /\ r3.got = r1.got \o a
      /\ \A i \in 1 .. Len(a) : a[i] = IF i <= Len(d) THEN d[i] ELSE e[i - Len(d)]
  <2>1. /\ a \in Seq(Byte) /\ Len(a) = Len(d) + Len(e)
        /\ \A i \in 1 .. Len(d) + Len(e) : a[i] = IF i <= Len(d) THEN d[i] ELSE e[i - Len(d)]
    BY <1>2, ConcatProperties
  <2>2. (r1.got \o d) \o e = r1.got \o a
    <3>1. r1.got \in Seq(Byte) /\ d \in Seq(Byte) /\ e \in Seq(Byte)
      BY <1>2
    <3>2. (r1.got \o d) \o e = r1.got \o (d \o e)
      BY ONLY <3>1, Joined, Zenon
    <3> QED
      BY <3>2 DEF a
  <2> QED
    BY <1>2, <2>1, <2>2
<1> HIDE DEF a
<1>5. ASSUME NEW i \in 1 .. Len(a)
      PROVE  /\ Base(r1.f) + i <= Len(r1.f.file) /\ a[i] = r1.f.file[Base(r1.f) + i]
  <2>1. CASE i <= Len(d)
    <3>1. i \in 1 .. Len(d)
      BY <1>2, <2>1
    <3> QED
      BY <1>4, <2>1, <3>1 DEF Drew
  <2>2. CASE ~(i <= Len(d))
    <3> DEFINE j == i - Len(d)
    <3>1. j \in 1 .. Len(e) /\ Base(r2.f) + j = Base(r1.f) + i
      BY <1>1, <1>2, <1>3, <1>4, <2>2
    <3>2. a[i] = e[j]
      BY <1>4, <2>2
    <3> HIDE DEF j
    <3>3. Base(r2.f) + j <= Len(r2.f.file) /\ e[j] = r2.f.file[Base(r2.f) + j]
      BY <3>1 DEF Drew
    <3> QED
      BY <1>3, <3>1, <3>2, <3>3
  <2> QED
    BY <2>1, <2>2
<1>6. /\ Len(a) <= r1.left /\ Pos(r3.f) = Base(r1.f) + Len(a)
      /\ \/ r3.left = r1.left - Len(a)
         \/ r3.left = 0 /\ Len(r1.f.file) <= Base(r1.f) + Len(a)
  <2>1. Pos(r3.f) = Base(r2.f) + Len(e)
    BY DEF Drew
  <2>2. \/ r3.left = r2.left - Len(e)
        \/ r3.left = 0 /\ Len(r2.f.file) <= Base(r2.f) + Len(e)
    BY DEF Drew
  <2> QED
    BY <1>1, <1>2, <1>3, <1>4, <2>1, <2>2, SMTT(30)
<1>7. /\ Serves(r3.f) /\ r3.f.mode = r1.f.mode /\ r3.f.file = r1.f.file /\ ~r3.f.pushed
      /\ r3.f.eof => r3.left = 0
  BY DEF Drew
<1>8. Drew(r3, r1, a)
  BY <1>4, <1>5, <1>6, <1>7 DEF Drew
<1> QED
  BY <1>8 DEF a

\* The end of a file is met, or one character is taken.
LEMMA ReadOneIs ==
  ASSUME NEW r, Serves(r.f), ~r.f.pushed, ~r.f.eof, r.f.bufp = r.f.getl,
         r.left \in Nat \ {0}, r.got \in Seq(Byte)
  PROVE  \E e : Drew(ReadOne(r), r, e) /\ ReadOne(r).left < r.left
<1> DEFINE f == r.f
           g == FillBf(f)
           at == Base(f)
<1>1. IsFetched(g, f, at)
  BY FillBfIs DEF Going
<1>2. ReadOne(r) = Took(g, r)
  BY DEF ReadOne
<1>3. at \in Nat /\ Len(f.file) \in Nat /\ f.file \in Seq(Byte)
  BY ServesDoes
<1> HIDE DEF g, at
<1>4. CASE g.eof
  <2> DEFINE e == <<>>
             q == [f |-> g, got |-> r.got, left |-> 0]
  <2>1. ReadOne(r) = q
    BY <1>1, <1>2, <1>4 DEF IsFetched, Took
  <2>2. e \in Seq(Byte) /\ Len(e) = 0 /\ r.got \o e = r.got
    OBVIOUS
  <2>3. q.f = g /\ q.got = r.got /\ q.left = 0
    OBVIOUS
  <2>4. Len(f.file) <= at /\ Pos(g) = at
    BY <1>1, <1>4 DEF IsFetched, IsTaken
  <2> HIDE DEF q, e, f
  <2>5. Drew(q, r, e)
    <3>1. \A i \in 1 .. Len(e) : /\ Base(r.f) + i <= Len(r.f.file)
                                 /\ e[i] = r.f.file[Base(r.f) + i]
      BY <2>2
    <3>2. /\ Serves(q.f) /\ q.f.mode = r.f.mode /\ q.f.file = r.f.file /\ ~q.f.pushed
      BY <1>1, <2>3 DEF IsFetched, f
    <3>3. Pos(q.f) = Base(r.f) + Len(e) /\ Len(r.f.file) <= Base(r.f) + Len(e)
      BY <1>3, <2>2, <2>3, <2>4 DEF at, f
    <3> QED
      BY <2>2, <2>3, <3>1, <3>2, <3>3 DEF Drew
  <2> QED
    BY <2>1, <2>3, <2>5
<1>5. CASE ~g.eof
  <2>1. at < Len(f.file) /\ g.ret = f.file[at + 1] /\ Pos(g) = at + 1
    BY <1>1, <1>5 DEF IsFetched, IsTaken
  <2>2. g.ret \in Byte /\ g.ret # EOF
    BY <1>3, <2>1, EofNoByte
  <2> DEFINE c == g.ret
             e == <<c>>
             q == [f |-> g, got |-> Append(r.got, c), left |-> r.left - 1]
  <2>3. ReadOne(r) = q
    BY <1>2, <2>2 DEF Took
  <2>4. c \in Byte /\ c = f.file[at + 1]
    BY <2>1, <2>2
  <2> HIDE DEF c
  <2>5. /\ e \in Seq(Byte) /\ Len(e) = 1 /\ e[1] = c /\ r.got \o e = Append(r.got, c)
    BY <2>4
  <2>6. q.f = g /\ q.got = Append(r.got, c) /\ q.left = r.left - 1
    OBVIOUS
  <2> HIDE DEF q, e, f
  <2>7. Drew(q, r, e)
    <3>1. ASSUME NEW i \in 1 .. Len(e)
          PROVE  /\ Base(r.f) + i <= Len(r.f.file) /\ e[i] = r.f.file[Base(r.f) + i]
      <4>1. i = 1
        BY <2>5
      <4> QED
        BY <1>3, <2>1, <2>4, <2>5, <4>1 DEF at, f
    <3>2. /\ Serves(q.f) /\ q.f.mode = r.f.mode /\ q.f.file = r.f.file /\ ~q.f.pushed
          /\ ~q.f.eof
      BY <1>1, <1>5, <2>6 DEF IsFetched, f
    <3>3. Pos(q.f) = Base(r.f) + Len(e) /\ Len(e) <= r.left /\ q.left = r.left - Len(e)
      BY <1>3, <2>1, <2>5, <2>6 DEF at, f
    <3> QED
      BY <2>5, <2>6, <3>1, <3>2, <3>3 DEF Drew
  <2> QED
    BY <2>3, <2>6, <2>7
<1> QED
  BY <1>4, <1>5

\* A read past the buffer took the bytes e.
IsDrawn(g, f, left, e) ==
  /\ Serves(g) /\ g.mode = f.mode /\ g.file = f.file /\ ~g.pushed
  /\ e \in Seq(Byte) /\ Len(e) <= left
  /\ \A i \in 1 .. Len(e) : Base(f) + i <= Len(f.file) /\ e[i] = f.file[Base(f) + i]
  /\ Pos(g) = Base(f) + Len(e)
  /\ Len(e) = left \/ Len(f.file) <= Base(f) + Len(e)

LEMMA DirectIs ==
  ASSUME NEW f, Serves(f), ~f.eof, ~f.pushed, f.bufp = f.getl, f.offset = f.target,
         NEW left \in Nat \ {0}, NEW avail, NEW moved, NEW g,
         IsDirect(g, f, left, avail, moved),
         NEW e, e = SubSeq(f.file, f.kpos + 1, f.kpos + avail)
  PROVE  IsDrawn(g, f, left, e)
<1>0. /\ Typed(f) /\ Reads(f) /\ Shape(f) /\ Safe(f) /\ Standing(f) /\ Bare(f)
      /\ f.kpos \in Nat /\ f.offset \in Nat \cup {-1} /\ Len(f.file) \in Nat
      /\ f.file \in Seq(Byte) /\ f.getl \in Nat /\ f.bufp \in Nat /\ f.eof = FALSE
      /\ ~Buffered(f) => f.bufp = 0 /\ f.getl = 0
  BY ServesDoes DEF Serves, Reads, Typed
<1>1. Reads(g) /\ g.mode = f.mode
  BY <1>0, DirectDoes
<1>2. f.getl = 0 /\ f.bufp = 0
  <2>1. CASE Buffered(f)
    <3>1. Known(f)
      BY <1>0, <2>1 DEF Safe
    <3>2. CASE f.target = -1
      BY <3>1, <3>2 DEF Known
    <3>3. CASE f.target # -1
      <4>1. f.target + f.getl <= f.offset
        BY <3>1, <3>3 DEF Known
      <4> QED
        BY <1>0, <3>3, <4>1
    <3> QED
      BY <3>2, <3>3
  <2> QED
    BY <1>0, <2>1
<1>3. f.target = -1 \/ f.target = f.kpos
  <2>1. CASE Buffered(f)
    BY <1>0, <2>1 DEF Standing
  <2>2. CASE ~Buffered(f)
    BY <1>0, <2>2 DEF Bare
  <2> QED
    BY <2>1, <2>2
<1>4. Base(f) = f.kpos
  BY <1>0, <1>2, <1>3 DEF Base, Goal
<1>5. /\ avail \in Nat /\ avail <= left
      /\ avail = 0 \/ f.kpos + avail <= Len(f.file)
      /\ avail < left => Len(f.file) <= f.kpos + avail
  <2> DEFINE a == Most(0, Len(f.file) - f.kpos)
  <2>1. /\ a \in Nat
        /\ f.kpos <= Len(f.file) => a = Len(f.file) - f.kpos
        /\ Len(f.file) <= f.kpos => a = 0
    BY <1>0 DEF Most
  <2>2. avail = Least(left, a)
    BY DEF IsDirect
  <2> HIDE DEF a
  <2>3. avail \in Nat /\ avail <= left /\ avail <= a /\ (avail < left => avail = a)
    BY <2>1, <2>2 DEF Least
  <2> QED
    BY <1>0, <2>1, <2>3
<1>6. e \in Seq(Byte) /\ Len(e) = avail
      /\ \A i \in 1 .. avail : f.kpos + i <= Len(f.file) /\ e[i] = f.file[f.kpos + i]
  <2>0. f.kpos \in Nat /\ Len(f.file) \in Nat /\ avail \in Nat
    BY <1>0, <1>5
  <2> DEFINE m == f.kpos + 1
             n == f.kpos + avail
  <2>1. m \in Int /\ n \in Int /\ n - m + 1 = avail /\ (m <= n <=> avail # 0)
    BY ONLY <2>0
  <2>2. \A i \in m .. n : i \in 1 .. Len(f.file)
    <3> SUFFICES ASSUME NEW i \in m .. n PROVE i \in 1 .. Len(f.file)
      OBVIOUS
    <3>1. avail # 0
      BY <2>1
    <3>2. f.kpos + avail <= Len(f.file)
      BY <1>5, <3>1
    <3> QED
      BY <2>0, <3>2
  <2>3. \A i \in m .. n : f.file[i] \in Byte
    BY <1>0, <2>2
  <2>4. e = SubSeq(f.file, m, n)
    OBVIOUS
  <2> HIDE DEF m, n
  <2>5. /\ SubSeq(f.file, m, n) \in Seq(Byte)
        /\ Len(SubSeq(f.file, m, n)) = IF m <= n THEN n - m + 1 ELSE 0
        /\ \A i \in 1 .. n - m + 1 : SubSeq(f.file, m, n)[i] = f.file[m + i - 1]
    BY <2>1, <2>3, SubSeqProperties
  <2>6. e \in Seq(Byte) /\ Len(e) = avail /\ \A i \in 1 .. avail : e[i] = f.file[m + i - 1]
    BY <2>1, <2>4, <2>5
  <2>7. ASSUME NEW i \in 1 .. avail
        PROVE  f.kpos + i <= Len(f.file) /\ e[i] = f.file[f.kpos + i]
    <3>1. f.kpos + i \in m .. n /\ m + i - 1 = f.kpos + i
      BY <2>0, SMTT(30) DEF m, n
    <3>2. f.kpos + i \in 1 .. Len(f.file)
      BY <2>2, <3>1
    <3>3. e[i] = f.file[m + i - 1]
      BY <2>6
    <3> QED
      BY <2>0, <3>1, <3>2, <3>3, SMTT(30)
  <2> QED
    BY <2>6, <2>7
<1>7. moved \in Nat /\ (f.offset # -1 => moved = avail) /\ (f.offset = -1 => moved = 0)
  BY <1>5 DEF IsDirect
<1>8. g = [f EXCEPT !.kpos = f.kpos + avail, !.offset = f.offset + moved,
                    !.target = f.target + moved, !.eof = f.eof \/ avail < left]
  BY DEF IsDirect
<1>9. /\ g.file = f.file /\ g.kpos = f.kpos + avail /\ g.buf = f.buf /\ g.bufp = f.bufp
      /\ g.getl = f.getl /\ g.target = f.target + moved /\ g.seen = f.seen
      /\ g.offset = f.offset + moved /\ g.pushed = f.pushed
  BY <1>0, <1>8 DEF Typed
<1>10. Match(g, 0) /\ Touched(g)
  <2>1. g.getl = 0
    BY <1>2, <1>9
  <2> QED
    BY <2>1 DEF Match, Touched
<1>11. /\ g.target = g.offset /\ (g.target = -1 <=> f.target = -1)
       /\ g.target = -1 \/ g.target = g.kpos
  BY <1>0, <1>3, <1>5, <1>7, <1>9
<1>12. Bare(g)
  <2>1. ASSUME ~Buffered(g), g.mode.write PROVE g.kpos <= Len(g.file)
    <3>1. f.kpos <= Len(f.file)
      BY <1>0, <1>1, <2>1 DEF Bare, Buffered
    <3> QED
      BY <1>0, <1>5, <1>9, <3>1
  <2> QED
    BY <1>11, <2>1 DEF Bare
<1>13. Pos(g) = f.kpos + avail
  <2>1. Goal(g) = g.kpos
    BY <1>11 DEF Goal
  <2> QED
    BY <1>0, <1>2, <1>5, <1>9, <2>1 DEF Pos
<1>14. Serves(g)
  BY <1>1, <1>10, <1>12 DEF Serves
<1>15. Len(e) = left \/ Len(f.file) <= Base(f) + Len(e)
  BY <1>4, <1>5, <1>6
<1>16. \A i \in 1 .. Len(e) : Base(f) + i <= Len(f.file) /\ e[i] = f.file[Base(f) + i]
  BY <1>4, <1>6
<1>17. Len(e) <= left /\ Pos(g) = Base(f) + Len(e)
  BY <1>4, <1>5, <1>6, <1>13
<1> QED
  BY <1>1, <1>6, <1>9, <1>14, <1>15, <1>16, <1>17 DEF IsDrawn

LEMMA SliceAt ==
  ASSUME NEW h, NEW b \in Nat, NEW n \in Nat
  PROVE  Slice(h, b, b + n) = [k \in 1 .. n |-> h.buf[b + k - 1]]
<1>1. (b + n) - b = n
  OBVIOUS
<1>2. Slice(h, b, b + n) = [k \in 1 .. ((b + n) - b) |-> h.buf[b + k - 1]]
  BY DEF Slice
<1> QED
  BY <1>1, <1>2

\* The reader q is r after n bytes of the buffer, e, were copied.
IsCopied(q, r, n, e) ==
  /\ q.f = [r.f EXCEPT !.bufp = r.f.bufp + n]
  /\ e = Slice(r.f, r.f.bufp, r.f.bufp + n)
  /\ q.got = r.got \o e /\ q.left = r.left - n

LEMMA CopyIs ==
  ASSUME NEW r, Serves(r.f), ~r.f.pushed, ~r.f.eof, r.left \in Nat, r.got \in Seq(Byte),
         NEW n \in Nat, r.f.bufp + n <= r.f.getl, n <= r.left,
         NEW q, NEW e, IsCopied(q, r, n, e)
  PROVE  Drew(q, r, e) /\ Len(e) = n /\ ~q.f.eof
<1> DEFINE f == q.f
           h == r.f
           b == h.bufp
           p == Base(h)
<1>1. /\ h.file \in Seq(Byte) /\ p \in Nat /\ b \in Nat /\ Len(h.file) \in Nat
  BY ServesDoes
<1>2. /\ Serves(f) /\ f.mode = h.mode /\ f.file = h.file /\ ~f.pushed /\ ~f.eof
      /\ Pos(f) = p + n
      /\ \A i \in 0 .. n - 1 : p + i < Len(h.file) /\ h.buf[b + i] = h.file[p + i + 1]
  <2>1. f = [r.f EXCEPT !.bufp = r.f.bufp + n]
    BY DEF IsCopied
  <2> QED
    BY <2>1, TakeIs
<1>3. /\ Len(e) = n /\ e \in Seq(Byte)
      /\ \A i \in 1 .. n : p + i <= Len(h.file) /\ e[i] = h.file[p + i]
  <2>1. e = Slice(h, b, b + n) /\ b \in Nat
    BY <1>1 DEF IsCopied
  <2> HIDE DEF h, b, p
  <2>2. h.file \in Seq(Byte) /\ p \in Nat
    BY <1>1
  <2>3. e = [k \in 1 .. n |-> h.buf[b + k - 1]]
    BY ONLY n \in Nat, <2>1, SliceAt
  <2>4. ASSUME NEW i \in 1 .. n
        PROVE  p + i <= Len(h.file) /\ h.buf[b + i - 1] = h.file[p + i]
    <3>1. i - 1 \in 0 .. n - 1 /\ b + (i - 1) = b + i - 1 /\ p + (i - 1) + 1 = p + i
          /\ (p + (i - 1) < Len(h.file) <=> p + i <= Len(h.file))
      BY ONLY <1>1, n \in Nat, i \in 1 .. n
    <3>2. p + (i - 1) < Len(h.file) /\ h.buf[b + (i - 1)] = h.file[p + (i - 1) + 1]
      BY <1>2, <3>1
    <3> QED
      BY <3>1, <3>2
  <2>5. \A i \in 1 .. n : h.buf[b + i - 1] \in Byte
    <3> SUFFICES ASSUME NEW i \in 1 .. n PROVE h.buf[b + i - 1] \in Byte
      OBVIOUS
    <3>0. i \in Nat \ {0}
      OBVIOUS
    <3>1. p + i \in 1 .. Len(h.file)
      <4>1. p + i <= Len(h.file) /\ Len(h.file) \in Nat
        BY <1>1, <2>4
      <4> QED
        BY ONLY <2>2, <3>0, <4>1
    <3>2. h.file[p + i] \in Byte
      BY ONLY <2>2, <3>1, ElementOfSeq
    <3> QED
      BY <2>4, <3>2
  <2>6. e \in Seq(Byte) /\ Len(e) = n
    BY ONLY <2>3, <2>5, n \in Nat
  <2> QED
    BY <2>3, <2>4, <2>6
<1>3a. q.got = r.got \o e /\ q.left = r.left - n
  BY DEF IsCopied
<1> HIDE DEF h, b, p
<1>4. Drew(q, r, e)
  <2>1. \A i \in 1 .. Len(e) : Base(r.f) + i <= Len(r.f.file) /\ e[i] = r.f.file[Base(r.f) + i]
    BY <1>3 DEF h, p
  <2>2. Pos(q.f) = Base(r.f) + Len(e) /\ q.left = r.left - Len(e) /\ Len(e) <= r.left
    BY <1>2, <1>3, <1>3a DEF h, p
  <2>3. Serves(q.f) /\ q.f.mode = r.f.mode /\ q.f.file = r.f.file /\ ~q.f.pushed /\ ~q.f.eof
    BY <1>2 DEF h
  <2> QED
    BY <1>3, <1>3a, <2>1, <2>2, <2>3 DEF Drew
<1> QED
  BY <1>2, <1>3, <1>4

LEMMA ReadMoreIs ==
  ASSUME NEW r, Serves(r.f), ~r.f.pushed, ~r.f.eof, r.left \in Nat \ {0},
         r.got \in Seq(Byte)
  PROVE  \E e : Drew(ReadMore(r), r, e) /\ ReadMore(r).left < r.left
<1> DEFINE h     == r.f
           copy  == Least(h.getl - h.bufp, r.left)
           f     == [h EXCEPT !.bufp = h.bufp + copy]
           d     == Slice(h, h.bufp, h.bufp + copy)
           got   == r.got \o d
           left  == r.left - copy
           q     == [f |-> f, got |-> got, left |-> left]
           avail == Least(left, Most(0, Len(f.file) - f.kpos))
           moved == IF f.offset = -1 THEN 0 ELSE avail
           g     == [f EXCEPT !.kpos = @ + avail, !.offset = @ + moved,
                              !.target = @ + moved, !.eof = @ \/ avail < left]
           e     == SubSeq(f.file, f.kpos + 1, f.kpos + avail)
<1>0. h.bufp \in Nat /\ h.getl \in Nat /\ h.bufp <= h.getl
  BY ServesDoes
<1>1. /\ copy \in Nat /\ h.bufp + copy <= h.getl /\ copy <= r.left
      /\ copy # r.left => h.bufp + copy = h.getl
  BY <1>0 DEF Least
<1> HIDE DEF copy
<1>2. left \in Nat /\ (left # 0 => h.bufp + copy = h.getl)
  BY <1>1
<1>3. ReadMore(r) =
        IF left = 0 THEN [f |-> f, got |-> got, left |-> 0]
        ELSE IF left >= Cap(f) /\ f.offset = f.target
        THEN [f |-> g, got |-> got \o e, left |-> 0]
        ELSE ReadOne(q)
  BY DEF ReadMore, copy
<1>4. q.f = f /\ q.got = got /\ q.left = left
  OBVIOUS
<1>5. /\ f.bufp = h.bufp + copy /\ f.getl = h.getl
  <2>1. Typed(h)
    BY ServesDoes
  <2> HIDE DEF h
  <2> QED
    BY <2>1 DEF Typed
<1> HIDE DEF left, f, d, h, q
<1>6. Drew(q, r, d) /\ Len(d) = copy /\ ~f.eof
  <2>1. /\ Serves(r.f) /\ ~r.f.pushed /\ ~r.f.eof /\ r.left \in Nat /\ r.got \in Seq(Byte)
        /\ copy \in Nat /\ r.f.bufp + copy <= r.f.getl /\ copy <= r.left
    BY <1>1 DEF h
  <2>2. IsCopied(q, r, copy, d)
    BY <1>4 DEF h, f, d, left, IsCopied
  <2>3. Drew(q, r, d) /\ Len(d) = copy /\ ~q.f.eof
    BY ONLY <2>1, <2>2, CopyIs
  <2> QED
    BY <1>4, <2>3
<1>7. d \in Seq(Byte) /\ got \in Seq(Byte) /\ Serves(f) /\ ~f.pushed /\ f.mode = h.mode
  <2>1. d \in Seq(Byte) /\ Serves(q.f) /\ ~q.f.pushed /\ q.f.mode = r.f.mode
    BY <1>6 DEF Drew
  <2> QED
    BY <1>4, <2>1, ConcatProperties DEF h
<1> HIDE DEF got, g, e, moved, avail
<1>8. CASE left = 0
  <2>1. ReadMore(r) = q
    BY <1>3, <1>8 DEF q
  <2> QED
    BY <1>4, <1>6, <1>8, <2>1
<1>9. CASE left # 0 /\ left >= Cap(f) /\ f.offset = f.target
  <2> DEFINE t == [f |-> g, got |-> got \o e, left |-> 0]
  <2>1. ReadMore(r) = t
    BY <1>3, <1>9
  <2>2. IsDirect(g, f, left, avail, moved)
    BY DEF IsDirect, g, avail, moved
  <2>3. f.bufp = f.getl /\ left \in Nat \ {0}
    BY <1>2, <1>5, <1>9
  <2>4. e = SubSeq(f.file, f.kpos + 1, f.kpos + avail)
    BY DEF e
  <2>5. IsDrawn(g, f, left, e)
    <3>1. f.offset = f.target /\ ~f.eof /\ ~f.pushed /\ Serves(f)
      BY <1>6, <1>7, <1>9
    <3> QED
      BY ONLY <2>2, <2>3, <2>4, <3>1, DirectIs
  <2>6. t.f = g /\ t.got = got \o e /\ t.left = 0
    OBVIOUS
  <2> HIDE DEF t
  <2>7. Drew(t, q, e)
    <3>1. left = left - Len(e) + Len(e) /\ (Len(e) = left => left - Len(e) = 0)
      BY <1>2, <2>5 DEF IsDrawn
    <3>2. t.left = q.left - Len(e) \/ (t.left = 0 /\ Len(q.f.file) <= Base(q.f) + Len(e))
      BY <1>4, <2>5, <2>6, <3>1 DEF IsDrawn
    <3> QED
      BY <1>4, <2>5, <2>6, <3>2 DEF Drew, IsDrawn
  <2>8. Drew(t, r, d \o e)
    <3>1. ~q.f.eof /\ q.left # 0 /\ r.left \in Nat
      BY <1>4, <1>6, <1>9
    <3> QED
      BY <1>6, <2>7, <3>1, DrewChain
  <2> QED
    BY <2>1, <2>6, <2>8
<1>10. CASE left # 0 /\ ~(left >= Cap(f) /\ f.offset = f.target)
  <2>1. ReadMore(r) = ReadOne(q)
    BY <1>3, <1>10
  <2>2. /\ Serves(q.f) /\ ~q.f.pushed /\ ~q.f.eof /\ q.f.bufp = q.f.getl
        /\ q.left \in Nat \ {0} /\ q.got \in Seq(Byte)
    BY <1>2, <1>4, <1>5, <1>6, <1>7, <1>10
  <2>3. PICK x : Drew(ReadOne(q), q, x) /\ ReadOne(q).left < q.left
    BY <2>2, ReadOneIs
  <2>4. Drew(ReadOne(q), r, d \o x)
    <3>1. r.left \in Nat /\ q.left # 0
      BY <2>2
    <3> QED
      BY <1>6, <2>2, <2>3, <3>1, DrewChain
  <2>5. ReadOne(q).left < r.left
    <3>1. ReadOne(q).left \in Int
      <4>1. x \in Seq(Byte)
        BY <2>3 DEF Drew
      <4>2. ReadOne(q).left = q.left - Len(x) \/ ReadOne(q).left = 0
        BY <2>3 DEF Drew
      <4> QED
        BY <2>2, <4>1, <4>2
    <3>2. q.left <= r.left /\ q.left \in Nat
      BY <1>1, <1>4, <2>2 DEF left
    <3> QED
      BY <2>3, <3>1, <3>2
  <2> QED
    BY <2>1, <2>4, <2>5
<1> QED
  BY <1>8, <1>9, <1>10

\* What is left to read: the character pushed back, and the file.
Back(f) == IF f.pushed THEN <<f.pushc>> ELSE <<>>
Coming(f) == Back(f) \o SubSeq(f.file, Base(f) + 1, Len(f.file))

\* A call that asked for n bytes got these.
IsInput(g, f, n, got) ==
  /\ Serves(g) /\ g.mode = f.mode /\ g.file = f.file /\ ~g.pushed
  /\ got = SubSeq(Coming(f), 1, Least(n, Len(Coming(f))))
  /\ Pos(g) = Base(f) - Len(Back(f)) + Len(got)
  /\ got = <<>> => ~f.pushed

LEMMA BackIs ==
  ASSUME NEW f, Typed(f)
  PROVE  Back(f) \in Seq(Byte) /\ Len(Back(f)) = IF f.pushed THEN 1 ELSE 0
<1>1. f.pushc \in Byte
  BY DEF Typed
<1> DEFINE c == f.pushc
<1>2. <<c>> \in Seq(Byte) /\ Len(<<c>>) = 1 /\ <<>> \in Seq(Byte) /\ Len(<<>>) = 0
  BY <1>1
<1> HIDE DEF c
<1>3. Back(f) = IF f.pushed THEN <<c>> ELSE <<>>
  BY DEF Back, c
<1> QED
  BY <1>2, <1>3

LEMMA SubSeqIs ==
  ASSUME NEW x \in Seq(Byte), NEW b \in Nat
  PROVE  /\ SubSeq(x, b + 1, Len(x)) \in Seq(Byte)
         /\ Len(SubSeq(x, b + 1, Len(x))) = Most(0, Len(x) - b)
         /\ \A i \in 1 .. Len(x) - b : SubSeq(x, b + 1, Len(x))[i] = x[b + i]
<1> DEFINE m == b + 1
           n == Len(x)
<1>1. m \in Int /\ n \in Int /\ n - m + 1 = Len(x) - b
      /\ (IF m <= n THEN n - m + 1 ELSE 0) = Most(0, Len(x) - b)
  BY DEF Most
<1>2. \A i \in m .. n : x[i] \in Byte
  OBVIOUS
<1>3. \A i \in 1 .. Len(x) - b : m + i - 1 = b + i
  OBVIOUS
<1> HIDE DEF m, n
<1>4. /\ SubSeq(x, m, n) \in Seq(Byte)
      /\ Len(SubSeq(x, m, n)) = IF m <= n THEN n - m + 1 ELSE 0
      /\ \A i \in 1 .. n - m + 1 : SubSeq(x, m, n)[i] = x[m + i - 1]
  BY ONLY <1>1, <1>2, SubSeqProperties
<1>5. SubSeq(x, m, n) = SubSeq(x, b + 1, Len(x))
  BY DEF m, n
<1> QED
  BY <1>1, <1>3, <1>4, <1>5

\* The beginning of a sequence, from its bytes.
LEMMA FrontIs ==
  ASSUME NEW w \in Seq(Byte), NEW got \in Seq(Byte), NEW n \in Nat,
         Len(got) <= n, Len(got) <= Len(w), Len(got) = n \/ Len(w) <= Len(got),
         \A i \in 1 .. Len(got) : got[i] = w[i]
  PROVE  got = SubSeq(w, 1, Least(n, Len(w)))
<1>1. Least(n, Len(w)) = Len(got)
  BY DEF Least
<1> DEFINE m == Len(got)
           v == SubSeq(w, 1, m)
<1>2. \A i \in 1 .. m : w[i] \in Byte
  OBVIOUS
<1>3. m \in Int /\ 1 \in Int /\ m - 1 + 1 = m /\ (IF 1 <= m THEN m ELSE 0) = m
  OBVIOUS
<1> HIDE DEF m
<1>4. /\ v \in Seq(Byte)
      /\ Len(v) = IF 1 <= m THEN m - 1 + 1 ELSE 0
      /\ \A i \in 1 .. m - 1 + 1 : v[i] = w[1 + i - 1]
  BY ONLY <1>2, <1>3, SubSeqProperties
<1>5. v \in Seq(Byte) /\ Len(v) = Len(got) /\ \A i \in 1 .. m : v[i] = w[i]
  <2>1. \A i \in 1 .. m : 1 + i - 1 = i
    OBVIOUS
  <2> HIDE DEF v
  <2>2. Len(v) = m
    BY ONLY <1>3, <1>4
  <2>3. \A i \in 1 .. m : v[i] = w[i]
    BY ONLY <1>3, <1>4, <2>1
  <2> QED
    BY <1>4, <2>2, <2>3 DEF m
<1> HIDE DEF v
<1>6. v = got
  BY <1>5, SameBytes DEF m
<1> QED
  BY <1>1, <1>6 DEF v, m

LEMMA ComingIs ==
  ASSUME NEW f, Serves(f), NEW e \in Seq(Byte), NEW got, got = Back(f) \o e, NEW n \in Nat,
         \A i \in 1 .. Len(e) : Base(f) + i <= Len(f.file) /\ e[i] = f.file[Base(f) + i],
         Len(got) <= n, Len(got) = n \/ Len(f.file) <= Base(f) + Len(e)
  PROVE  /\ got = SubSeq(Coming(f), 1, Least(n, Len(Coming(f))))
         /\ Len(got) = Len(Back(f)) + Len(e)
<1> DEFINE b == Back(f)
           p == Base(f)
           t == SubSeq(f.file, p + 1, Len(f.file))
           w == b \o t
           L == Len(f.file)
<1>1. f.file \in Seq(Byte) /\ p \in Nat /\ L \in Nat /\ Typed(f)
  BY ServesDoes
<1>2. b \in Seq(Byte) /\ Len(b) \in Nat /\ Len(e) \in Nat
  BY <1>1, BackIs
<1>3. t \in Seq(Byte) /\ Len(t) = Most(0, L - p)
      /\ \A i \in 1 .. L - p : t[i] = f.file[p + i]
  BY <1>1, SubSeqIs
<1> HIDE DEF b, p, t
<1>4. /\ w \in Seq(Byte) /\ Len(w) = Len(b) + Len(t)
      /\ \A i \in 1 .. Len(b) + Len(t) : w[i] = IF i <= Len(b) THEN b[i] ELSE t[i - Len(b)]
  BY <1>2, <1>3, ConcatProperties
<1>5. got = b \o e
  BY DEF b
<1>6. /\ got \in Seq(Byte) /\ Len(got) = Len(b) + Len(e)
      /\ \A i \in 1 .. Len(b) + Len(e) : got[i] = IF i <= Len(b) THEN b[i] ELSE e[i - Len(b)]
  BY ONLY <1>2, <1>5, e \in Seq(Byte), ConcatProperties
<1> HIDE DEF w
<1>7. \A i \in 1 .. Len(e) : p + i <= L /\ e[i] = f.file[p + i]
  BY DEF p
<1>8. Len(e) <= Len(t) /\ (Len(got) = n \/ Len(t) <= Len(e)) /\ Len(t) \in Nat
  <2>1. Len(e) = 0 \/ p + Len(e) <= L
    <3>1. CASE Len(e) # 0
      <4>1. Len(e) \in 1 .. Len(e)
        BY <1>2, <3>1
      <4> QED
        BY <1>7, <4>1
    <3> QED
      BY <3>1
  <2>2. Len(got) = n \/ L <= p + Len(e)
    BY DEF p
  <2> HIDE DEF L
  <2>3. Len(t) = Most(0, L - p)
    BY <1>3
  <2>4. L \in Nat /\ p \in Nat /\ Len(e) \in Nat
    BY <1>1, <1>2
  <2> QED
    BY ONLY <2>1, <2>2, <2>3, <2>4 DEF Most
<1>9. ASSUME NEW i \in 1 .. Len(got) PROVE got[i] = w[i]
  <2>0. i \in Nat \ {0} /\ i <= Len(b) + Len(e)
    BY <1>2, <1>6
  <2>1. CASE i <= Len(b)
    BY <1>2, <1>4, <1>6, <1>8, <2>0, <2>1
  <2>2. CASE ~(i <= Len(b))
    <3> DEFINE j == i - Len(b)
    <3>1. j \in 1 .. Len(e)
      BY ONLY <1>2, <2>0, <2>2
    <3>2. got[i] = e[j] /\ w[i] = t[j]
      <4>1. i \in 1 .. Len(b) + Len(e) /\ i \in 1 .. Len(b) + Len(t)
        BY ONLY <1>2, <1>8, <2>0
      <4> QED
        BY <1>4, <1>6, <2>2, <4>1
    <3> HIDE DEF j
    <3>3. e[j] = f.file[p + j] /\ p + j <= L
      BY <1>7, <3>1
    <3>4. j \in 1 .. L - p
      BY ONLY <1>1, <1>2, <3>1, <3>3
    <3> QED
      BY <1>3, <3>2, <3>3, <3>4
  <2> QED
    BY <2>1, <2>2
<1>10. Len(got) <= Len(w) /\ (Len(got) = n \/ Len(w) <= Len(got))
  BY <1>2, <1>4, <1>6, <1>8
<1>11. got = SubSeq(w, 1, Least(n, Len(w)))
  <2>1. w \in Seq(Byte) /\ got \in Seq(Byte) /\ n \in Nat /\ Len(got) <= n
    BY <1>4, <1>6
  <2> QED
    BY ONLY <1>9, <1>10, <2>1, FrontIs
<1>12. w = Coming(f)
  BY DEF w, t, b, p, Coming
<1> QED
  BY <1>6, <1>11, <1>12 DEF b

\* getc returns the next character, if there is one.
LEMMA GetcInput ==
  ASSUME NEW f, Serves(f), Going(f), NEW g, g = Getc(f),
         NEW got, got = IF g.ret = EOF THEN <<>> ELSE <<g.ret>>
  PROVE  IsInput(g, f, 1, got)
<1>0. Typed(f) /\ Base(f) \in Nat /\ Len(f.file) \in Nat /\ f.file \in Seq(Byte)
  BY ServesDoes
<1>1. Back(f) \in Seq(Byte) /\ Len(Back(f)) = IF f.pushed THEN 1 ELSE 0
  BY <1>0, BackIs
<1>2. IF f.pushed THEN IsReturned(g, f) ELSE IsFetched(g, f, Base(f))
  BY GetcIs
<1>3. CASE f.pushed
  <2> DEFINE e == <<>>
             c == f.pushc
  <2>1. g.ret = c /\ c \in Byte
    BY <1>0, <1>2, <1>3 DEF IsReturned, Typed
  <2>2. Back(f) = <<c>> /\ got = <<c>>
    BY <1>3, <2>1, EofNoByte DEF Back
  <2> HIDE DEF c
  <2>3. got = Back(f) \o e /\ e \in Seq(Byte) /\ Len(e) = 0 /\ Len(got) = 1
    BY <2>1, <2>2
  <2> HIDE DEF e
  <2>4. \A i \in 1 .. Len(e) : Base(f) + i <= Len(f.file) /\ e[i] = f.file[Base(f) + i]
    BY <2>3
  <2>5. Len(got) <= 1 /\ (Len(got) = 1 \/ Len(f.file) <= Base(f) + Len(e)) /\ 1 \in Nat
    BY <2>3
  <2>6. got = SubSeq(Coming(f), 1, Least(1, Len(Coming(f))))
    BY ONLY Serves(f), <2>3, <2>4, <2>5, ComingIs
  <2>7. Pos(g) = Base(f) - Len(Back(f)) + Len(got)
    BY <1>0, <1>1, <1>2, <1>3, <2>3 DEF IsReturned
  <2>8. got # <<>>
    BY <2>3
  <2> QED
    BY <1>2, <1>3, <2>6, <2>7, <2>8 DEF IsInput, IsReturned
<1>4. CASE ~f.pushed
  <2> DEFINE c == g.ret
  <2>1. IsFetched(g, f, Base(f)) /\ Back(f) = <<>> /\ Len(Back(f)) = 0
    BY <1>1, <1>2, <1>4 DEF Back
  <2>2. /\ got \in Seq(Byte)
        /\ \A i \in 1 .. Len(got) : /\ Base(f) + i <= Len(f.file)
                                    /\ got[i] = f.file[Base(f) + i]
        /\ Len(got) <= 1 /\ (Len(got) = 1 \/ Len(f.file) <= Base(f) + Len(got))
        /\ Pos(g) = Base(f) + Len(got)
    <3>1. CASE g.eof
      <4>1. got = <<>> /\ Len(f.file) <= Base(f) /\ Pos(g) = Base(f)
        BY <2>1, <3>1 DEF IsFetched, IsTaken
      <4>2. got \in Seq(Byte) /\ Len(got) = 0 
        BY <4>1
      <4>3. \A i \in 1 .. Len(got) : /\ Base(f) + i <= Len(f.file)
                                   /\ got[i] = f.file[Base(f) + i]
        BY <4>2
      <4>4. /\ Len(got) <= 1 /\ Len(f.file) <= Base(f) + Len(got) /\ Pos(g) = Base(f) + Len(got)
        BY <1>0, <4>1, <4>2
      <4> QED
        BY <4>2, <4>3, <4>4
    <3>2. CASE ~g.eof
      <4>1. Base(f) < Len(f.file) /\ c = f.file[Base(f) + 1] /\ Pos(g) = Base(f) + 1
        BY <2>1, <3>2 DEF IsFetched, IsTaken
      <4>2. c \in Byte
        BY <1>0, <4>1
      <4>3. got = <<c>>
        BY <4>2, EofNoByte
      <4> HIDE DEF c
      <4>4. got \in Seq(Byte) /\ Len(got) = 1 /\ got[1] = c 
        BY <4>2, <4>3
      <4>5. ASSUME NEW i \in 1 .. Len(got)
            PROVE  Base(f) + i <= Len(f.file) /\ got[i] = f.file[Base(f) + i]
        <5>1. i = 1
          BY <4>4
        <5> QED
          BY <1>0, <4>1, <4>4, <5>1
      <4>6. Len(got) = 1 /\ Pos(g) = Base(f) + Len(got)
        BY <1>0, <4>1, <4>4
      <4> QED
        BY <4>4, <4>5, <4>6
    <3> QED
      BY <3>1, <3>2
  <2>3. got = Back(f) \o got
    BY <2>1, <2>2, ConcatEmptySeq
  <2>4. got = SubSeq(Coming(f), 1, Least(1, Len(Coming(f))))
    <3>1. Len(got) <= 1 /\ (Len(got) = 1 \/ Len(f.file) <= Base(f) + Len(got)) /\ 1 \in Nat
          /\ got \in Seq(Byte)
      BY ONLY <2>2
    <3>2. \A i \in 1 .. Len(got) : /\ Base(f) + i <= Len(f.file)
                                 /\ got[i] = f.file[Base(f) + i]
      BY <2>2
    <3> QED
      BY ONLY Serves(f), <2>3, <3>1, <3>2, ComingIs
  <2>5. Pos(g) = Base(f) - Len(Back(f)) + Len(got)
    <3>1. Base(f) \in Nat /\ Len(Back(f)) = 0 /\ Pos(g) = Base(f) + Len(got)
          /\ Len(got) \in Nat
      BY <1>0, <2>1, <2>2
    <3> QED
      BY ONLY <3>1
  <2> QED
    BY <1>4, <2>1, <2>4, <2>5 DEF IsInput, IsFetched
<1> QED
  BY <1>3, <1>4

\* The first round of fread, when the stream was not used before.

LEMMA DrewLeft ==
  ASSUME NEW x, x.left \in Nat, NEW q, NEW e, Drew(q, x, e)
  PROVE  q.left \in Nat /\ Len(e) \in Nat
<1>1. e \in Seq(Byte) /\ Len(e) <= x.left
  BY DEF Drew
<1>2. Len(e) \in Nat
  BY <1>1
<1>3. q.left = x.left - Len(e) \/ q.left = 0
  BY DEF Drew
<1> QED
  BY ONLY x.left \in Nat, <1>1, <1>2, <1>3

\* fread begins with what was pushed back.
Begins(x, f, n) ==
  /\ Serves(x.f) /\ ~x.f.pushed /\ ~x.f.eof /\ x.f.mode = f.mode /\ x.f.file = f.file
  /\ Base(x.f) = Base(f) /\ x.got = Back(f) /\ x.left = n - Len(Back(f))
  /\ x.left \in Nat /\ x.got \in Seq(Byte)

LEMMA FirstIs ==
  ASSUME NEW f, Serves(f), ~f.eof, NEW n \in Nat \ {0},
         NEW start, start = [f |-> f, got |-> <<>>, left |-> n],
         NEW first, first = IF ~f.seen \/ ~Buffered(f) \/ f.pushed THEN ReadOne(start)
                            ELSE start
  PROVE  \E x, e : Begins(x, f, n) /\ Drew(first, x, e) /\ first.left <= n
<1>0. /\ Typed(f) /\ Base(f) \in Nat /\ f.pushc \in Byte
      /\ f.bufp <= f.getl /\ f.bufp \in Nat /\ f.getl \in Nat
      /\ ~Buffered(f) => f.bufp = 0 /\ f.getl = 0 /\ f.pushbufp = 0
  <2>1. Typed(f)
    BY ServesDoes
  <2>2. f.pushc \in Byte
    BY <2>1 DEF Typed
  <2> QED
    BY <2>2, ServesDoes
<1>1. start.f = f /\ start.got = <<>> /\ start.left = n
  OBVIOUS
<1>2. CASE f.pushed
  <2> DEFINE g == FillBf(f)
             c == f.pushc
             x == [f |-> g, got |-> Append(<<>>, g.ret), left |-> n - 1]
  <2>1. /\ Serves(g) /\ g.mode = f.mode /\ g.file = f.file /\ ~g.pushed /\ ~g.eof
        /\ g.ret = c /\ Pos(g) = Base(f)
    BY <1>2, PushedIs DEF IsReturned
  <2> HIDE DEF g
  <2>2. c \in Byte /\ c # EOF /\ Append(<<>>, c) = <<c>>
    BY <1>0, EofNoByte
  <2>3. Base(g) = Base(f)
    BY <2>1, ServesDoes
  <2>4. first = x
    <3>1. first = Took(g, start)
      BY <1>1, <1>2 DEF ReadOne, g
    <3> QED
      BY <1>1, <2>1, <2>2, <3>1 DEF Took
  <2>5. x.f = g /\ x.got = Append(<<>>, g.ret) /\ x.left = n - 1
    OBVIOUS
  <2> HIDE DEF x, c
  <2>6. x.got = Back(f) /\ x.got \in Seq(Byte) /\ Len(Back(f)) = 1
    <3>1. x.got = <<c>>
      BY <2>1, <2>2, <2>5
    <3> QED
      BY <1>2, <2>2, <3>1 DEF Back, c
  <2>7. Begins(x, f, n)
    <3>1. x.left = n - Len(Back(f)) /\ x.left \in Nat
      BY <2>5, <2>6
    <3> QED
      BY <2>1, <2>3, <2>5, <2>6, <3>1 DEF Begins
  <2>8. Drew(x, x, <<>>)
    BY <2>7, DrewNone DEF Begins
  <2>9. first.left <= n
    BY <2>4, <2>5
  <2> QED
    BY <2>4, <2>7, <2>8, <2>9
<1>3. CASE ~f.pushed
  <2>1. Back(f) = <<>> /\ Len(Back(f)) = 0 /\ <<>> \in Seq(Byte)
    BY <1>3 DEF Back
  <2> HIDE DEF Back
  <2>2. Begins(start, f, n)
    BY <1>1, <1>3, <2>1 DEF Begins
  <2>3. CASE first = start
    <3>1. Drew(start, start, <<>>)
      BY <2>2, DrewNone DEF Begins
    <3>2. first.left <= n
      BY <1>1, <2>3
    <3> QED
      BY <2>2, <2>3, <3>1, <3>2
  <2>4. CASE first # start
    <3>1. first = ReadOne(start) /\ (~f.seen \/ ~Buffered(f))
      BY <1>3, <2>4
    <3>2. f.bufp = f.getl
      <4>1. Touched(f)
        BY DEF Serves
      <4>2. ~f.seen => f.getl = 0
        BY <1>0, <4>1 DEF Touched
      <4>3. f.getl = 0
        BY <1>0, <3>1, <4>2
      <4> QED
        BY <1>0, <4>3
    <3>3. /\ Serves(start.f) /\ ~start.f.pushed /\ ~start.f.eof /\ start.f.bufp = start.f.getl
          /\ start.left \in Nat \ {0} /\ start.got \in Seq(Byte)
      BY <1>1, <1>3, <2>1, <3>2
    <3>4. PICK e : Drew(ReadOne(start), start, e) /\ ReadOne(start).left < start.left
      BY <3>3, ReadOneIs
    <3>5. first.left <= n
      <4>1. first.left \in Nat /\ first.left < n
        BY <1>1, <3>1, <3>4, DrewLeft
      <4> QED
        BY ONLY <4>1, n \in Nat \ {0}
    <3> QED
      BY <2>2, <3>1, <3>4, <3>5
  <2> QED
    BY <2>3, <2>4
<1> QED
  BY <1>2, <1>3

\* A round of the loop of fread.
LEMMA RoundIs ==
  ASSUME NEW f, NEW n, NEW x, Begins(x, f, n), NEW r, NEW d, Drew(r, x, d),
         NEW q, q = ReadOn(r), NEW k \in Nat, r.left <= k + 1
  PROVE  \E e : Drew(q, x, e) /\ q.left <= k
<1>1. Serves(x.f) /\ x.left \in Nat /\ x.got \in Seq(Byte)
  BY DEF Begins
<1>2. r.left \in Nat
  BY <1>1, DrewLeft
<1>3. CASE r.left = 0
  <2>1. q = r
    BY <1>3 DEF ReadOn
  <2> QED
    BY <1>3, <2>1
<1>4. CASE r.left # 0
  <2>1. q = ReadMore(r) /\ ~r.f.eof /\ Serves(r.f) /\ ~r.f.pushed
    BY <1>4 DEF ReadOn, Drew
  <2>2. r.got \in Seq(Byte)
    BY <1>1, ConcatProperties DEF Drew
  <2>3. PICK e : Drew(q, r, e) /\ q.left < r.left
    BY <1>2, <1>4, <2>1, <2>2, ReadMoreIs
  <2>4. Drew(q, x, d \o e)
    BY <1>1, <1>4, <2>1, <2>3, DrewChain
  <2>5. q.left \in Nat /\ q.left < r.left
    BY <1>2, <2>3, DrewLeft
  <2>6. q.left <= k
    BY <1>2, <2>5
  <2> QED
    BY <2>4, <2>6
<1> QED
  BY <1>3, <1>4

\* fread returns the next n characters, or what there is.
LEMMA FreadIs ==
  ASSUME NEW f, Serves(f), Going(f), NEW n \in Nat \ {0}, NEW g, g = Fread(f, n)
  PROVE  IsInput(g, f, n, g.ret)
<1>0. /\ Typed(f) /\ Base(f) \in Nat /\ Len(f.file) \in Nat /\ ~f.error
      /\ f.eof => ~f.pushed
      /\ f.eof => (Buffered(f) => Len(f.file) <= Base(f) /\ Pos(f) = Base(f))
  BY ServesDoes
<1>1. CASE f.eof
  <2> DEFINE e == <<>>
  <2>1. g = [f EXCEPT !.ret = e]
    BY <1>1 DEF Fread
  <2>2. ~f.pushed /\ Len(f.file) <= Base(f) /\ Pos(f) = Base(f)
    BY <1>0, <1>1 DEF Going
  <2>3. e \in Seq(Byte) /\ Len(e) = 0 /\ Back(f) = <<>> /\ e = <<>>
    BY <2>2 DEF Back
  <2> HIDE DEF e
  <2>4. e = Back(f) \o e
    BY <2>3
  <2>5. e = SubSeq(Coming(f), 1, Least(n, Len(Coming(f)))) /\ Len(Back(f)) = 0
    <3>1. \A i \in 1 .. Len(e) : Base(f) + i <= Len(f.file) /\ e[i] = f.file[Base(f) + i]
      BY <2>3
    <3>2. Len(e) <= n /\ (Len(e) = n \/ Len(f.file) <= Base(f) + Len(e))
          /\ e \in Seq(Byte) /\ n \in Nat
      BY <1>0, <2>2, <2>3
    <3>3. e = SubSeq(Coming(f), 1, Least(n, Len(Coming(f))))
      BY ONLY Serves(f), <2>4, <3>1, <3>2, ComingIs, SMTT(30)
    <3> QED
      BY ONLY <2>3, <3>3
  <2>6. Alike(g, f) /\ g.ret = e /\ g.seen = f.seen
    <3>1. g.ret = e /\ g.seen = f.seen
      BY <1>0, <2>1 DEF Typed
    <3> QED
      BY <1>0, <2>1, <3>1, RetAlike
  <2>7. Serves(g) /\ g.mode = f.mode /\ g.file = f.file /\ ~g.pushed /\ Pos(g) = Base(f)
    BY <2>2, <2>6, ServesAlike
  <2>8. Pos(g) = Base(f) - Len(Back(f)) + Len(e)
    BY <1>0, <2>3, <2>5, <2>7
  <2> QED
    BY <2>2, <2>5, <2>6, <2>7, <2>8 DEF IsInput
<1>2. CASE ~f.eof
  <2> DEFINE start == [f |-> f, got |-> <<>>, left |-> n]
             first == IF ~f.seen \/ ~Buffered(f) \/ f.pushed THEN ReadOne(start)
                      ELSE start
             all   == CHOOSE a : a = [i \in 0 .. n |-> IF i = 0 THEN first
                                                       ELSE ReadOn(a[i - 1])]
  <2>2. g = Delivered(all[n])
    BY <1>0, <1>2 DEF Fread
  <2>3. \E x, e : Begins(x, f, n) /\ Drew(first, x, e) /\ first.left <= n
    BY <1>2, FirstIs
  <2> HIDE DEF first, start
  <2>4. all = [i \in 0 .. n |-> IF i = 0 THEN first ELSE ReadOn(all[i - 1])]
    <3>1. \E a : IsReadLoop(a, n, first)
      BY ReadLoop
    <3>2. all = CHOOSE a : IsReadLoop(a, n, first)
      BY DEF IsReadLoop
    <3> HIDE DEF all
    <3>3. IsReadLoop(all, n, first)
      BY <3>1, <3>2
    <3> QED
      BY <3>3 DEF IsReadLoop
  <2> HIDE DEF all
  <2>5. PICK x : \E e : Begins(x, f, n) /\ Drew(first, x, e) /\ first.left <= n
    BY <2>3
  <2> DEFINE Good(k) == \E e : Drew(all[k], x, e) /\ all[k].left <= n - k
             T == {k \in Nat : k <= n => Good(k)}
  <2>6. Begins(x, f, n)
    BY <2>5
  <2>7. 0 \in T
    <3>1. all[0] = first /\ n - 0 = n
      BY <2>4
    <3>2. Good(0)
      BY <2>5, <3>1
    <3> QED
      BY <3>2
  <2>8. ASSUME NEW k \in Nat, k \in T PROVE k + 1 \in T
    <3>1. SUFFICES ASSUME k + 1 <= n PROVE Good(k + 1)
      OBVIOUS
    <3>2. k <= n /\ n - k = (n - (k + 1)) + 1 /\ n - (k + 1) \in Nat
      BY <3>1
    <3>3. PICK d : Drew(all[k], x, d) /\ all[k].left <= n - k
      BY <2>8, <3>2
    <3>4. all[k + 1] = ReadOn(all[k])
      BY <2>4, <3>1
    <3> DEFINE r == all[k]
               q == all[k + 1]
               j == n - (k + 1)
    <3>5. Drew(r, x, d) /\ q = ReadOn(r) /\ j \in Nat /\ r.left <= j + 1
      BY <3>2, <3>3, <3>4
    <3> HIDE DEF r, q, j
    <3>6. \E e : Drew(q, x, e) /\ q.left <= j
      BY ONLY <2>6, <3>5, RoundIs
    <3> QED
      BY <3>6 DEF q, j
  <2>9. n \in T
    <3> HIDE DEF T
    <3> QED
      BY <2>7, <2>8, SetInduction
  <2>10. PICK e : Drew(all[n], x, e) /\ all[n].left <= n - n
    BY <2>9
  <2> DEFINE r == all[n]
  <2> HIDE DEF r
  <2>11. Drew(r, x, e) /\ g = [r.f EXCEPT !.ret = r.got] /\ r.left <= 0
    <3>1. n - n = 0
      OBVIOUS
    <3> QED
      BY <2>2, <2>10, <3>1 DEF r, Delivered
  <2>12. r.left = 0
    <3>1. r.left \in Nat
      BY <2>6, <2>11, DrewLeft DEF Begins
    <3> QED
      BY <2>11, <3>1
  <2> DEFINE h == r.f
             v == r.got
  <2>13. /\ Serves(h) /\ h.mode = f.mode /\ h.file = f.file /\ ~h.pushed
         /\ e \in Seq(Byte) /\ v = Back(f) \o e /\ Len(e) <= n - Len(Back(f))
         /\ \A i \in 1 .. Len(e) : Base(f) + i <= Len(f.file) /\ e[i] = f.file[Base(f) + i]
         /\ Pos(h) = Base(f) + Len(e)
         /\ 0 = n - Len(Back(f)) - Len(e) \/ Len(f.file) <= Base(f) + Len(e)
    BY <2>6, <2>11, <2>12 DEF Begins, Drew
  <2> HIDE DEF h, v
  <2>14. g = [h EXCEPT !.ret = v]
    BY <2>11 DEF h, v
  <2>15. Back(f) \in Seq(Byte) /\ Len(Back(f)) = IF f.pushed THEN 1 ELSE 0
    BY <1>0, BackIs
  <2>16. Len(v) = Len(Back(f)) + Len(e) /\ Len(e) \in Nat /\ Len(Back(f)) \in Nat
    <3>1. e \in Seq(Byte) /\ v = Back(f) \o e
      BY <2>13
    <3> DEFINE b == Back(f)
    <3>2. b \in Seq(Byte) /\ v = b \o e
      BY <2>15, <3>1
    <3> HIDE DEF b
    <3>3. Len(v) = Len(b) + Len(e)
      BY ONLY <3>1, <3>2, ConcatProperties
    <3>4. Len(b) \in Nat /\ Len(e) \in Nat
      BY ONLY <3>1, <3>2
    <3> QED
      BY <3>3, <3>4 DEF b
  <2>17. v = SubSeq(Coming(f), 1, Least(n, Len(Coming(f))))
    <3>1. Len(v) <= n /\ (Len(v) = n \/ Len(f.file) <= Base(f) + Len(e)) /\ n \in Nat
      BY <2>13, <2>16
    <3>2. /\ e \in Seq(Byte) /\ v = Back(f) \o e
          /\ \A i \in 1 .. Len(e) : /\ Base(f) + i <= Len(f.file)
                                    /\ e[i] = f.file[Base(f) + i]
      BY <2>13
    <3> QED
      BY ONLY Serves(f), <3>1, <3>2, ComingIs, ZenonT(60)
  <2>18. Alike(g, h) /\ g.ret = v /\ g.seen = h.seen
    <3>1. Typed(h)
      BY <2>13, ServesDoes
    <3>2. g.ret = v /\ g.seen = h.seen
      BY <2>14, <3>1 DEF Typed
    <3> QED
      BY <2>14, <3>1, <3>2, RetAlike
  <2>19. Serves(g) /\ g.mode = f.mode /\ g.file = f.file /\ ~g.pushed
         /\ Pos(g) = Base(f) + Len(e)
    BY <2>13, <2>18, ServesAlike
  <2>20. Pos(g) = Base(f) - Len(Back(f)) + Len(v)
    BY <1>0, <2>16, <2>19
  <2>21. v = <<>> => ~f.pushed
    <3>1. v = <<>> => Len(v) = 0
      OBVIOUS
    <3> QED
      BY <2>15, <2>16, <3>1
  <2> QED
    BY <2>17, <2>18, <2>19, <2>20, <2>21 DEF IsInput
<1> QED
  BY <1>1, <1>2

-----------------------------------------------------------------------------
(* Output.                                                                 *)

\* z is the file x after d was written at at, which makes it y, and then e.
IsTwice(x, at, d, e, y, z) ==
  /\ z = Fileof(x, at, d \o e)
  /\ y \in Seq(Byte) /\ z \in Seq(Byte) /\ Len(y) <= Len(z) /\ Len(y) \in Nat
  /\ at + Len(d) <= Len(y)
  /\ \A i \in 1 .. Len(y) : i <= at + Len(d) => z[i] = y[i]

LEMMA FileofTwice ==
  ASSUME NEW x \in Seq(Byte), NEW at \in Nat, at <= Len(x),
         NEW d \in Seq(Byte), NEW e \in Seq(Byte),
         NEW y, y = Fileof(x, at, d), NEW z, z = Fileof(y, at + Len(d), e)
  PROVE  IsTwice(x, at, d, e, y, z)
<1> DEFINE m == Len(d)
           n == Len(e)
           q == at + m
           b == d \o e
<1>1. m \in Nat /\ n \in Nat /\ q \in Nat /\ Len(x) \in Nat
  OBVIOUS
<1>2. /\ b \in Seq(Byte) /\ Len(b) = m + n
      /\ \A i \in 1 .. m + n : b[i] = IF i <= m THEN d[i] ELSE e[i - m]
  BY ConcatProperties
<1>3. /\ y \in Seq(Byte) /\ Len(y) = Most(Len(x), q) /\ Len(y) \in Nat
      /\ Len(x) <= Len(y) /\ q <= Len(y)
      /\ \A i \in 1 .. Len(y) : y[i] = IF at < i /\ i <= q THEN d[i - at] ELSE x[i]
  BY FileofIs
<1> HIDE DEF b
<1>4. /\ z \in Seq(Byte) /\ Len(z) = Most(Len(y), q + n) /\ Len(z) \in Nat
      /\ Len(y) <= Len(z)
      /\ \A i \in 1 .. Len(z) : z[i] = IF q < i /\ i <= q + n THEN e[i - q] ELSE y[i]
      /\ \A i \in 1 .. Len(z) : i <= Len(y) \/ i <= q + n
  <2> HIDE DEF q
  <2>1. q <= Len(y) /\ q \in Nat /\ y \in Seq(Byte) /\ e \in Seq(Byte) /\ z = Fileof(y, q, e)
    BY <1>1, <1>3 DEF q
  <2>2. /\ z \in Seq(Byte) /\ Len(z) = Most(Len(y), q + Len(e)) /\ Len(z) \in Nat
        /\ Len(y) <= Len(z)
        /\ \A i \in 1 .. Len(z) :
             z[i] = IF q < i /\ i <= q + Len(e) THEN e[i - q] ELSE y[i]
        /\ \A i \in 1 .. Len(z) : i <= Len(y) \/ i <= q + Len(e)
    BY ONLY <2>1, FileofIs
  <2> QED
    BY <2>2
<1>5. PICK w : w = Fileof(x, at, b)
  OBVIOUS
<1>6. /\ w \in Seq(Byte) /\ Len(w) = Most(Len(x), at + Len(b)) /\ Len(w) \in Nat
      /\ \A i \in 1 .. Len(w) : w[i] = IF at < i /\ i <= at + Len(b) THEN b[i - at] ELSE x[i]
  <2>1. x \in Seq(Byte) /\ at \in Nat /\ at <= Len(x) /\ b \in Seq(Byte)
    BY <1>2
  <2> QED
    BY ONLY <1>5, <2>1, FileofIs
<1>7. Len(z) = Len(w)
  <2> HIDE DEF m, n
  <2>1. Len(y) = Most(Len(x), at + m)
    BY <1>3
  <2>2. Len(z) = Most(Len(y), at + m + n) /\ Len(w) = Most(Len(x), at + (m + n))
    BY <1>2, <1>4, <1>6
  <2> QED
    BY ONLY <1>1, <2>1, <2>2, at \in Nat, SMTT(30) DEF Most
<1>8. ASSUME NEW i \in 1 .. Len(z) PROVE z[i] = w[i]
  <2>0. i \in Nat \ {0} /\ i \in 1 .. Len(w)
    BY <1>4, <1>7
  <2>00. w[i] = IF at < i /\ i <= at + (m + n) THEN b[i - at] ELSE x[i]
    BY <1>2, <1>6, <2>0
  <2> HIDE DEF m, n
  <2>1. CASE q < i /\ i <= q + n
    <3>1. z[i] = e[i - q]
      BY <1>4, <2>1
    <3>2. at < i /\ i <= at + (m + n) /\ i - at \in 1 .. m + n /\ ~(i - at <= m)
          /\ i - at - m = i - q
      BY ONLY <1>1, <2>0, <2>1, at \in Nat
    <3>3. w[i] = b[i - at] /\ b[i - at] = e[i - at - m]
      BY <1>2, <2>00, <3>2
    <3> QED
      BY <3>1, <3>2, <3>3
  <2>2. CASE ~(q < i) /\ at < i
    <3>1. z[i] = y[i]
      BY <1>4, <2>2
    <3>2. i <= q /\ i \in 1 .. Len(y) /\ i <= at + (m + n) /\ i - at \in 1 .. m + n
          /\ i - at <= m
      BY ONLY <1>1, <1>3, <2>0, <2>2, at \in Nat
    <3>3. y[i] = d[i - at]
      BY <1>3, <2>2, <3>2
    <3>4. w[i] = b[i - at] /\ b[i - at] = d[i - at]
      BY <1>2, <2>00, <2>2, <3>2
    <3> QED
      BY <3>1, <3>3, <3>4
  <2>3. CASE ~(at < i) \/ ~(i <= q + n)
    <3>1. z[i] = y[i] /\ ~(at < i /\ i <= at + (m + n)) /\ ~(at < i /\ i <= q)
      <4>1. ~(q < i /\ i <= q + n) /\ ~(at < i /\ i <= at + (m + n)) /\ ~(at < i /\ i <= q)
        BY ONLY <1>1, <2>0, <2>3, at \in Nat
      <4> QED
        BY <1>4, <4>1
    <3>2. w[i] = x[i]
      BY <2>00, <3>1
    <3>3. i \in 1 .. Len(y)
      BY <1>1, <1>3, <1>4, <2>0, <2>3
    <3>4. y[i] = x[i]
      BY <1>3, <3>1, <3>3
    <3> QED
      BY <3>1, <3>2, <3>4
  <2> QED
    BY <2>1, <2>2, <2>3
<1>9. z = w
  BY <1>4, <1>6, <1>7, <1>8, SameBytes
<1>10. ASSUME NEW i \in 1 .. Len(y), i <= q PROVE z[i] = y[i]
  <2>1. i \in 1 .. Len(z) /\ ~(q < i)
    BY <1>1, <1>3, <1>4, <1>10
  <2> QED
    BY <1>4, <2>1
<1> QED
  BY <1>3, <1>4, <1>5, <1>9, <1>10 DEF b, IsTwice

\* g is f after the program wrote d: what of it is in the file, and, when no
\* write failed, all of it in the file or the buffer.
Carried(g, f, d) ==
  /\ Typed(g) /\ g.mode = f.mode
  /\ Part(g.file, f.file, Fileof(Outcome(f), Spot(f), d), Spot(f) + Len(d))
  /\ ~g.error => /\ Writes(g) /\ Roomy(g) /\ Faithful(g, g.bufp)
                 /\ Outcome(g) = Fileof(Outcome(f), Spot(f), d)
                 /\ Spot(g) = Spot(f) + Len(d)

\* A stream that may be written to.
Outs(f) == Writes(f) /\ Rested(f) /\ Faithful(f, f.bufp)

LEMMA OutsDoes ==
  ASSUME NEW f, Outs(f)
  PROVE  /\ Typed(f) /\ Shape(f) /\ Safe(f) /\ f.mode.write /\ ~f.error /\ ~f.pushed /\ ~f.eof
         /\ f.file \in Seq(Byte) /\ Len(f.file) \in Nat /\ f.bufp \in 0 .. BufSize
         /\ OutAt(f) \in Nat /\ OutAt(f) <= Len(f.file) /\ Spot(f) \in Nat
         /\ Outcome(f) \in Seq(Byte) /\ Spot(f) <= Len(Outcome(f))
         /\ Outcome(f) = Fileof(f.file, OutAt(f), Slice(f, 0, f.bufp))
         /\ f.mode.append => Spot(f) = Len(Outcome(f))
         /\ Bare(f) /\ Modest(f.mode)
<1>1. /\ Writes(f) /\ Bare(f) /\ Modest(f.mode) /\ Safe(f) /\ f.mode.write /\ ~f.eof /\ ~f.pushed
      /\ Typed(f) /\ Shape(f) /\ ~f.error
  BY DEF Outs, Faithful, Writes, Safe, Shape
<1>2. /\ OutAt(f) \in Nat /\ OutAt(f) <= Len(f.file) /\ Spot(f) \in Nat
      /\ f.bufp \in 0 .. BufSize /\ Len(f.file) \in Nat /\ Spot(f) = OutAt(f) + f.bufp
  BY <1>1, SpotType DEF Spot
<1>3. f.file \in Seq(Byte)
  BY <1>1 DEF Typed
<1>4. Roomy(f) \/ f.bufp = 0
  BY DEF Outs, Rested, Roomy
<1> DEFINE d == Slice(f, 0, f.bufp)
<1>5. d \in Seq(Byte) /\ Len(d) = f.bufp /\ Outcome(f) = Fileof(f.file, OutAt(f), d)
  BY <1>1, <1>4, OutcomeIs
<1> HIDE DEF d
<1>6. PICK y : y = Fileof(f.file, OutAt(f), d)
  OBVIOUS
<1>7. /\ y \in Seq(Byte) /\ Len(y) = Most(Len(f.file), OutAt(f) + Len(d))
      /\ OutAt(f) + Len(d) <= Len(y)
  <2>1. /\ f.file \in Seq(Byte) /\ OutAt(f) \in Nat /\ OutAt(f) <= Len(f.file)
        /\ d \in Seq(Byte)
    BY <1>2, <1>3, <1>5
  <2> QED
    BY ONLY <1>6, <2>1, FileofIs
<1>8. f.mode.append => Spot(f) = Len(y)
  <2>1. HAVE f.mode.append
  <2>2. OutAt(f) = Len(f.file)
    BY <2>1 DEF OutAt
  <2>3. Most(Len(f.file), Len(f.file) + f.bufp) = Len(f.file) + f.bufp
    BY <1>2 DEF Most
  <2> QED
    BY <1>2, <1>5, <1>7, <2>2, <2>3
<1> QED
  BY <1>1, <1>2, <1>3, <1>5, <1>6, <1>7, <1>8 DEF d

\* A stream that no write failed on may be written to again.
LEMMA CarriedOuts ==
  ASSUME NEW f, NEW g, NEW d, Carried(g, f, d), ~g.error
  PROVE  Outs(g)
BY DEF Carried, Outs, Rested, Roomy

LEMMA CarriedChain ==
  ASSUME NEW f, Outs(f), NEW d \in Seq(Byte), NEW g, Carried(g, f, d), ~g.error,
         NEW e \in Seq(Byte), NEW h, Carried(h, g, e)
  PROVE  Carried(h, f, d \o e)
<1> DEFINE x == Outcome(f)
           at == Spot(f)
           b == d \o e
<1>1. x \in Seq(Byte) /\ at \in Nat /\ at <= Len(x) /\ f.file \in Seq(Byte)
  BY OutsDoes
<1> HIDE DEF x, at
<1>2. PICK y : y = Fileof(x, at, d)
  OBVIOUS
<1>3. PICK z : z = Fileof(y, at + Len(d), e)
  OBVIOUS
<1>4. /\ z = Fileof(x, at, b)
      /\ y \in Seq(Byte) /\ z \in Seq(Byte) /\ Len(y) <= Len(z) /\ Len(y) \in Nat
      /\ at + Len(d) <= Len(y)
      /\ \A i \in 1 .. Len(y) : i <= at + Len(d) => z[i] = y[i]
  <2>1. d \in Seq(Byte) /\ e \in Seq(Byte)
    OBVIOUS
  <2>2. IsTwice(x, at, d, e, y, z)
    BY ONLY <1>1, <1>2, <1>3, <2>1, FileofTwice
  <2> QED
    BY <2>2 DEF IsTwice
<1>5. Outcome(g) = y /\ Spot(g) = at + Len(d) /\ Part(g.file, f.file, y, at + Len(d))
      /\ g.mode = f.mode /\ g.file \in Seq(Byte)
  BY <1>2 DEF Carried, Typed, x, at
<1>6. /\ Typed(h) /\ h.mode = g.mode /\ Part(h.file, g.file, z, at + Len(d) + Len(e))
      /\ h.file \in Seq(Byte)
      /\ ~h.error => /\ Writes(h) /\ Roomy(h) /\ Faithful(h, h.bufp)
                     /\ Outcome(h) = z /\ Spot(h) = at + Len(d) + Len(e)
  BY <1>3, <1>5 DEF Carried, Typed
<1>7. b \in Seq(Byte) /\ Len(b) = Len(d) + Len(e) /\ Len(d) \in Nat /\ Len(e) \in Nat
  BY ConcatProperties
<1> HIDE DEF b
<1>8. at + Len(d) + Len(e) = at + Len(b)
  BY <1>1, <1>7
<1>9. Part(h.file, f.file, z, at + Len(b))
  <2>1. at + Len(d) \in Nat /\ at + Len(b) \in Nat /\ at + Len(d) <= at + Len(b)
    BY <1>1, <1>7
  <2>2. Part(h.file, g.file, z, at + Len(b))
    BY <1>6, <1>8
  <2>3. PICK q, r : q = at + Len(d) /\ r = at + Len(b)
    OBVIOUS
  <2>4. /\ f.file \in Seq(Byte) /\ g.file \in Seq(Byte) /\ h.file \in Seq(Byte)
        /\ y \in Seq(Byte) /\ z \in Seq(Byte) /\ q \in Nat /\ r \in Nat
        /\ Part(g.file, f.file, y, q) /\ Part(h.file, g.file, z, r)
        /\ q <= r /\ Len(y) <= Len(z)
        /\ \A i \in 1 .. Len(y) : i <= q => z[i] = y[i]
    BY <1>1, <1>4, <1>5, <1>6, <2>1, <2>2, <2>3
  <2>5. Part(h.file, f.file, z, r)
    BY ONLY <2>4, PartChain
  <2> QED
    BY <2>3, <2>5
<1> QED
  BY <1>4, <1>5, <1>6, <1>8, <1>9 DEF Carried, x, at, b

\* After a failure nothing more is written.
LEMMA CarriedEnds ==
  ASSUME NEW f, Outs(f), NEW d \in Seq(Byte), NEW g, Carried(g, f, d), g.error,
         NEW e \in Seq(Byte)
  PROVE  Carried(g, f, d \o e)
<1> DEFINE x == Outcome(f)
           at == Spot(f)
           b == d \o e
<1>1. x \in Seq(Byte) /\ at \in Nat /\ at <= Len(x) /\ f.file \in Seq(Byte)
  BY OutsDoes
<1> HIDE DEF x, at
<1>2. PICK y : y = Fileof(x, at, d)
  OBVIOUS
<1>3. PICK z : z = Fileof(y, at + Len(d), e)
  OBVIOUS
<1>4. /\ z = Fileof(x, at, b)
      /\ y \in Seq(Byte) /\ z \in Seq(Byte) /\ Len(y) <= Len(z) /\ Len(y) \in Nat
      /\ \A i \in 1 .. Len(y) : i <= at + Len(d) => z[i] = y[i]
  <2>1. d \in Seq(Byte) /\ e \in Seq(Byte)
    OBVIOUS
  <2>2. IsTwice(x, at, d, e, y, z)
    BY ONLY <1>1, <1>2, <1>3, <2>1, FileofTwice
  <2> QED
    BY <2>2 DEF IsTwice
<1>5. /\ Part(g.file, f.file, y, at + Len(d)) /\ g.file \in Seq(Byte)
      /\ Typed(g) /\ g.mode = f.mode
  BY <1>2 DEF Carried, Typed, x, at
<1>6. b \in Seq(Byte) /\ Len(b) = Len(d) + Len(e) /\ Len(d) \in Nat /\ Len(e) \in Nat
  BY ConcatProperties
<1> HIDE DEF b
<1>7. Part(g.file, f.file, z, at + Len(b))
  <2>1. at + Len(d) \in Nat /\ at + Len(b) \in Nat /\ at + Len(d) <= at + Len(b)
    BY <1>1, <1>6
  <2>2. Part(g.file, g.file, z, at + Len(b))
    BY <1>5, PartSame
  <2>3. PICK q, r : q = at + Len(d) /\ r = at + Len(b)
    OBVIOUS
  <2>4. /\ f.file \in Seq(Byte) /\ g.file \in Seq(Byte)
        /\ y \in Seq(Byte) /\ z \in Seq(Byte) /\ q \in Nat /\ r \in Nat
        /\ Part(g.file, f.file, y, q) /\ Part(g.file, g.file, z, r)
        /\ q <= r /\ Len(y) <= Len(z)
        /\ \A i \in 1 .. Len(y) : i <= q => z[i] = y[i]
    BY <1>1, <1>4, <1>5, <2>1, <2>2, <2>3
  <2>5. Part(g.file, f.file, z, r)
    BY ONLY <2>4, PartChain
  <2> QED
    BY <2>3, <2>5
<1> QED
  BY <1>4, <1>5, <1>7 DEF Carried, x, at, b

-----------------------------------------------------------------------------
(* A stream is written to.  Carried says of every call what it leaves.     *)

\* What a call leaves when nothing was written by it.
LEMMA CarriedNone ==
  ASSUME NEW f, Outs(f), NEW g, Typed(g), g.mode = f.mode,
         Part(g.file, f.file, Outcome(f), Spot(f)),
         ~g.error => /\ Writes(g) /\ Roomy(g) /\ Faithful(g, g.bufp)
                     /\ Outcome(g) = Outcome(f) /\ Spot(g) = Spot(f)
  PROVE  Carried(g, f, <<>>)
<1>1. Fileof(Outcome(f), Spot(f), <<>>) = Outcome(f)
  BY DEF Fileof
<1>2. Spot(f) + Len(<<>>) = Spot(f)
  BY OutsDoes
<1> QED
  BY <1>1, <1>2 DEF Carried

LEMMA MatchLess ==
  ASSUME NEW f, Match(f, 0), NEW b \in Nat
  PROVE  Match(f, b)
BY DEF Match

LEMMA FlushCarried ==
  ASSUME NEW f, Outs(f), NEW g, g = Flshfp(f, EOF)
  PROVE  Carried(g, f, <<>>) /\ (~g.error => g.ret = 0 /\ g.bufp < BufSize + 1)
         /\ (Buffered(f) /\ ~g.error => g.bufp < BufSize)
         /\ (Roomy(f) /\ ~g.error => g.bufp = 0)
<1>1. /\ Typed(f) /\ Shape(f) /\ Safe(f) /\ f.mode.write /\ ~f.error /\ ~f.pushed /\ ~f.eof
      /\ f.file \in Seq(Byte) /\ Len(f.file) \in Nat /\ f.bufp \in 0 .. BufSize
      /\ Bare(f) /\ Modest(f.mode) /\ Writes(f) /\ Faithful(f, f.bufp) /\ Rested(f)
  BY OutsDoes DEF Outs
<1>2. ~Roomy(f) => /\ Even(f) /\ Match(f, 0) /\ f.bufp = 0
  BY <1>1 DEF Rested, Roomy, Even, Match
<1>3. IsFlushed(g, f)
  BY <1>1, <1>2, FlushIs
<1>4. g.mode = f.mode /\ Part(g.file, f.file, Outcome(f), Spot(f))
  BY <1>3 DEF IsFlushed
<1>5. CASE Stuck(g) /\ g.ret = EOF
  <2>1. Typed(g) /\ g.error
    BY <1>5 DEF Stuck, Shape
  <2> QED
    BY <1>4, <2>1, CarriedNone
<1>6. CASE ~(Stuck(g) /\ g.ret = EOF)
  <2>1. /\ Writes(g) /\ Roomy(g) /\ Even(g) /\ g.ret = 0
        /\ Faithful(g, 0) /\ (Buffered(f) => g.bufp < BufSize)
        /\ g.file = Outcome(f) /\ Outcome(g) = g.file
        /\ Roomy(f) \/ ~f.mode.append => Spot(g) = Spot(f)
        /\ Roomy(f) => g.bufp = 0
    BY <1>3, <1>6 DEF IsFlushed
  <2>2. Typed(g) /\ g.bufp \in 0 .. BufSize
    BY <2>1 DEF Writes, Safe, Shape, Typed
  <2>3. Faithful(g, g.bufp)
    BY <2>1, <2>2, MatchLess DEF Faithful
  <2>4. ASSUME ~Roomy(f), f.mode.append PROVE Spot(g) = Spot(f)
    <3>1. Buffered(f) /\ Buffered(g) /\ g.mode.append
      BY <1>4, <2>4 DEF Roomy, Buffered
    <3>2. g.bufp = 0
      BY <2>1, <3>1 DEF Even, Roomy
    <3>3. Outcome(f) = f.file
      BY <1>1, <1>2, <2>4, OutcomeLength
    <3> QED
      BY <1>2, <2>1, <2>4, <3>1, <3>2, <3>3 DEF Spot, OutAt
  <2>5. Spot(g) = Spot(f) /\ Outcome(g) = Outcome(f)
    BY <2>1, <2>4
  <2>6. Carried(g, f, <<>>)
    BY <1>4, <2>1, <2>2, <2>3, <2>5, CarriedNone
  <2> QED
    BY <2>1, <2>2, <2>6, StreamAssumption
<1> QED
  BY <1>5, <1>6, <1>1 DEF Stuck

\* __flshfp hides the room of a line-buffered stream.
LEMMA CarriedHidden ==
  ASSUME NEW f, NEW d, NEW x, Carried(x, f, d), ~x.error,
         NEW g, IsHidden(g, x), Roomy(g), g.active => Linebuf(x),
         ~Buffered(x) => g.putl = 0
  PROVE  Carried(g, f, d)
<1>1. /\ Typed(x) /\ x.mode = f.mode /\ Writes(x) /\ Roomy(x) /\ Faithful(x, x.bufp)
      /\ Part(x.file, f.file, Fileof(Outcome(f), Spot(f), d), Spot(f) + Len(d))
      /\ Outcome(x) = Fileof(Outcome(f), Spot(f), d) /\ Spot(x) = Spot(f) + Len(d)
  BY DEF Carried
<1>2. /\ Typed(g) /\ g.file = x.file /\ g.bufp = x.bufp /\ g.getl = x.getl
      /\ g.mode = x.mode /\ g.error = x.error /\ g.pushed = x.pushed
      /\ g.kpos = x.kpos /\ g.target = x.target
  BY DEF IsHidden
<1>3. x.mode.write /\ ~x.pushed /\ Safe(x) /\ Shape(x)
  BY <1>1 DEF Writes, Safe
<1>4. Writes(g) /\ Safe(g) /\ Shape(g)
  BY <1>1, <1>3, HiddenKeeps DEF Writes, Safe
<1>5. /\ Match(g, g.bufp) /\ Bare(g) /\ Spot(g) = Spot(x) /\ OutAt(g) = OutAt(x)
      /\ Slice(g, 0, x.bufp) = Slice(x, 0, x.bufp)
  BY <1>1, <1>2, HiddenIs DEF Faithful
<1>6. Flat(g)
  <2>1. SUFFICES ASSUME g.mode.append, g.putl > 0 \/ g.active PROVE g.getl = 0
    BY DEF Flat
  <2>2. Buffered(x)
    BY <1>1, <1>2, <2>1 DEF Faithful, Modest, Buffered
  <2> QED
    BY <1>1, <1>2, <2>1, <2>2 DEF Faithful, Flat, Roomy
<1>7. Faithful(g, g.bufp)
  BY <1>1, <1>2, <1>5, <1>6 DEF Faithful
<1>8. Outcome(g) = Outcome(x)
  <2>1. PICK e : e = Slice(g, 0, g.bufp)
    OBVIOUS
  <2>2. Outcome(g) = Fileof(g.file, OutAt(g), e)
    BY <1>4, <1>5, <2>1, OutcomeIs
  <2>3. Outcome(x) = Fileof(x.file, OutAt(x), e)
    <3>1. Bare(x) /\ e = Slice(x, 0, x.bufp)
      BY <1>1, <1>2, <1>5, <2>1 DEF Faithful
    <3> QED
      BY <1>1, <3>1, OutcomeIs
  <2> QED
    BY <1>2, <1>5, <2>2, <2>3
<1> QED
  BY <1>1, <1>2, <1>4, <1>5, <1>7, <1>8 DEF Carried

\* Putting a character into the buffer.
LEMMA PutCarried ==
  ASSUME NEW f, Outs(f), Roomy(f), Buffered(f), f.bufp < BufSize, NEW c \in Char,
         NEW g, g = Put(f, c)
  PROVE  Carried(g, f, <<c>>) /\ ~g.error /\ g.ret = c
<1>1. /\ Typed(f) /\ f.file \in Seq(Byte) /\ f.bufp \in 0 .. BufSize
      /\ OutAt(f) \in Nat /\ OutAt(f) <= Len(f.file) /\ Writes(f) /\ Spot(f) \in Nat
      /\ Outcome(f) = Fileof(f.file, OutAt(f), Slice(f, 0, f.bufp))
      /\ Bare(f) /\ Faithful(f, f.bufp) /\ BufSize \in Nat
  BY OutsDoes, StreamAssumption DEF Outs
<1>2. /\ Writes(g) /\ g.mode = f.mode /\ g.file = f.file /\ g.putl = f.putl
      /\ g.active = f.active /\ g.bufp = f.bufp + 1 /\ g.getl = f.getl
      /\ g.target = f.target /\ g.offset = f.offset /\ Roomy(g)
  BY <1>1, PutKeeps
<1>3. IsPut(g, f, c)
  BY <1>1, PutDoes
<1>4. Typed(g) /\ g.buf[f.bufp] = c /\ g.kpos = f.kpos /\ g.eof = f.eof /\ g.error = f.error
      /\ \A i \in 0 .. BufSize - 1 : i # f.bufp => g.buf[i] = f.buf[i]
  BY <1>3 DEF IsPut, Typed
<1>5. Match(g, g.bufp)
  <2>1. SUFFICES ASSUME NEW i \in 0 .. BufSize - 1, f.bufp + 1 <= i, i < f.getl
                 PROVE  /\ f.target \in Nat /\ f.target + i < Len(f.file)
                        /\ g.buf[i] = f.file[f.target + i + 1]
    BY <1>2 DEF Match
  <2>2. f.bufp <= i /\ i # f.bufp
    BY <1>1, <2>1
  <2>3. /\ f.target \in Nat /\ f.target + i < Len(f.file)
        /\ f.buf[i] = f.file[f.target + i + 1]
    BY <1>1, <2>1, <2>2 DEF Faithful, Match
  <2> QED
    BY <1>4, <2>2, <2>3
<1>6. Bare(g)
  BY <1>2 DEF Bare, Buffered
<1>7. Flat(g) /\ Modest(g.mode)
  BY <1>1, <1>2 DEF Flat, Faithful
<1>8. OutAt(g) = OutAt(f) /\ Spot(g) = Spot(f) + 1
  BY <1>1, <1>2, <1>4 DEF OutAt, Goal, Spot
<1> DEFINE d == Slice(f, 0, f.bufp)
           b == Slice(g, 0, g.bufp)
           e == <<c>>
<1>9. /\ d \in Seq(Byte) /\ Len(d) = f.bufp
      /\ \A k \in 1 .. f.bufp : d[k] = f.buf[k - 1]
  BY <1>1, OutcomeIs
<1>10. /\ b \in Seq(Byte) /\ Len(b) = f.bufp + 1
       /\ \A k \in 1 .. f.bufp + 1 : b[k] = g.buf[k - 1]
       /\ Outcome(g) = Fileof(f.file, OutAt(f), b)
  BY <1>2, <1>6, <1>8, OutcomeIs
<1>11. e \in Seq(Byte) /\ Len(e) = 1 /\ e[1] = c
  BY DEF Byte
<1> HIDE DEF d, b, e
<1>12. b = d \o e
  <2>1. d \o e \in Seq(Byte) /\ Len(d \o e) = f.bufp + 1
        /\ \A i \in 1 .. f.bufp + 1 : (d \o e)[i] = IF i <= f.bufp THEN d[i] ELSE e[i - f.bufp]
    <3>1. /\ d \o e \in Seq(Byte) /\ Len(d \o e) = Len(d) + Len(e)
          /\ \A i \in 1 .. Len(d) + Len(e) :
               (d \o e)[i] = IF i <= Len(d) THEN d[i] ELSE e[i - Len(d)]
      BY <1>9, <1>11, ConcatProperties
    <3> QED
      BY <1>9, <1>11, <3>1
  <2>2. ASSUME NEW i \in 1 .. Len(b) PROVE b[i] = (d \o e)[i]
    <3>1. i \in 1 .. f.bufp + 1 /\ b[i] = g.buf[i - 1]
      BY <1>10, <2>2
    <3>2. CASE i <= f.bufp
      <4>1. i \in 1 .. f.bufp /\ i - 1 \in 0 .. BufSize - 1 /\ i - 1 # f.bufp
        BY <1>1, <3>1, <3>2
      <4> QED
        BY <1>4, <1>9, <2>1, <3>1, <3>2, <4>1
    <3>3. CASE ~(i <= f.bufp)
      <4>1. i = f.bufp + 1 /\ i - 1 = f.bufp /\ i - f.bufp = 1
        BY <1>1, <3>1, <3>3
      <4> QED
        BY <1>4, <1>11, <2>1, <3>1, <3>3, <4>1
    <3> QED
      BY <3>2, <3>3
  <2> QED
    BY <1>10, <2>1, <2>2, SameBytes
<1>13. Outcome(g) = Fileof(Outcome(f), Spot(f), e)
  <2>1. PICK at : at = OutAt(f)
    OBVIOUS
  <2>2. PICK x : x = f.file
    OBVIOUS
  <2>3. PICK y : y = Fileof(x, at, d)
    OBVIOUS
  <2>4. PICK z : z = Fileof(y, at + Len(d), e)
    OBVIOUS
  <2>5. /\ x \in Seq(Byte) /\ at \in Nat /\ at <= Len(x) /\ d \in Seq(Byte)
        /\ e \in Seq(Byte)
    BY <1>1, <1>9, <1>11, <2>1, <2>2
  <2>6. IsTwice(x, at, d, e, y, z)
    BY ONLY <2>3, <2>4, <2>5, FileofTwice
  <2>7. z = Fileof(x, at, d \o e)
    BY <2>6 DEF IsTwice
  <2>8. Outcome(f) = y /\ Spot(f) = at + Len(d)
    BY <1>1, <1>9, <2>1, <2>2, <2>3 DEF Spot, d
  <2> QED
    BY <1>10, <1>12, <2>1, <2>2, <2>4, <2>7, <2>8
<1>14. Part(g.file, f.file, Fileof(Outcome(f), Spot(f), e), Spot(f) + Len(e))
  BY <1>1, <1>2, PartSame
<1>15. ~g.error /\ g.ret = c
  BY <1>1, <1>4 DEF Writes, Safe, Put, Typed
<1> QED
  BY <1>2, <1>4, <1>5, <1>6, <1>7, <1>8, <1>11, <1>13, <1>14, <1>15
  DEF Carried, Faithful, e

\* Data that passes the buffer by.
LEMMA ThroughIs ==
  ASSUME NEW f, Outs(f), f.bufp = 0, At(f) = OutAt(f), NEW d \in Seq(Byte), d # <<>>,
         NEW w, w = SysWrite(f, d), NEW g, Typed(g), g.mode = f.mode, g.file = w.file,
         ~g.error => /\ w.ret = Len(d) /\ Writes(g) /\ Roomy(g) /\ Bare(g)
                     /\ g.bufp = 0 /\ g.getl = 0
                     /\ ~f.mode.append => Goal(g) = Goal(f) + Len(d)
  PROVE  Carried(g, f, d)
<1>1. /\ Typed(f) /\ f.file \in Seq(Byte) /\ Len(f.file) \in Nat
      /\ OutAt(f) \in Nat /\ OutAt(f) <= Len(f.file) /\ Writes(f) /\ Safe(f)
      /\ Modest(f.mode)
  BY OutsDoes DEF Outs
<1>2. Outcome(f) = f.file /\ Spot(f) = OutAt(f)
  BY <1>1, OutcomeLength DEF Spot, Writes
<1>3. PICK h : h = Fileof(f.file, At(f), d)
  OBVIOUS
<1>4. /\ Part(w.file, f.file, h, At(f) + Len(d)) /\ (w.ret = Len(d) => w.file = h)
  BY <1>1, <1>3, SysWriteIs
<1>5. h = Fileof(Outcome(f), Spot(f), d) /\ At(f) + Len(d) = Spot(f) + Len(d)
  BY <1>2, <1>3
<1>6. ASSUME ~g.error
      PROVE  /\ Writes(g) /\ Roomy(g) /\ Faithful(g, g.bufp)
             /\ Outcome(g) = h /\ Spot(g) = Spot(f) + Len(d)
  <2>1. /\ w.ret = Len(d) /\ Writes(g) /\ Roomy(g) /\ Bare(g) /\ g.bufp = 0 /\ g.getl = 0
        /\ g.file = h /\ Safe(g) /\ ~g.pushed
    BY <1>4, <1>6 DEF Writes
  <2>2. Match(g, g.bufp) /\ Flat(g)
    BY <2>1 DEF Match, Flat
  <2>3. Outcome(g) = h
    BY <2>1, OutcomeLength
  <2>4. Spot(g) = Spot(f) + Len(d)
    <3>1. CASE ~f.mode.append
      BY <1>1, <1>2, <1>6, <2>1, <3>1 DEF Spot, OutAt
    <3>2. CASE f.mode.append
      <4>1. Len(h) = Most(Len(f.file), At(f) + Len(d))
        BY <1>1, <1>3, FileofIs
      <4>2. At(f) = Len(f.file) /\ Len(d) \in Nat
        BY <3>2 DEF At
      <4>3. Len(h) = Len(f.file) + Len(d)
        BY <1>1, <4>1, <4>2 DEF Most
      <4> QED
        BY <1>1, <1>2, <2>1, <3>2, <4>2, <4>3 DEF Spot, OutAt
    <3> QED
      BY <3>1, <3>2
  <2> QED
    BY <1>1, <2>1, <2>2, <2>3, <2>4 DEF Faithful
<1> QED
  BY <1>4, <1>5, <1>6 DEF Carried

-----------------------------------------------------------------------------
(* putc. *)

\* g is f after c was written to it.
IsCharred(g, f, c) == Carried(g, f, <<c>>) /\ (~g.error => g.ret # EOF)

LEMMA CharByte ==
  ASSUME NEW c \in Char
  PROVE  /\ c # EOF /\ c \in Byte /\ <<c>> \in Seq(Byte) /\ <<c>> # <<>> /\ Len(<<c>>) = 1
         /\ <<>> \o <<c>> = <<c>> /\ <<c>> \o <<>> = <<c>> /\ <<>> \in Seq(Byte)
<1>1. c # EOF /\ c \in Byte
  BY StreamAssumption DEF Byte
<1>2. <<c>> \in Seq(Byte) /\ <<c>> # <<>> /\ Len(<<c>>) = 1
  BY <1>1
<1> QED
  BY <1>1, <1>2, ConcatEmptySeq

\* Put the character into the buffer, then flush it.
LEMMA PutFlushed ==
  ASSUME NEW f, Outs(f), Roomy(f), Buffered(f), f.bufp < BufSize, NEW c \in Char,
         NEW g, g = Flshfp(Put(f, c), EOF)
  PROVE  Carried(g, f, <<c>>) /\ (~g.error => g.ret = 0)
<1>1. PICK x : x = Put(f, c)
  OBVIOUS
<1>2. Carried(x, f, <<c>>) /\ ~x.error
  BY <1>1, PutCarried
<1>3. Outs(x)
  BY <1>2, CarriedOuts
<1>4. Carried(g, x, <<>>) /\ (~g.error => g.ret = 0)
  BY <1>1, <1>3, FlushCarried
<1>5. <<c>> \in Seq(Byte) /\ <<>> \in Seq(Byte) /\ <<c>> \o <<>> = <<c>>
  BY CharByte
<1>6. Carried(g, f, <<c>> \o <<>>)
  BY <1>2, <1>4, <1>5, CarriedChain
<1> QED
  BY <1>4, <1>5, <1>6

\* Flush the buffer, then put the character into it.
LEMMA FlushedPut ==
  ASSUME NEW f, Outs(f), Buffered(f), NEW c \in Char, NEW x, x = Flshfp(f, EOF),
         NEW g, g = IF x.error THEN x ELSE Put(x, c)
  PROVE  IsCharred(g, f, c)
<1>1. Carried(x, f, <<>>) /\ (~x.error => x.bufp < BufSize)
  BY FlushCarried
<1>2. <<c>> \in Seq(Byte) /\ <<>> \in Seq(Byte) /\ <<>> \o <<c>> = <<c>> /\ c # EOF
  BY CharByte
<1>3. CASE x.error
  BY <1>1, <1>2, <1>3, CarriedEnds DEF IsCharred
<1>4. CASE ~x.error
  <2>1. Outs(x) /\ Roomy(x) /\ Buffered(x)
    BY <1>1, <1>4, CarriedOuts DEF Carried, Buffered
  <2>2. Carried(g, x, <<c>>) /\ g.ret = c
    BY <1>1, <1>4, <2>1, PutCarried
  <2>3. Carried(g, f, <<>> \o <<c>>)
    BY <1>1, <1>2, <1>4, <2>2, CarriedChain
  <2> QED
    BY <1>2, <2>2, <2>3 DEF IsCharred
<1> QED
  BY <1>3, <1>4

\* Putting a character into an empty buffer and moving the target past what
\* was written come in either order.
LEMMA SettledPut ==
  ASSUME NEW w, Typed(w), ~w.eof, ~w.error, NEW tw \in BOOLEAN, NEW n, NEW c
  PROVE  Settled(Put(w, c), tw, n) = Put(Settled(w, tw, n), c)
<1> DEFINE v == Put(w, c)
           y == [w EXCEPT !.target = IF @ = -1 THEN @ ELSE @ + n, !.getl = 0]
           z == [v EXCEPT !.target = IF @ = -1 THEN @ ELSE @ + n, !.getl = 0]
<1>1. v.eof = w.eof /\ v.error = w.error /\ y.eof = w.eof /\ y.error = w.error
  BY DEF Put, Typed
<1>2. z.eof = w.eof /\ z.error = w.error
  BY DEF Put, Typed
<1>3. CASE tw
  <2>1. Settled(v, tw, n) = v /\ Settled(w, tw, n) = w
    BY <1>1, <1>3 DEF Settled
  <2> QED
    BY <2>1
<1>4. CASE ~tw
  <2>1. Settled(v, tw, n) = z /\ Settled(w, tw, n) = y
    BY <1>1, <1>2, <1>4 DEF Settled
  <2>2. z = Put(y, c)
    BY DEF Put, Typed
  <2> QED
    BY <2>1, <2>2
<1> QED
  BY <1>3, <1>4

LEMMA FlushbufPut ==
  ASSUME NEW h, Writes(h), Buffered(h), NEW c \in Char, ~(Linebuf(h) /\ c = Newline),
         h.putl = 0 => h.bufp <= h.getl,
         NEW x, x = Flushbuf(h, EOF)
  PROVE  Flushbuf(h, c) = IF x.error THEN x ELSE Put(x, c)
<1>0. /\ Safe(h) /\ h.mode.write /\ ~h.pushed /\ ~h.eof /\ Typed(h) /\ ~h.error
      /\ Shape(h) /\ BufSize \in Nat \ {0} /\ h.putl \in {0, BufSize} /\ c # EOF
      /\ h.bufp \in 0 .. BufSize /\ 0 \in 0 .. BufSize
  BY StreamAssumption DEF Writes, Safe, Shape, Typed
<1>1. CASE h.putl > 0
  <2> DEFINE w == WriteData(h, Slice(h, 0, ToWrite(h)))
  <2>1. Typed(w) /\ ~w.eof /\ w.mode = h.mode
    <3>1. CASE h.bufp = 0
      <4>1. w = h
        BY <1>0, <3>1, WriteDataNone
      <4> QED
        BY <1>0, <4>1
    <3>2. CASE h.bufp > 0
      <4>1. Typed(w) /\ SameBuffer(w, h)
        BY <1>0, <3>2, WriteDataDoes
      <4> QED
        BY <1>0, <4>1 DEF SameBuffer
    <3> QED
      BY <1>0, <3>1, <3>2
  <2>2. x = Settled(WriteChar(w, EOF), FALSE, h.bufp)
    BY <1>1 DEF Flushbuf, WriteOut
  <2>3. Flushbuf(h, c) = Settled(WriteChar(w, c), FALSE, h.bufp)
    BY <1>1 DEF Flushbuf, WriteOut
  <2> HIDE DEF w
  <2>4. WriteChar(w, EOF) = w
    BY DEF WriteChar
  <2>5. x.error = w.error
    <3>1. PICK b : b = h.bufp
      OBVIOUS
    <3>2. PICK tw \in BOOLEAN : ~tw
      OBVIOUS
    <3>3. x = Settled(w, tw, b) /\ b \in 0 .. BufSize
      BY <1>0, <2>2, <2>4, <3>1, <3>2
    <3>4. IsSettled(x, w, tw, b)
      BY <2>1, <3>3, SettledDoes
    <3> QED
      BY <2>1, <3>4, SettledFrame
  <2>6. CASE w.error
    <3>1. WriteChar(w, c) = w
      BY <2>6 DEF WriteChar
    <3> QED
      BY <2>2, <2>3, <2>4, <2>5, <2>6, <3>1
  <2>7. CASE ~w.error
    <3>1. WriteChar(w, c) = Put(w, c)
      BY <1>0, <2>1, <2>7 DEF WriteChar, Buffered, Linebuf
    <3>2. Settled(Put(w, c), FALSE, h.bufp) = Put(Settled(w, FALSE, h.bufp), c)
      <4>1. \A tw \in BOOLEAN : Settled(Put(w, c), tw, h.bufp) = Put(Settled(w, tw, h.bufp), c)
        BY <2>1, <2>7, SettledPut
      <4> QED
        BY <4>1
    <3> QED
      BY <2>2, <2>3, <2>4, <2>5, <2>7, <3>1, <3>2
  <2> QED
    BY <2>6, <2>7
<1>2. CASE ~(h.putl > 0)
  <2> DEFINE p  == Prime(h)
             n  == Skip(p)
             q  == Ready(p, n)
             tw == n > 0
  <2>0. h.bufp <= h.getl
    BY <1>0, <1>2
  <2>1. IsBlock(q, h, n)
    BY <1>0, <2>0, BlockDoes
  <2>2. tw \in BOOLEAN
    OBVIOUS
  <2>3. /\ Flushbuf(h, c) = FlushReady(q, c, tw)
        /\ x = FlushReady(q, EOF, tw)
    <3>1. /\ Flushbuf(h, c) = FlushPrimed(p, c)
          /\ x = FlushPrimed(p, EOF)
      BY <1>2 DEF Flushbuf
    <3> HIDE DEF p
    <3> QED
      BY <3>1 DEF FlushPrimed, Skip
  <2> HIDE DEF p, n, q, tw
  <2>4. Typed(q) /\ ~q.eof /\ ~q.error /\ q.mode = h.mode
    BY <1>0, <2>1 DEF IsBlock, SameStream
  <2>5. FlushReady(q, c, tw) = Settled(Put(q, c), tw, 0)
    BY <1>0, <2>4 DEF FlushReady, Buffered, Linebuf
  <2>6. FlushReady(q, EOF, tw) = Settled(q, tw, 0)
    BY DEF FlushReady
  <2>7. ~x.error
    <3>1. IsSettled(x, q, tw, 0)
      BY <1>0, <2>2, <2>3, <2>4, <2>6, SettledDoes
    <3> QED
      BY <2>4, <3>1, SettledFrame
  <2>8. Settled(Put(q, c), tw, 0) = Put(Settled(q, tw, 0), c)
    BY <2>2, <2>4, SettledPut
  <2> QED
    BY <2>3, <2>5, <2>6, <2>7, <2>8
<1> QED
  BY <1>1, <1>2

\* __flshfp on a stream with no room: a character that goes into the buffer.
LEMMA FlushedPutSame ==
  ASSUME NEW y, Typed(y), NEW c
  PROVE  Flushed(IF y.error THEN y ELSE Put(y, c), c) =
           IF Flushed(y, 0).error THEN Flushed(y, 0) ELSE Put(Flushed(y, 0), c)
<1>1. CASE y.error
  BY <1>1 DEF Flushed, Typed, Linebuf
<1>2. CASE ~y.error
  <2> DEFINE v == Put(y, c)
  <2>1. v.error = y.error /\ v.mode = y.mode
    BY DEF Put, Typed
  <2>2. ~Flushed(y, 0).error
    BY <1>2 DEF Flushed, Typed
  <2>3. CASE Linebuf(y)
    <3>1. Linebuf(v)
      BY <2>1, <2>3 DEF Linebuf
    <3>2. Flushed(v, c) = [v EXCEPT !.ret = c, !.putl = 0, !.active = TRUE]
      BY <1>2, <2>1, <3>1 DEF Flushed, Put, Typed
    <3>3. Flushed(y, 0) = [y EXCEPT !.ret = 0, !.putl = 0, !.active = TRUE]
      BY <1>2, <2>3 DEF Flushed, Typed
    <3>4. [v EXCEPT !.ret = c, !.putl = 0, !.active = TRUE] =
            Put([y EXCEPT !.ret = 0, !.putl = 0, !.active = TRUE], c)
      BY DEF Put, Typed
    <3> QED
      BY <1>2, <2>2, <3>2, <3>3, <3>4
  <2>4. CASE ~Linebuf(y)
    <3>1. ~Linebuf(v)
      BY <2>1, <2>4 DEF Linebuf
    <3>2. Flushed(v, c) = [v EXCEPT !.ret = c]
      BY <1>2, <2>1, <3>1 DEF Flushed, Put, Typed
    <3>3. Flushed(y, 0) = [y EXCEPT !.ret = 0]
      BY <1>2, <2>4 DEF Flushed, Typed
    <3>4. [v EXCEPT !.ret = c] = Put([y EXCEPT !.ret = 0], c)
      BY DEF Put, Typed
    <3> QED
      BY <1>2, <2>2, <3>2, <3>3, <3>4
  <2> QED
    BY <2>3, <2>4
<1> QED
  BY <1>1, <1>2

\* Streams that differ in ret and seen only.
LEMMA AlikeOuts ==
  ASSUME NEW f, NEW u, Alike(u, f), Outs(f)
  PROVE  Outs(u) /\ Outcome(u) = Outcome(f) /\ Spot(u) = Spot(f)
<1>1. /\ Typed(u) /\ Writes(f) /\ Rested(f) /\ Faithful(f, f.bufp)
      /\ u.mode = f.mode /\ u.file = f.file /\ u.bufp = f.bufp /\ u.putl = f.putl
      /\ u.active = f.active /\ u.getl = f.getl /\ u.buf = f.buf /\ u.error = f.error
      /\ u.pushed = f.pushed /\ u.pushbufp = f.pushbufp
  BY DEF Alike, Outs
<1>2. Writes(u) /\ Rested(u) /\ Goal(u) = Goal(f)
  BY <1>1, AlikeKeeps
<1>3. IsHidden(u, f)
  BY DEF Alike, IsHidden
<1>4. /\ Match(u, u.bufp) /\ Bare(u) /\ Spot(u) = Spot(f)
  BY <1>1, <1>3, HiddenIs DEF Faithful
<1>5. Faithful(u, u.bufp)
  BY <1>1, <1>4 DEF Faithful, Flat
<1>6. Outcome(u) = Outcome(f)
  BY <1>1, <1>2 DEF Outcome, Slice
<1> QED
  BY <1>2, <1>4, <1>5, <1>6 DEF Outs

LEMMA CarriedAlike ==
  ASSUME NEW f, NEW d, NEW g, Carried(g, f, d), NEW u, Alike(u, g)
  PROVE  Carried(u, f, d)
<1>1. /\ Typed(u) /\ u.mode = g.mode /\ u.file = g.file /\ u.error = g.error
      /\ u.bufp = g.bufp
  BY DEF Alike
<1>2. CASE g.error
  BY <1>1, <1>2 DEF Carried
<1>3. CASE ~g.error
  <2>1. Outs(g) /\ Roomy(g)
    BY <1>3, CarriedOuts DEF Carried
  <2>2. Outs(u) /\ Outcome(u) = Outcome(g) /\ Spot(u) = Spot(g)
    BY <2>1, AlikeOuts
  <2>3. Roomy(u)
    BY <2>1, AlikeKeeps
  <2> QED
    BY <1>1, <2>2, <2>3 DEF Carried, Outs
<1> QED
  BY <1>2, <1>3

LEMMA CarriedFrom ==
  ASSUME NEW f, Outs(f), NEW u, Alike(u, f), NEW d, NEW g, Carried(g, u, d)
  PROVE  Carried(g, f, d)
<1>1. Outcome(u) = Outcome(f) /\ Spot(u) = Spot(f)
  BY AlikeOuts
<1>2. u.mode = f.mode /\ u.file = f.file
  BY DEF Alike
<1> QED
  BY <1>1, <1>2 DEF Carried

\* What a write does to the file depends on where the kernel stands.
LEMMA SysWriteSame ==
  ASSUME NEW f, Typed(f), NEW g, Typed(g), g.mode = f.mode, g.file = f.file,
         g.kpos = f.kpos, NEW d
  PROVE  SysWrite(g, d).file = SysWrite(f, d).file /\ SysWrite(g, d).ret = SysWrite(f, d).ret
<1> DEFINE at == IF f.mode.append THEN Len(f.file) ELSE f.kpos
           m  == Least(Len(d), Most(0, MaxFile - at))
           t(x) == IF m = 0 THEN x
                   ELSE [x EXCEPT !.file = Fileof(@, at, SubSeq(d, 1, m)), !.kpos = at + m]
<1>1. /\ SysWrite(f, d) = [t(f) EXCEPT !.ret = IF m = Len(d) THEN m ELSE -1]
      /\ SysWrite(g, d) = [t(g) EXCEPT !.ret = IF m = Len(d) THEN m ELSE -1]
  BY DEF SysWrite
<1> HIDE DEF m, at
<1>2. /\ t(f).file = t(g).file /\ DOMAIN t(f) = DOMAIN f /\ DOMAIN t(g) = DOMAIN g
  BY DEF Typed
<1>3. "ret" \in DOMAIN f /\ "ret" \in DOMAIN g
  BY DEF Typed
<1> HIDE DEF t
<1> QED
  BY <1>1, <1>2, <1>3

LEMMA HiddenBack ==
  ASSUME NEW x, Typed(x), NEW g, IsHidden(g, x)
  PROVE  IsHidden(x, g)
BY DEF IsHidden

\* A stream without a buffer writes the character.
LEMMA BareChar ==
  ASSUME NEW f, Outs(f), ~Buffered(f), NEW c \in Char,
         NEW g, IsWritten(g, f), g = Flushed(Flushbuf(f, c), c)
  PROVE  IsCharred(g, f, c)
<1> DEFINE n  == Skip(f)
           tw == n > 0
           d  == <<c>>
           w  == SysWrite(f, d)
           v  == WroteChar(w)
           x  == Flushbuf(f, c)
<1>0. /\ Typed(f) /\ Shape(f) /\ Safe(f) /\ f.mode.write /\ ~f.error /\ ~f.pushed /\ ~f.eof
      /\ Bare(f) /\ Modest(f.mode) /\ ~Linebuf(f) /\ ~f.mode.append /\ f.kpos \in Nat
      /\ f.bufp = 0 /\ f.getl = 0 /\ f.putl = 0 /\ 0 \in 0 .. BufSize
      /\ f.target \in Nat \cup {-1} /\ f.offset \in Nat \cup {-1}
  BY OutsDoes, StreamAssumption DEF Shape, Typed, Modest, Linebuf, Buffered
<1>1. d \in Seq(Byte) /\ d # <<>> /\ Len(d) = 1 /\ c # EOF
  BY CharByte
<1>2. Prime(f) = f /\ n = 0 /\ Ready(f, n) = f
  BY <1>0, BareReady
<1>3. x = WriteOut(f, c, tw) /\ tw \in BOOLEAN /\ ~tw
  <2>1. x = FlushPrimed(f, c)
    BY <1>0, <1>2 DEF Flushbuf
  <2>2. FlushPrimed(f, c) = FlushReady(f, c, tw)
    BY <1>2 DEF FlushPrimed, Skip
  <2>3. tw \in BOOLEAN /\ ~tw
    BY <1>2
  <2> HIDE DEF tw, n, x
  <2> QED
    BY <1>0, <1>1, <2>1, <2>2, <2>3 DEF FlushReady
<1> HIDE DEF tw, n
<1>4. x = Settled(v, tw, 0)
  <2>1. WriteData(f, Slice(f, 0, ToWrite(f))) = f
    BY <1>0, WriteDataNone
  <2>2. WriteChar(f, c) = v
    BY <1>0, <1>1 DEF WriteChar
  <2> QED
    BY <1>0, <1>3, <2>1, <2>2 DEF WriteOut
<1>5. IsWroteChar(v, f)
  BY <1>0, WroteCharDoes
<1>6. Typed(w) /\ w.ret \in {-1, 1} /\ f.kpos <= Len(f.file)
  BY <1>0, <1>1, SysWriteDoes DEF Bare
<1>7. v.file = w.file /\ (~v.error => w.ret = 1)
  <2> HIDE DEF w
  <2> QED
    BY <1>6 DEF WroteChar, Typed
<1> HIDE DEF v, w, x
<1>8. Typed(v)
  BY <1>5 DEF IsWroteChar
<1>9. IsSettled(x, v, tw, 0)
  BY <1>0, <1>3, <1>4, <1>8, SettledDoes
<1>10. /\ x.error = v.error /\ x.file = v.file /\ x.kpos = v.kpos /\ x.offset = v.offset
       /\ x.eof = v.eof /\ x.mode = v.mode
  BY <1>8, <1>9, SettledFrame
<1>11. Typed(x)
  BY <1>9 DEF IsSettled
<1>12. IsHidden(g, x) /\ g.ret = IF x.error THEN EOF ELSE c
  BY <1>11, FlushedDoes DEF x
<1>13. /\ g.error = x.error /\ g.file = x.file /\ g.kpos = x.kpos /\ g.offset = x.offset
       /\ g.target = x.target /\ g.eof = x.eof /\ g.mode = x.mode
  BY <1>12 DEF IsHidden
<1>14. /\ Typed(g) /\ g.mode = f.mode /\ (~g.error => Writes(g) /\ Roomy(g))
  BY DEF IsWritten, Stuck
<1>15. At(f) = OutAt(f) /\ OutAt(f) = f.kpos /\ Goal(f) = f.kpos
  BY <1>0 DEF At, OutAt, Goal, Bare
<1>16. ASSUME ~g.error
       PROVE  /\ w.ret = Len(d) /\ Writes(g) /\ Roomy(g) /\ Bare(g)
              /\ g.bufp = 0 /\ g.getl = 0 /\ Goal(g) = Goal(f) + Len(d)
  <2>1. ~v.error /\ ~Buffered(g)
    BY <1>10, <1>13, <1>14, <1>16 DEF Buffered
  <2>2. g.bufp = 0 /\ g.getl = 0
    BY <1>14, <1>16, <2>1 DEF Writes, Safe, Shape
  <2>3. /\ g.kpos = f.kpos + 1 /\ g.kpos <= Len(g.file)
        /\ f.offset = -1 => g.offset = -1 /\ v.target = f.target
        /\ f.offset # -1 => g.offset = f.offset + 1 /\ v.target = f.target + 1
    BY <1>5, <1>6, <1>10, <1>13, <1>15, <2>1 DEF IsWroteChar
  <2>4. g.target = IF v.target = -1 THEN -1 ELSE v.target + 0
    BY <1>3, <1>9, <1>13 DEF IsSettled
  <2>5. /\ f.target = -1 <=> f.offset = -1
        /\ f.target # -1 => f.target = f.offset /\ f.offset = f.kpos
    BY <1>0 DEF Bare
  <2>6. /\ g.target = -1 <=> g.offset = -1
        /\ g.target # -1 => g.target = g.offset /\ g.offset = g.kpos
    BY <1>0, <2>3, <2>4, <2>5
  <2>7. Bare(g)
    BY <2>3, <2>6 DEF Bare
  <2>8. Goal(g) = Goal(f) + 1
    BY <1>15, <2>3, <2>6 DEF Goal
  <2> QED
    BY <1>1, <1>7, <1>14, <1>16, <2>1, <2>2, <2>7, <2>8
<1>17. Carried(g, f, d)
  BY <1>0, <1>1, <1>7, <1>10, <1>13, <1>14, <1>15, <1>16, ThroughIs DEF w
<1> QED
  BY <1>1, <1>12, <1>13, <1>17 DEF IsCharred, d

\* A newline behind a full buffer of a line-buffered stream: the buffer is
\* flushed, then the newline is written.
LEMMA LinedFull ==
  ASSUME NEW f, Outs(f), Roomy(f), Linebuf(f), NEW h, IsHidden(h, f), Typed(h),
         h.putl = BufSize, h.bufp = BufSize, NEW c \in Char, c = Newline,
         NEW k, k = Flshfp(f, EOF), k = Flushed(Flushbuf(h, EOF), 0),
         NEW g, IsWritten(g, f), g = Flushed(Flushbuf(h, c), c)
  PROVE  IsCharred(g, f, c)
<1> DEFINE n == h.bufp
           w == WriteData(h, Slice(h, 0, ToWrite(h)))
           y == SysWrite(w, <<c>>)
           v == WroteChar(y)
<1>0. /\ BufSize \in Nat \ {0} /\ Buffered(f) /\ c # EOF /\ n \in 0 .. BufSize /\ n = BufSize
      /\ Writes(f) /\ Buffered(h)
  BY CharByte, StreamAssumption DEF Linebuf, Buffered, Outs, IsHidden
<1>1. /\ Safe(f) /\ f.mode.write /\ ~f.pushed /\ ~f.eof /\ Typed(f) /\ ~f.error /\ Shape(f)
  BY OutsDoes
<1>2. /\ h.mode = f.mode /\ h.eof = f.eof /\ h.error = f.error /\ h.pushed = f.pushed
      /\ h.file = f.file /\ h.target = f.target /\ h.kpos = f.kpos
  BY DEF IsHidden
<1>3. ~h.eof /\ ~h.error /\ Linebuf(h) /\ h.mode.write /\ ~h.pushed
  BY <1>1, <1>2 DEF Linebuf
<1>4. Safe(h)
  <2>1. Clean(h) /\ Known(h)
    BY <1>0, <1>1, <1>2 DEF IsHidden, Safe, Clean, Known
  <2>2. Shape(h) \/ h.active
    BY <1>0, <1>3 DEF Shape
  <2>3. Shape(h)
    BY <1>0, <1>3 DEF Shape
  <2> QED
    BY <1>3, <2>1, <2>3 DEF Safe
<1>5. /\ Typed(w) /\ SameBuffer(w, h) /\ w.bufp = 0
      /\ ~w.error /\ ~h.mode.append =>
           /\ w.target = Goal(h) /\ w.offset = Goal(h) + ToWrite(h)
           /\ w.offset = w.kpos
  BY <1>0, <1>3, <1>4, WriteDataDoes
<1>6. ToWrite(h) = BufSize
  BY <1>0, ToWriteDoes
<1>7. /\ Flushbuf(h, EOF) = Settled(WriteChar(w, EOF), FALSE, n)
      /\ Flushbuf(h, c) = Settled(WriteChar(w, c), FALSE, n)
  <2>1. h.putl > 0
    BY <1>0
  <2> QED
    BY <2>1 DEF Flushbuf, WriteOut
<1> HIDE DEF w
<1>8. WriteChar(w, EOF) = w
  BY DEF WriteChar
<1>9. w.mode = h.mode /\ ~w.eof /\ Linebuf(w)
  BY <1>3, <1>5 DEF SameBuffer, Linebuf
<1>10. PICK tw \in BOOLEAN : ~tw /\ tw = FALSE
  OBVIOUS
<1>11. PICK x0, x : x0 = Settled(w, tw, n) /\ x = Settled(WriteChar(w, c), tw, n)
  OBVIOUS
<1>12. k = Flushed(x0, 0) /\ g = Flushed(x, c)
  BY <1>7, <1>8, <1>10, <1>11
<1>13. IsSettled(x0, w, tw, n)
  BY <1>0, <1>5, <1>11, SettledDoes
<1>14. /\ x0.error = w.error /\ x0.file = w.file /\ x0.kpos = w.kpos /\ x0.offset = w.offset
       /\ x0.mode = w.mode /\ x0.eof = w.eof /\ Typed(x0)
  <2>1. Typed(w)
    BY <1>5
  <2>2. Typed(x0)
    BY <1>13 DEF IsSettled
  <2> QED
    BY <1>13, <2>1, <2>2, SettledFrame
<1>15. IsHidden(k, x0)
  BY <1>12, <1>14, FlushedDoes
<1>16. /\ Carried(k, f, <<>>) /\ (~k.error => k.bufp = 0)
  BY FlushCarried
<1>17. /\ <<c>> \in Seq(Byte) /\ <<c>> # <<>> /\ Len(<<c>>) = 1
       /\ <<>> \in Seq(Byte) /\ <<>> \o <<c>> = <<c>>
  BY CharByte
<1>18. CASE w.error
  <2>1. WriteChar(w, c) = w
    BY <1>18 DEF WriteChar
  <2>2. x = x0 /\ x0.error
    BY <1>11, <1>14, <1>18, <2>1
  <2>3. g = k
    BY <1>12, <2>2 DEF Flushed
  <2>4. k.error
    BY <1>15, <2>2 DEF IsHidden
  <2> QED
    BY <1>16, <1>17, <2>3, <2>4, CarriedEnds DEF IsCharred
<1>19. CASE ~w.error
  <2>1. WriteChar(w, c) = v
    BY <1>0, <1>9, <1>19 DEF WriteChar
  <2>2. IsWroteChar(v, w)
    BY <1>5, <1>19, WroteCharDoes
  <2>3. Typed(y) /\ y.ret \in {-1, 1}
    BY <1>5, <1>17, SysWriteDoes
  <2>4. v.file = y.file /\ (~v.error => y.ret = 1)
    <3> HIDE DEF y
    <3> QED
      BY <2>3 DEF WroteChar, Typed
  <2> HIDE DEF v, y
  <2>5. Typed(v)
    BY <2>2 DEF IsWroteChar
  <2>6. IsSettled(x, v, tw, n)
    BY <1>0, <1>11, <2>1, <2>5, SettledDoes
  <2>7. /\ x.error = v.error /\ x.file = v.file /\ x.kpos = v.kpos /\ x.offset = v.offset
        /\ x.eof = v.eof /\ x.mode = v.mode
    BY <2>5, <2>6, SettledFrame
  <2>8. Typed(x)
    BY <2>6 DEF IsSettled
  <2>9. IsHidden(g, x) /\ g.ret = IF x.error THEN EOF ELSE c
    BY <1>12, <2>8, FlushedDoes
  <2>10. /\ g.error = x.error /\ g.file = x.file /\ g.kpos = x.kpos /\ g.offset = x.offset
         /\ g.target = x.target /\ g.eof = x.eof /\ g.mode = x.mode /\ g.getl = x.getl
         /\ g.bufp = x.bufp
    BY <2>9 DEF IsHidden
  <2>11. /\ Typed(g) /\ g.mode = f.mode /\ (~g.error => Writes(g) /\ Roomy(g))
    BY DEF IsWritten, Stuck
  <2>12. /\ k.mode = f.mode /\ k.file = w.file /\ k.kpos = w.kpos /\ k.error = w.error
         /\ k.target = x0.target /\ Typed(k)
    BY <1>2, <1>9, <1>14, <1>15 DEF IsHidden
  <2>13. Outs(k) /\ k.bufp = 0
    BY <1>16, <1>19, <2>12, CarriedOuts
  <2>14. PICK z : z = SysWrite(k, <<c>>)
    OBVIOUS
  <2>15. z.file = y.file /\ z.ret = y.ret
    BY <1>2, <1>5, <1>9, <2>12, <2>14, SysWriteSame DEF y
  <2>16. x0.target = IF w.target = -1 THEN -1 ELSE w.target + n
    BY <1>10, <1>13 DEF IsSettled
  <2>17. x.target = IF v.target = -1 THEN -1 ELSE v.target + n
    BY <1>10, <2>6 DEF IsSettled
  <2>18. ~f.mode.append => /\ w.target \in Nat /\ w.offset \in Nat /\ w.offset = w.kpos
                           /\ x0.target = w.kpos
    <3>1. Goal(h) \in Nat
      BY DEF Goal, Typed
    <3> QED
      BY <1>0, <1>2, <1>5, <1>6, <1>19, <2>16, <3>1
  <2>19. At(k) = OutAt(k)
    <3>1. CASE f.mode.append
      BY <2>12, <3>1 DEF At, OutAt
    <3>2. CASE ~f.mode.append
      <4>1. k.target = k.kpos /\ k.target # -1
        BY <2>12, <2>18, <3>2
      <4> QED
        BY <2>12, <3>2, <4>1 DEF At, OutAt, Goal
    <3> QED
      BY <3>1, <3>2
  <2>20. ASSUME ~g.error
         PROVE  /\ z.ret = Len(<<c>>) /\ Writes(g) /\ Roomy(g) /\ Bare(g)
                /\ g.bufp = 0 /\ g.getl = 0
                /\ ~k.mode.append => Goal(g) = Goal(k) + Len(<<c>>)
    <3>1. ~v.error
      BY <2>7, <2>10, <2>20
    <3>2. g.bufp = 0
      BY <1>5, <1>9, <2>2, <2>6, <2>10, <3>1 DEF IsWroteChar, IsSettled, SameBuffer
    <3>3. g.getl = 0
      BY <1>10, <2>6, <2>10 DEF IsSettled
    <3>4. Bare(g)
      BY <1>0, <2>11 DEF Bare, Buffered
    <3>5. ASSUME ~f.mode.append PROVE Goal(g) = Goal(k) + 1
      <4>1. v.target = w.target + 1
        BY <2>2, <2>18, <3>1, <3>5 DEF IsWroteChar
      <4>2. x.target = x0.target + 1 /\ x0.target \in Nat
        BY <1>0, <2>16, <2>17, <2>18, <3>5, <4>1
      <4> QED
        BY <2>10, <2>12, <4>2 DEF Goal
    <3> QED
      BY <1>17, <2>4, <2>11, <2>12, <2>15, <2>20, <3>1, <3>2, <3>3, <3>4, <3>5
  <2>21. Carried(g, k, <<c>>)
    <3>1. g.file = z.file /\ g.mode = k.mode
      BY <2>4, <2>7, <2>10, <2>11, <2>12, <2>15
    <3> QED
      BY <1>17, <2>11, <2>13, <2>14, <2>19, <2>20, <3>1, ThroughIs
  <2>22. Carried(g, f, <<>> \o <<c>>)
    BY <1>16, <1>17, <1>19, <2>12, <2>21, CarriedChain
  <2> QED
    BY <1>0, <1>17, <2>9, <2>10, <2>22 DEF IsCharred
<1> QED
  BY <1>18, <1>19

\* A newline on a line-buffered stream that was not writing goes into the
\* buffer, and out with it.
LEMMA LinedEmpty ==
  ASSUME NEW f, Outs(f), Linebuf(f), f.seen, f.bufp = 0, f.getl = 0,
         NEW h, h = [f EXCEPT !.putl = 0], ~f.active, f.putl = 0,
         NEW c \in Char, c = Newline,
         NEW g, IsWritten(g, f), g = Flushed(Flushbuf(h, c), c)
  PROVE  IsCharred(g, f, c)
<1> DEFINE p == Prime(f)
           q == [p EXCEPT !.bufp = 0, !.putl = BufSize]
           y == Put(q, c)
           x == Flushbuf(y, EOF)
           r == Flshfp(y, EOF)
<1>0. /\ BufSize \in Nat \ {0} /\ Buffered(f) /\ c # EOF /\ Writes(f) /\ Typed(f) /\ Shape(f)
      /\ ~f.error /\ ~f.pushed /\ ~f.eof /\ f.mode.write /\ Modest(f.mode) /\ ~f.mode.read
      /\ Safe(f) /\ 0 \in 0 .. BufSize /\ h = f
  <2>1. h = f
    BY DEF Outs, Writes, Safe, Shape, Typed
  <2> QED
    BY <2>1, OutsDoes, CharByte, StreamAssumption DEF Linebuf, Buffered, Outs, Modest
<1>1. Prime(f) = p /\ ~Updates(f)
  BY <1>0 DEF Updates
<1>2. /\ Typed(p) /\ p.mode = f.mode /\ p.seen = f.seen /\ p.eof = f.eof /\ p.error = f.error
      /\ p.pushed = f.pushed /\ p.getl = 0 /\ p.active = f.active
  <2>1. p = IF f.target = -1 THEN [f EXCEPT !.getl = 0] ELSE [f EXCEPT !.target = f.target + 0]
    <3> HIDE DEF p
    <3> QED
      BY <1>1 DEF Prime
  <2>2. CASE f.target = -1
    <3>1. p = [f EXCEPT !.getl = 0]
      BY <2>1, <2>2
    <3> HIDE DEF p
    <3>2. Typed(p)
      BY <1>0, <3>1 DEF Typed
    <3> QED
      BY <1>0, <3>1, <3>2 DEF Typed
  <2>3. CASE f.target # -1
    <3>1. f.target + 0 = f.target
      BY <1>0 DEF Typed
    <3>2. p = [f EXCEPT !.target = f.target]
      BY <2>1, <2>3, <3>1
    <3> HIDE DEF p
    <3>3. p = f
      BY <1>0, <3>2 DEF Typed
    <3> QED
      BY <1>0, <3>3
  <2> QED
    BY <2>2, <2>3
<1> HIDE DEF p
<1>3. Linebuf(p) /\ Buffered(p) /\ ~Updates(p)
  BY <1>0, <1>2 DEF Linebuf, Buffered, Updates
<1>4. Ready(p, 0) = q
  BY <1>2, <1>3 DEF Ready, Typed
<1>5. /\ Typed(q) /\ q.mode = f.mode /\ q.seen /\ ~q.eof /\ ~q.error /\ ~q.pushed
      /\ q.getl = 0 /\ q.bufp = 0 /\ q.putl = BufSize /\ q.active = f.active
  <2>1. q.getl = p.getl /\ q.seen = p.seen /\ q.eof = p.eof /\ q.error = p.error
        /\ q.pushed = p.pushed /\ q.mode = p.mode /\ q.bufp = 0 /\ q.putl = BufSize
        /\ q.active = p.active
    BY <1>2 DEF Typed
  <2>2. Typed(q)
    BY <1>0, <1>2 DEF Typed
  <2> QED
    BY <1>0, <1>2, <2>1, <2>2
<1> HIDE DEF q
<1>6. PICK tw \in BOOLEAN : ~tw /\ tw = FALSE /\ tw = (0 > 0)
  <2>1. (0 > 0) = FALSE
    OBVIOUS
  <2> QED
    BY <2>1
<1>7. /\ Flushbuf(f, c) = FlushReady(q, c, tw)
      /\ Flushbuf(f, EOF) = FlushReady(q, EOF, tw)
  <2>1. ~(f.putl > 0)
    OBVIOUS
  <2>2. /\ Flushbuf(f, c) = FlushPrimed(p, c)
        /\ Flushbuf(f, EOF) = FlushPrimed(p, EOF)
    BY <1>1, <2>1 DEF Flushbuf
  <2> QED
    BY <1>3, <1>4, <1>6, <2>2 DEF FlushPrimed
<1>8. Linebuf(q) /\ Buffered(q)
  BY <1>3, <1>5, <1>2 DEF Linebuf, Buffered
<1>9. Flushbuf(f, EOF) = q
  <2>1. FlushReady(q, EOF, tw) = Settled(q, tw, 0)
    BY DEF FlushReady
  <2>2. PICK z : z = Settled(q, tw, 0)
    OBVIOUS
  <2>3. IsSettled(z, q, tw, 0)
    BY <1>0, <1>5, <2>2, SettledDoes
  <2>4. z.target = q.target /\ z.getl = q.getl /\ z.bufp = q.bufp
    <3>1. q.target \in Nat \cup {-1}
      BY <1>5 DEF Typed
    <3>2. z.target = (IF q.target = -1 THEN -1 ELSE q.target + 0) /\ z.getl = 0
          /\ z.bufp = q.bufp
      BY <1>5, <1>6, <2>3 DEF IsSettled
    <3> QED
      BY <1>5, <3>1, <3>2
  <2>5. z = [q EXCEPT !.target = q.target, !.getl = q.getl, !.bufp = q.bufp]
    BY <2>3, <2>4 DEF IsSettled
  <2>6. z = q
    BY <1>5, <2>5 DEF Typed
  <2> QED
    BY <1>7, <2>1, <2>2, <2>6
<1>10. PICK k : k = Flshfp(f, EOF)
  OBVIOUS
<1>11. k = Flushed(q, 0)
  <2>1. Unpush(f) = f
    BY <1>0 DEF Unpush
  <2>2. [f EXCEPT !.seen = TRUE] = f
    BY <1>0 DEF Typed
  <2>3. k = FlushOrPut(f, EOF)
    BY <1>0, <1>10, <2>1, <2>2 DEF Flshfp
  <2>4. [f EXCEPT !.putl = IF f.active THEN BufSize ELSE @] = f
    BY <1>0 DEF Typed
  <2>5. FlushOrPut(f, EOF) = Flushed(Flushbuf(f, EOF), 0)
    BY <2>4 DEF FlushOrPut
  <2> QED
    BY <1>9, <2>3, <2>5
<1>12. IsHidden(k, q)
  BY <1>5, <1>11, FlushedDoes
<1>13. Typed(k) /\ ~k.error /\ Linebuf(k) /\ k.mode = q.mode
  BY <1>5, <1>8, <1>12 DEF IsHidden, Linebuf
<1>14. Carried(k, f, <<>>)
  BY <1>10, FlushCarried
<1>15. Carried(q, f, <<>>)
  <2>1. IsHidden(q, k)
    BY <1>5, <1>12, HiddenBack
  <2>2. Roomy(q) /\ Buffered(k)
    BY <1>0, <1>5, <1>13 DEF Roomy, Linebuf, Buffered
  <2> QED
    BY <1>13, <1>14, <2>1, <2>2, CarriedHidden
<1>16. Outs(q) /\ Roomy(q)
  BY <1>5, <1>15, CarriedOuts DEF Carried
<1>17. Carried(r, q, <<c>>)
  BY <1>0, <1>5, <1>8, <1>16, PutFlushed
<1>18. /\ <<c>> \in Seq(Byte) /\ <<>> \in Seq(Byte) /\ <<>> \o <<c>> = <<c>>
  BY CharByte
<1> HIDE DEF r
<1>19. Carried(r, f, <<c>>)
  <2>1. Carried(r, f, <<>> \o <<c>>)
    BY <1>5, <1>15, <1>17, <1>18, CarriedChain
  <2> QED
    BY <1>18, <2>1
<1>20. /\ Typed(y) /\ y.mode = q.mode /\ y.putl = BufSize /\ y.seen /\ ~y.error /\ ~y.pushed
       /\ y.active = q.active
  <2>1. IsPut(y, q, c)
    BY <1>0, <1>5, PutDoes
  <2>2. y = [q EXCEPT !.buf = y.buf, !.bufp = q.bufp + 1, !.ret = c] /\ Typed(y)
    BY <2>1 DEF IsPut
  <2> HIDE DEF y
  <2> QED
    BY <1>5, <2>2 DEF Typed
<1> HIDE DEF y
<1>21. r = Flushed(x, 0)
  <2>1. Unpush(y) = y
    BY <1>20 DEF Unpush
  <2>2. [y EXCEPT !.seen = TRUE] = y
    BY <1>20 DEF Typed
  <2>3. r = FlushOrPut(y, EOF)
    BY <1>20, <2>1, <2>2 DEF Flshfp, r
  <2>4. [y EXCEPT !.putl = IF y.active THEN BufSize ELSE @] = y
    BY <1>20 DEF Typed
  <2>5. FlushOrPut(y, EOF) = Flushed(Flushbuf(y, EOF), 0)
    BY <2>4 DEF FlushOrPut
  <2> QED
    BY <2>3, <2>5
<1>22. x = Flushbuf(f, c) /\ g = Flushed(x, c)
  <2>1. FlushReady(q, c, tw) = WriteOut(y, EOF, tw)
    BY <1>0, <1>8 DEF FlushReady, y
  <2>2. x = WriteOut(y, EOF, tw)
    <3>1. y.putl > 0
      BY <1>0, <1>20
    <3> QED
      BY <1>6, <3>1 DEF Flushbuf
  <2> QED
    BY <1>0, <1>7, <2>1, <2>2
<1> HIDE DEF x
<1>23. Typed(x)
  <2>1. Typed(g) /\ Typed(r)
    BY <1>19 DEF IsWritten, Carried
  <2>2. Outs(q) /\ Buffered(q) /\ q.bufp < BufSize
    BY <1>0, <1>5, <1>8, <1>16
  <2>3. Carried(y, q, <<c>>) /\ ~y.error
    BY <1>16, <2>2, PutCarried DEF y
  <2>4. Writes(y) /\ y.putl # 0
    BY <1>0, <1>20, <2>3 DEF Carried
  <2> QED
    BY <2>4, FlushbufDoes DEF x
<1>24. /\ IsHidden(g, x) /\ g.ret = (IF x.error THEN EOF ELSE c)
       /\ (Linebuf(x) => g.putl = 0 /\ g.active)
       /\ (~Linebuf(x) => g.putl = x.putl /\ g.active = x.active)
  BY <1>22, <1>23, FlushedDoes
<1>25. /\ IsHidden(r, x)
       /\ (Linebuf(x) => r.putl = 0 /\ r.active)
       /\ (~Linebuf(x) => r.putl = x.putl /\ r.active = x.active)
  BY <1>21, <1>23, FlushedDoes
<1>26. Alike(g, r)
  <2>1. Typed(g) /\ Typed(r) /\ g.active \in BOOLEAN /\ r.active \in BOOLEAN
    BY <1>24, <1>25 DEF IsHidden, Typed
  <2>2. g.putl = r.putl /\ g.active = r.active
    BY <1>24, <1>25, <2>1
  <2> QED
    BY <1>24, <1>25, <2>1, <2>2 DEF IsHidden, Alike
<1>27. Carried(g, f, <<c>>)
  BY <1>19, <1>26, CarriedAlike
<1> QED
  BY <1>0, <1>24, <1>27 DEF IsCharred, IsHidden

\* __flshfp with a character.
LEMMA FlshCharred ==
  ASSUME NEW f, Outs(f), NEW c \in Char, NEW g, g = Flshfp(f, c)
  PROVE  IsCharred(g, f, c) /\ IsWritten(g, f)
<1> DEFINE u == [f EXCEPT !.seen = TRUE]
           h == [u EXCEPT !.putl = IF u.active THEN BufSize ELSE u.putl]
<1>0. /\ Typed(f) /\ Shape(f) /\ f.error = FALSE /\ f.pushed = FALSE /\ Writes(f) /\ Rested(f)
      /\ BufSize \in Nat \ {0} /\ c # EOF
  BY OutsDoes, CharByte, StreamAssumption DEF Outs, Typed
<1>1. g = FlushOrPut(u, c)
  <2>1. Unpush(f) = f
    BY <1>0 DEF Unpush
  <2> QED
    BY <1>0, <2>1 DEF Flshfp
<1>2. Alike(u, f) /\ u.seen
  BY <1>0, SeenAlike DEF Typed
<1>3. Flshfp(u, EOF) = FlushOrPut(u, EOF) /\ Flshfp(u, c) = FlushOrPut(u, c)
  <2>1. u.error = FALSE /\ u.pushed = FALSE
    BY <1>0 DEF Typed
  <2>2. Unpush(u) = u /\ [u EXCEPT !.seen = TRUE] = u
    BY <1>0, <2>1 DEF Unpush, Typed
  <2> HIDE DEF u
  <2> QED
    BY <2>1, <2>2 DEF Flshfp
<1> HIDE DEF u
<1>4. Outs(u)
  BY <1>2, AlikeOuts
<1>5. /\ Typed(u) /\ Shape(u) /\ Writes(u) /\ Rested(u) /\ ~u.error /\ ~u.pushed
      /\ u.bufp \in 0 .. BufSize /\ u.putl \in {0, BufSize} /\ (u.active => Linebuf(u))
      /\ (~Buffered(u) => u.putl = 0 /\ u.bufp = 0) /\ u.mode.write
      /\ (Linebuf(u) => Buffered(u))
  BY <1>4, OutsDoes DEF Outs, Shape, Typed, Linebuf, Buffered
<1>6. IsWritten(g, f) /\ IsWritten(g, u)
  BY <1>0, <1>1, <1>3, <1>5, FlushChar
<1>7. SUFFICES IsCharred(g, u, c)
  BY <1>2, <1>6, CarriedFrom DEF IsCharred
<1>8. CASE Room(u)
  <2> DEFINE v == Put(u, c)
  <2>1. u.bufp < BufSize /\ Buffered(u) /\ Roomy(u)
    BY <1>0, <1>5, <1>8 DEF Room, Roomy
  <2>2. CASE ~(Linebuf(u) /\ c = Newline)
    <3>1. g = v
      BY <1>0, <1>1, <1>8, <2>2 DEF FlushOrPut
    <3> QED
      BY <1>0, <1>4, <2>1, <3>1, PutCarried DEF IsCharred
  <2>3. CASE Linebuf(u) /\ c = Newline
    <3> DEFINE y == [v EXCEPT !.putl = IF v.active THEN BufSize ELSE v.putl]
    <3>1. g = Flushed(Flushbuf([v EXCEPT !.putl = IF u.active THEN BufSize ELSE @], EOF),
                      0)
      BY <1>0, <1>1, <1>8, <2>3 DEF FlushOrPut
    <3>2. /\ Writes(v) /\ v.active = u.active /\ v.seen = u.seen
      BY <1>5, <2>1, PutKeeps
    <3>3. Typed(v) /\ Unpush(v) = v /\ ~v.error
      BY <3>2 DEF Writes, Safe, Shape, Unpush
    <3> HIDE DEF v
    <3>4. g = Flushed(Flushbuf(y, EOF), 0)
      BY <3>1, <3>2
    <3>5. [v EXCEPT !.seen = TRUE] = v
      BY <1>2, <3>2, <3>3 DEF Typed
    <3>6. Flshfp(v, EOF) = FlushOrPut(v, EOF)
      BY <3>3, <3>5 DEF Flshfp
    <3>7. FlushOrPut(v, EOF) = Flushed(Flushbuf(y, EOF), 0)
      BY DEF FlushOrPut
    <3>8. g = Flshfp(Put(u, c), EOF)
      BY <3>4, <3>6, <3>7 DEF v
    <3>9. Carried(g, u, <<c>>) /\ (~g.error => g.ret = 0)
      BY <1>4, <2>1, <3>8, PutFlushed
    <3> QED
      BY <3>9, StreamAssumption DEF IsCharred
  <2> QED
    BY <2>2, <2>3
<1>9. CASE ~Room(u)
  <2>1. g = Flushed(Flushbuf(h, c), c)
    BY <1>0, <1>1, <1>9 DEF FlushOrPut
  <2>2. Flshfp(u, EOF) = Flushed(Flushbuf(h, EOF), 0)
    BY <1>3 DEF FlushOrPut
  <2>3. /\ IsHidden(h, u) /\ h.active = u.active
        /\ h.putl = IF u.active THEN BufSize ELSE u.putl
        /\ Buffered(u) => h.putl \in {0, BufSize}
        /\ ~Buffered(u) => h.putl = 0
    BY <1>5, ShownDoes
  <2>4. CASE ~Buffered(u)
    <3>1. h = u
      BY <1>5, <2>4 DEF Typed
    <3> HIDE DEF h
    <3> QED
      BY <1>4, <1>6, <2>1, <2>4, <3>1, BareChar
  <2>5. ASSUME Buffered(u), h.putl = 0
        PROVE  h.bufp = 0 /\ h.getl = 0 /\ u.bufp = 0 /\ u.getl = 0 /\ ~u.active /\ u.putl = 0
    <3>1. ~u.active /\ u.putl = 0
      BY <1>0, <1>5, <2>3, <2>5
    <3>2. u.bufp = 0 /\ u.getl = 0
      BY <1>5, <2>5, <3>1 DEF Rested
    <3> QED
      BY <2>3, <3>1, <3>2 DEF IsHidden
  <2>6. CASE Buffered(u) /\ ~(Linebuf(u) /\ c = Newline)
    <3> DEFINE y == Flushbuf(h, EOF)
    <3> HIDE DEF h
    <3>1. Writes(h) /\ (Buffered(h) <=> Buffered(u)) /\ (Linebuf(h) <=> Linebuf(u))
      BY <1>5, <2>3, HiddenKeeps
    <3>2. h.putl = 0 => h.bufp <= h.getl
      BY <2>5, <2>6
    <3>3. Typed(y)
      BY <3>1, <3>2, FlushbufDoes
    <3>4. Flushbuf(h, c) = IF y.error THEN y ELSE Put(y, c)
      BY <2>6, <3>1, <3>2, FlushbufPut
    <3> HIDE DEF y
    <3>5. PICK k : k = Flshfp(u, EOF)
      OBVIOUS
    <3>6. k = Flushed(y, 0)
      BY <2>2, <3>5 DEF y
    <3>7. g = IF k.error THEN k ELSE Put(k, c)
      BY <2>1, <3>3, <3>4, <3>6, FlushedPutSame
    <3> QED
      BY <1>4, <2>6, <3>5, <3>7, FlushedPut
  <2>7. CASE Linebuf(u) /\ c = Newline /\ h.putl = 0
    <3>1. h.bufp = 0 /\ h.getl = 0 /\ u.bufp = 0 /\ u.getl = 0 /\ ~u.active /\ u.putl = 0
      BY <1>5, <2>5, <2>7
    <3>2. h = [u EXCEPT !.putl = 0]
      BY <3>1
    <3> HIDE DEF h
    <3> QED
      BY <1>2, <1>4, <1>6, <2>1, <2>7, <3>1, <3>2, LinedEmpty
  <2>8. CASE Linebuf(u) /\ c = Newline /\ h.putl # 0
    <3> HIDE DEF h
    <3>1. h.putl = BufSize /\ Typed(h) /\ Roomy(u)
      BY <1>0, <1>5, <2>3, <2>8 DEF IsHidden, Roomy
    <3>2. ~(u.bufp < BufSize)
      BY <1>0, <1>5, <1>9, <2>3, <2>8 DEF Room
    <3>3. h.bufp = BufSize
      BY <1>0, <1>5, <2>3, <3>2 DEF IsHidden
    <3>4. PICK k : k = Flshfp(u, EOF)
      OBVIOUS
    <3>5. k = Flushed(Flushbuf(h, EOF), 0)
      BY <2>2, <3>4
    <3> QED
      BY <1>4, <1>6, <2>1, <2>3, <2>8, <3>1, <3>3, <3>4, <3>5, LinedFull
  <2> QED
    BY <2>4, <2>6, <2>7, <2>8
<1> QED
  BY <1>8, <1>9

\* putc.
LEMMA PutcCarried ==
  ASSUME NEW f, Outs(f), NEW c \in Char, NEW g, g = Putc(f, c)
  PROVE  IsCharred(g, f, c)
<1>0. /\ f.bufp \in 0 .. BufSize /\ f.putl \in {0, BufSize} /\ BufSize \in Nat \ {0}
      /\ (~Buffered(f) => f.putl = 0) /\ c # EOF
  BY OutsDoes, CharByte, StreamAssumption DEF Shape, Typed
<1>1. CASE f.bufp < f.putl
  <2>1. Buffered(f) /\ Roomy(f) /\ f.bufp < BufSize
    BY <1>0, <1>1 DEF Roomy
  <2>2. g = Put(f, c)
    BY <1>1 DEF Putc
  <2> QED
    BY <1>0, <2>1, <2>2, PutCarried DEF IsCharred
<1>2. CASE ~(f.bufp < f.putl)
  <2>1. g = Flshfp(f, c)
    BY <1>2 DEF Putc
  <2> QED
    BY <2>1, FlshCharred
<1> QED
  BY <1>1, <1>2

-----------------------------------------------------------------------------
(* fwrite. *)

\* To learn where the kernel stands changes nothing that is seen.
LEMMA CheckOuts ==
  ASSUME NEW f, Outs(f), NEW g, g = CheckOffset(f)
  PROVE  /\ Outs(g) /\ Outcome(g) = Outcome(f) /\ Spot(g) = Spot(f) /\ (Roomy(f) => Roomy(g))
         /\ g.mode = f.mode /\ g.file = f.file /\ g.offset # -1 /\ g.error = f.error
         /\ (AtTarget(f) => AtTarget(g))
<1>0. /\ Typed(f) /\ Shape(f) /\ Safe(f) /\ f.mode.write /\ Bare(f) /\ Modest(f.mode)
      /\ Match(f, f.bufp) /\ Flat(f) /\ Writes(f) /\ Rested(f) /\ ~f.eof
      /\ f.target \in Nat \cup {-1} /\ f.offset \in Nat \cup {-1} /\ f.kpos \in Nat
  BY OutsDoes DEF Outs, Faithful, Typed
<1>1. IsChecked(g, f)
  BY <1>0, CheckKeeps
<1>2. /\ SameStream(g, f) /\ g.kpos = f.kpos /\ g.buf = f.buf /\ g.bufp = f.bufp
      /\ g.getl = f.getl /\ g.putl = f.putl /\ g.eof = f.eof
      /\ g.target \in Nat /\ g.offset \in Nat
      /\ (f.target = -1 => f.offset = -1) => Goal(g) = Goal(f)
      /\ f.offset # -1 => g.offset = f.offset
      /\ f.offset = -1 => g.offset = f.kpos
      /\ f.target # -1 => g.target = f.target
      /\ f.target = -1 => g.target = g.offset
      /\ f.offset = f.target => g.offset = g.target
      /\ Writes(g) /\ (Roomy(f) => Roomy(g)) /\ Rested(g)
  BY <1>0, <1>1 DEF IsChecked
<1>3. /\ g.mode = f.mode /\ g.file = f.file /\ g.pushed = f.pushed /\ g.error = f.error
      /\ g.active = f.active /\ g.pushbufp = f.pushbufp
  BY <1>2 DEF SameStream
<1>4. f.target = -1 <=> f.offset = -1
  BY <1>0 DEF Bare, Safe, Known
<1>5. Goal(g) = Goal(f)
  BY <1>2, <1>4
<1>6. Match(g, g.bufp)
  <2>1. SUFFICES ASSUME NEW i \in 0 .. BufSize - 1, f.bufp <= i, i < f.getl
                 PROVE  /\ g.target \in Nat /\ g.target + i < Len(f.file)
                        /\ f.buf[i] = f.file[g.target + i + 1]
    BY <1>2, <1>3 DEF Match
  <2>2. /\ f.target \in Nat /\ f.target + i < Len(f.file)
        /\ f.buf[i] = f.file[f.target + i + 1]
    BY <1>0, <2>1 DEF Match
  <2>3. g.target = f.target
    BY <1>2, <2>2
  <2> QED
    BY <2>2, <2>3
<1>7. Bare(g)
  <2>1. SUFFICES ASSUME ~Buffered(f)
                 PROVE  g.target = g.offset /\ g.offset = g.kpos /\ g.kpos <= Len(g.file)
    BY <1>0, <1>2, <1>3 DEF Bare, Buffered
  <2>2. /\ f.target # -1 => f.target = f.offset /\ f.offset = f.kpos
        /\ f.kpos <= Len(f.file)
    BY <1>0, <2>1 DEF Bare
  <2> QED
    BY <1>2, <1>3, <1>4, <2>2
<1>8. Flat(g) /\ Modest(g.mode)
  BY <1>0, <1>2, <1>3 DEF Flat
<1>9. Outs(g)
  BY <1>2, <1>6, <1>7, <1>8 DEF Outs, Faithful
<1>10. Spot(g) = Spot(f) /\ Outcome(g) = Outcome(f)
  BY <1>2, <1>3, <1>5 DEF Spot, OutAt, Outcome, Slice
<1> QED
  BY <1>2, <1>3, <1>9, <1>10 DEF AtTarget

\* g is f after d was written to it, and it counts n.
IsCounted(g, f, d, n) == Carried(g, f, d) /\ (~g.error => g.ret = n)

LEMMA CountedRet ==
  ASSUME NEW f, NEW d, NEW x, Carried(x, f, d), NEW n
  PROVE  IsCounted([x EXCEPT !.ret = n], f, d, n)
<1>1. PICK g : g = [x EXCEPT !.ret = n]
  OBVIOUS
<1>2. Typed(x)
  BY DEF Carried
<1>3. Alike(g, x) /\ g.ret = n
  BY <1>1, <1>2, RetAlike DEF Typed
<1> QED
  BY <1>1, <1>3, CarriedAlike DEF IsCounted

LEMMA WriteThroughIs ==
  ASSUME NEW f, Outs(f), Roomy(f), AtTarget(f), f.bufp = 0,
         Buffered(f) /\ ~f.mode.append => f.offset # -1,
         NEW d \in Seq(Char), d # <<>>, NEW before \in Nat,
         NEW g, g = WriteThrough(f, d, before)
  PROVE  IsCounted(g, f, d, before + Len(d))
<1> DEFINE w == SysWrite(f, d)
<1>0. /\ Safe(f) /\ Typed(f) /\ Shape(f) /\ f.mode.write /\ ~f.pushed /\ ~f.eof
      /\ ~f.error /\ f.kpos \in Nat /\ f.offset \in Nat \cup {-1} /\ Len(f.file) \in Nat
      /\ f.offset = f.target /\ d \in Seq(Byte) /\ Len(d) \in Nat \ {0}
      /\ f.getl \in 0 .. BufSize /\ Bare(f) /\ Modest(f.mode) /\ Writes(f)
  BY OutsDoes, StreamAssumption, SMTT(30) DEF Outs, Typed, AtTarget, Byte
<1>1. /\ Typed(w)
      /\ w = [f EXCEPT !.file = w.file, !.kpos = w.kpos, !.ret = w.ret]
      /\ w.ret \in {-1, Len(d)}
      /\ w.ret = Len(d) => w.kpos = At(f) + Len(d)
      /\ f.kpos <= Len(f.file) => w.kpos <= Len(w.file)
  <2>1. Typed(f) /\ d \in Seq(Byte) /\ d # <<>>
    BY <1>0
  <2>2. PICK e \in Seq(Byte) : e = d
    BY <2>1
  <2>3. PICK z : z = SysWrite(f, e)
    OBVIOUS
  <2>4. /\ Typed(z)
        /\ z = [f EXCEPT !.file = z.file, !.kpos = z.kpos, !.ret = z.ret]
        /\ z.ret \in {-1, Len(e)}
        /\ z.ret = Len(e) /\ e # <<>> => z.kpos = At(f) + Len(e)
        /\ f.kpos <= Len(f.file) => z.kpos <= Len(z.file)
    BY <2>1, <2>3, SysWriteDoes, ZenonT(60)
  <2> QED
    BY <2>1, <2>2, <2>3, <2>4
<1>2. g = IF w.ret <= 0 THEN [w EXCEPT !.error = TRUE, !.ret = before]
          ELSE [w EXCEPT !.offset = IF w.offset = -1 THEN w.offset ELSE w.offset + w.ret,
                         !.target = IF f.offset = -1 THEN w.target ELSE f.offset + w.ret,
                         !.ret = before + w.ret]
  BY DEF WriteThrough
<1>3. IsOutput(g, f.mode)
  BY <1>0, WriteThroughDoes
<1> HIDE DEF w
<1>4. /\ w.bufp = f.bufp /\ w.getl = f.getl /\ w.target = f.target /\ w.offset = f.offset
      /\ w.error = f.error /\ w.mode = f.mode /\ w.eof = f.eof
  BY <1>0, <1>1 DEF Typed
<1>5. Typed(g) /\ g.mode = f.mode /\ (~g.error => Writes(g) /\ Roomy(g))
  BY <1>3 DEF IsOutput, Stuck, Writes, Safe, Shape
<1>6. g.file = w.file /\ g.kpos = w.kpos /\ g.getl = w.getl /\ g.bufp = w.bufp
      /\ (w.ret <= 0 => g.error)
  BY <1>1, <1>2 DEF Typed
<1>7. f.getl = 0
  <2>1. CASE ~Buffered(f)
    BY <1>0, <2>1 DEF Shape
  <2>2. CASE Buffered(f)
    <3>1. /\ f.target = -1 => f.getl = 0
          /\ f.target # -1 => f.target + f.getl <= f.offset
      BY <1>0, <2>2 DEF Safe, Known
    <3> QED
      BY <1>0, <3>1
  <2> QED
    BY <2>1, <2>2
<1>8. ~f.mode.append => Goal(f) = f.kpos /\ (f.target # -1 => f.target = f.kpos)
  <2>1. CASE ~Buffered(f)
    BY <1>0, <2>1 DEF Bare, Goal
  <2>2. CASE Buffered(f)
    <3>1. ~f.mode.append /\ f.target # -1 => f.offset = f.kpos
      BY <1>0, <2>2 DEF Safe, Known
    <3> QED
      BY <1>0, <3>1 DEF Goal
  <2> QED
    BY <2>1, <2>2
<1>9. At(f) = OutAt(f)
  BY <1>8 DEF At, OutAt
<1>10. ASSUME ~g.error
       PROVE  /\ w.ret = Len(d) /\ Writes(g) /\ Roomy(g) /\ Bare(g)
              /\ g.bufp = 0 /\ g.getl = 0 /\ g.ret = before + Len(d)
              /\ ~f.mode.append => Goal(g) = Goal(f) + Len(d)
  <2>1. ~(w.ret <= 0) /\ w.ret = Len(d)
    BY <1>0, <1>1, <1>6, <1>10
  <2> DEFINE o == IF f.offset = -1 THEN -1 ELSE f.offset + Len(d)
  <2>2. g = [w EXCEPT !.offset = o, !.target = o, !.ret = before + Len(d)]
    BY <1>0, <1>2, <1>4, <2>1
  <2>3. o \in Nat \cup {-1} /\ (o = -1 <=> f.offset = -1)
        /\ (f.offset # -1 => o = f.offset + Len(d))
    BY <1>0
  <2> HIDE DEF o
  <2>4. g.target = o /\ g.offset = o /\ g.ret = before + Len(d)
    BY <1>1, <2>2 DEF Typed
  <2>5. g.kpos = At(f) + Len(d)
    BY <1>1, <1>6, <2>1
  <2>6. ~f.mode.append => /\ g.kpos = f.kpos + Len(d)
                          /\ g.target # -1 => g.target = g.kpos
    BY <1>0, <1>8, <2>3, <2>4, <2>5 DEF At
  <2>7. Bare(g)
    <3>1. SUFFICES ASSUME ~Buffered(f)
                   PROVE  /\ g.target # -1 => g.offset = g.kpos
                          /\ g.kpos <= Len(g.file)
      BY <1>5, <2>4 DEF Bare, Buffered
    <3>2. ~f.mode.append /\ f.kpos <= Len(f.file)
      BY <1>0, <3>1 DEF Modest, Buffered, Bare
    <3> QED
      BY <1>1, <1>6, <2>4, <2>6, <3>2
  <2>8. ~f.mode.append => Goal(g) = Goal(f) + Len(d)
    BY <1>8, <2>6 DEF Goal
  <2> QED
    BY <1>4, <1>5, <1>6, <1>7, <1>10, <2>1, <2>4, <2>7, <2>8
<1>11. Carried(g, f, d)
  BY <1>0, <1>5, <1>6, <1>9, <1>10, ThroughIs DEF w
<1> QED
  BY <1>10, <1>11 DEF IsCounted

\* One round of the loop that stores the data in the buffer.
LEMMA StoreIs ==
  ASSUME NEW f, Outs(f), Roomy(f), Buffered(f), NEW c \in Char, NEW n, n = f.ret,
         NEW g, g = Store(f, c)
  PROVE  IsCounted(g, f, <<c>>, n + 1)
<1> DEFINE h == IF f.bufp = BufSize THEN Flush(f) ELSE f
<1>0. /\ f.mode.write /\ ~f.error /\ f.bufp \in 0 .. BufSize /\ BufSize \in Nat \ {0}
      /\ Typed(f) /\ f.file \in Seq(Byte)
  BY OutsDoes, StreamAssumption
<1>1. g = Stored(h, c, n)
  BY <1>0 DEF Store
<1>2. /\ <<c>> \in Seq(Byte) /\ <<>> \in Seq(Byte) /\ <<>> \o <<c>> = <<c>>
  BY CharByte
<1>3. Carried(h, f, <<>>) /\ (~h.error => h.bufp < BufSize)
  <2>1. CASE f.bufp = BufSize
    <3>1. h = Flshfp(f, EOF)
      BY <1>0, <2>1 DEF Flush
    <3> QED
      BY <3>1, FlushCarried
  <2>2. CASE f.bufp # BufSize
    <3>1. h = f /\ f.bufp < BufSize
      BY <1>0, <2>2
    <3>2. Writes(f) /\ Faithful(f, f.bufp)
      BY DEF Outs
    <3>3. Carried(f, f, <<>>)
      BY <1>0, <3>2, PartSame, CarriedNone
    <3> QED
      BY <3>1, <3>3
  <2> QED
    BY <2>1, <2>2
<1> HIDE DEF h
<1>4. CASE h.error
  <2>1. g = [h EXCEPT !.ret = n]
    BY <1>1, <1>4 DEF Stored
  <2>2. Carried(h, f, <<>> \o <<c>>)
    BY <1>2, <1>3, <1>4, CarriedEnds
  <2>3. IsCounted(g, f, <<c>>, n)
    BY <1>2, <2>1, <2>2, CountedRet
  <2>4. g.error
    BY <1>3, <1>4, <2>1 DEF Carried, Typed
  <2> QED
    BY <2>3, <2>4 DEF IsCounted
<1>5. CASE ~h.error
  <2>1. Outs(h) /\ Roomy(h) /\ Buffered(h)
    BY <1>3, <1>5, CarriedOuts DEF Carried, Buffered
  <2>2. PICK x : x = Put(h, c)
    OBVIOUS
  <2>3. Carried(x, h, <<c>>)
    BY <1>3, <1>5, <2>1, <2>2, PutCarried
  <2>4. Carried(x, f, <<>> \o <<c>>)
    BY <1>2, <1>3, <1>5, <2>3, CarriedChain
  <2>5. g = [x EXCEPT !.ret = n + 1]
    BY <1>1, <1>5, <2>2 DEF Stored
  <2> QED
    BY <1>2, <2>4, <2>5, CountedRet
<1> QED
  BY <1>4, <1>5

LEMMA FrontStep ==
  ASSUME NEW d \in Seq(Byte), NEW k \in Nat, k + 1 <= Len(d)
  PROVE  /\ SubSeq(d, 1, k) \in Seq(Byte)
         /\ SubSeq(d, 1, k + 1) = SubSeq(d, 1, k) \o <<d[k + 1]>>
<1> DEFINE a == SubSeq(d, 1, k)
           e == <<d[k + 1]>>
           b == SubSeq(d, 1, k + 1)
<1>1. Len(d) \in Nat /\ d[k + 1] \in Byte
  OBVIOUS
<1>2. a \in Seq(Byte) /\ Len(a) = k /\ \A i \in 1 .. k : a[i] = d[i]
  BY <1>1, SubSeqProperties
<1>3. b \in Seq(Byte) /\ Len(b) = k + 1 /\ \A i \in 1 .. k + 1 : b[i] = d[i]
  BY <1>1, SubSeqProperties
<1>4. e \in Seq(Byte) /\ Len(e) = 1 /\ e[1] = d[k + 1]
  BY <1>1
<1> HIDE DEF a, b, e
<1>5. /\ a \o e \in Seq(Byte) /\ Len(a \o e) = Len(a) + Len(e)
      /\ \A i \in 1 .. Len(a) + Len(e) :
           (a \o e)[i] = IF i <= Len(a) THEN a[i] ELSE e[i - Len(a)]
  <2>1. a \in Seq(Byte) /\ e \in Seq(Byte)
    BY <1>2, <1>4
  <2> QED
    BY ONLY <2>1, ConcatProperties
<1>6. ASSUME NEW i \in 1 .. Len(b) PROVE b[i] = (a \o e)[i]
  <2>1. CASE i <= k
    <3>1. i \in 1 .. k /\ i \in 1 .. Len(a) + Len(e) /\ i \in 1 .. k + 1 /\ i <= Len(a)
      BY <1>2, <1>3, <1>4, <2>1
    <3> QED
      BY <1>2, <1>3, <1>5, <3>1
  <2>2. CASE ~(i <= k)
    <3>1. i = k + 1 /\ i - Len(a) = 1 /\ i \in 1 .. Len(a) + Len(e) /\ ~(i <= Len(a))
          /\ i \in 1 .. k + 1
      BY <1>2, <1>3, <1>4, <2>2
    <3> QED
      BY <1>3, <1>4, <1>5, <3>1
  <2> QED
    BY <2>1, <2>2
<1>7. Len(b) = Len(a \o e)
  BY <1>2, <1>3, <1>4, <1>5
<1>8. b = a \o e
  BY <1>3, <1>5, <1>6, <1>7, SameBytes
<1> QED
  BY <1>2, <1>8 DEF a, b, e

LEMMA CharSeq ==
  ASSUME NEW d \in Seq(Char)
  PROVE  d \in Seq(Byte) /\ Len(d) \in Nat /\ SubSeq(d, 1, 0) = <<>>
         /\ SubSeq(d, 1, Len(d)) = d
<1>1. d \in Seq(Byte) /\ Len(d) \in Nat
  BY DEF Byte
<1>2. SubSeq(d, 1, 0) = <<>>
  BY <1>1, SubSeqProperties
<1>3. SubSeq(d, 1, Len(d)) = d
  <2> DEFINE e == SubSeq(d, 1, Len(d))
  <2>1. e \in Seq(Byte) /\ Len(e) = Len(d) /\ \A i \in 1 .. Len(d) : e[i] = d[i]
    BY <1>1, SubSeqProperties
  <2> HIDE DEF e
  <2>2. e = d
    BY <1>1, <2>1, SameBytes
  <2> QED
    BY <2>2 DEF e
<1> QED
  BY <1>1, <1>2, <1>3

LEMMA CarriedSelf ==
  ASSUME NEW f, Outs(f), Roomy(f)
  PROVE  Carried(f, f, <<>>)
<1>1. Typed(f) /\ f.file \in Seq(Byte) /\ Writes(f) /\ Faithful(f, f.bufp)
  BY OutsDoes DEF Outs
<1> QED
  BY <1>1, PartSame, CarriedNone

\* The loop that stores the data in the buffer.
LEMMA FillBufferIs ==
  ASSUME NEW f, Outs(f), Roomy(f), Buffered(f), NEW d \in Seq(Char),
         NEW before \in Nat, NEW newline, NEW g, g = FillBuffer(f, d, before, newline)
  PROVE  IsCounted(g, f, d, before + Len(d))
<1> DEFINE n   == Len(d)
           x   == [f EXCEPT !.ret = before]
           all == CHOOSE a : a = [i \in 0 .. n |-> IF i = 0 THEN x
                                                   ELSE Store(a[i - 1], d[i])]
           h   == all[n]
           y   == Flush(h)
           v   == h.ret
           At0(k) == IsCounted(all[k], f, SubSeq(d, 1, k), before + k)
<1>0. /\ d \in Seq(Byte) /\ n \in Nat /\ SubSeq(d, 1, 0) = <<>> /\ SubSeq(d, 1, n) = d
  BY CharSeq
<1>1. g = FillDone(h, newline)
  BY DEF FillBuffer
<1>2. IsCounted(x, f, <<>>, before)
  BY CarriedSelf, CountedRet
<1> HIDE DEF x
<1>3. all = [i \in 0 .. n |-> IF i = 0 THEN x ELSE Store(all[i - 1], d[i])]
  <2>1. \E a : IsStoreLoop(a, n, x, d)
    BY <1>0, StoreLoop
  <2>2. all = CHOOSE a : IsStoreLoop(a, n, x, d)
    BY DEF IsStoreLoop
  <2> HIDE DEF all, n
  <2>3. IsStoreLoop(all, n, x, d)
    BY <2>1, <2>2
  <2> QED
    BY <2>3 DEF IsStoreLoop
<1> HIDE DEF all, h
<1> DEFINE T == {k \in Nat : k <= n => At0(k)}
<1>4. 0 \in T
  <2>1. all[0] = x
    BY <1>0, <1>3
  <2>2. before + 0 = before
    OBVIOUS
  <2> QED
    BY <1>0, <1>2, <2>1, <2>2
<1>5. ASSUME NEW k \in Nat, k \in T PROVE k + 1 \in T
  <2>1. SUFFICES ASSUME k + 1 <= n PROVE At0(k + 1)
    OBVIOUS
  <2>2. At0(k)
    BY <1>0, <1>5, <2>1
  <2>3. all[k + 1] = Store(all[k], d[k + 1]) /\ d[k + 1] \in Char
    BY <1>0, <1>3, <2>1
  <2>4. PICK r, c, z, e : r = all[k] /\ c = d[k + 1] /\ z = all[k + 1] /\ e = SubSeq(d, 1, k)
    OBVIOUS
  <2>5. Carried(r, f, e) /\ (~r.error => r.ret = before + k)
    BY <2>2, <2>4 DEF IsCounted
  <2>6. z = Store(r, c) /\ c \in Char
    BY <2>3, <2>4
  <2>7. e \in Seq(Byte) /\ SubSeq(d, 1, k + 1) = e \o <<c>>
    BY <1>0, <2>1, <2>4, FrontStep
  <2>8. <<c>> \in Seq(Byte)
    BY <2>6, CharByte
  <2>9. IsCounted(z, f, e \o <<c>>, before + (k + 1))
    <3>1. CASE r.error
      <4>1. z = r
        BY <2>6, <3>1 DEF Store
      <4> QED
        BY <2>5, <2>7, <2>8, <3>1, <4>1, CarriedEnds DEF IsCounted
    <3>2. CASE ~r.error
      <4>1. Outs(r) /\ Roomy(r) /\ Buffered(r)
        BY <2>5, <3>2, CarriedOuts DEF Carried, Buffered
      <4>2. IsCounted(z, r, <<c>>, r.ret + 1)
        BY <2>6, <4>1, StoreIs
      <4>3. Carried(z, f, e \o <<c>>)
        BY <2>5, <2>7, <2>8, <3>2, <4>2, CarriedChain DEF IsCounted
      <4>4. r.ret + 1 = before + (k + 1)
        BY <2>5, <3>2
      <4> QED
        BY <4>2, <4>3, <4>4 DEF IsCounted
    <3> QED
      BY <3>1, <3>2
  <2> QED
    BY <2>4, <2>7, <2>9
<1>6. At0(n)
  <2> HIDE DEF At0
  <2>1. n \in T
    <3> HIDE DEF T, n
    <3> QED
      BY <1>0, <1>4, <1>5, SetInduction
  <2> QED
    BY <1>0, <2>1
<1>7. Carried(h, f, d) /\ (~h.error => h.ret = before + n)
  BY <1>0, <1>6 DEF IsCounted, h
<1> HIDE DEF n, At0, T
<1>8. CASE newline
  <2>1. g = [y EXCEPT !.ret = v]
    BY <1>1, <1>8 DEF FillDone
  <2>2. h.mode.write /\ Typed(h) /\ h.mode = f.mode
    BY <1>7, OutsDoes DEF Carried
  <2>3. y = Flshfp(h, EOF)
    BY <2>2 DEF Flush
  <2> HIDE DEF y, v
  <2>4. CASE h.error
    <3>1. Alike(y, h)
      BY <2>2, <2>3, <2>4, FlushError
    <3>2. Carried(y, f, d)
      BY <1>7, <3>1, CarriedAlike
    <3>3. IsCounted(g, f, d, v)
      BY <2>1, <3>2, CountedRet
    <3>4. g.error
      BY <2>1, <2>4, <3>1 DEF Alike, Typed
    <3> QED
      BY <3>3, <3>4 DEF IsCounted
  <2>5. CASE ~h.error
    <3>1. Outs(h)
      BY <1>7, <2>5, CarriedOuts
    <3>2. Carried(y, h, <<>>)
      BY <2>3, <3>1, FlushCarried
    <3>3. <<>> \in Seq(Byte) /\ d \o <<>> = d
      BY <1>0, ConcatEmptySeq
    <3>4. Carried(y, f, d \o <<>>)
      BY <1>0, <1>7, <2>5, <3>2, <3>3, CarriedChain
    <3>5. IsCounted(g, f, d, v)
      BY <2>1, <3>3, <3>4, CountedRet
    <3> QED
      BY <1>7, <2>5, <3>5 DEF n, v
  <2> QED
    BY <2>4, <2>5
<1>9. CASE ~newline
  <2>1. g = h
    BY <1>1, <1>9 DEF FillDone
  <2> QED
    BY <1>7, <2>1 DEF IsCounted, n
<1> QED
  BY <1>8, <1>9

\* fwrite with an empty buffer.
LEMMA FwriteFlushedIs ==
  ASSUME NEW f, Outs(f), Roomy(f), Buffered(f), f.bufp = 0,
         ~f.mode.append => f.offset # -1,
         NEW d \in Seq(Char), d # <<>>, NEW before \in Nat,
         NEW g, g = FwriteFlushed(f, d, before)
  PROVE  IsCounted(g, f, d, before + Len(d))
<1>1. ~f.error
  BY OutsDoes
<1>2. CASE AtTarget(f) /\ (Lines(f, d) \/ ~Fits(f, d))
  <2>1. g = WriteThrough(f, d, before)
    BY <1>1, <1>2 DEF FwriteFlushed
  <2> QED
    BY <1>2, <2>1, WriteThroughIs
<1>3. CASE ~(AtTarget(f) /\ (Lines(f, d) \/ ~Fits(f, d)))
  <2>1. PICK newline : newline = Lines(f, d)
    OBVIOUS
  <2>2. g = FillBuffer(f, d, before, newline)
    BY <1>1, <1>3, <2>1 DEF FwriteFlushed
  <2> QED
    BY <2>2, FillBufferIs
<1> QED
  BY <1>2, <1>3

\* After a failed flush nothing is written.
LEMMA FlushedFirst ==
  ASSUME NEW f, Outs(f), NEW h, Carried(h, f, <<>>),
         NEW d \in Seq(Byte), NEW n, NEW g,
         ~h.error => IsCounted(g, h, d, n),
         h.error => g = [h EXCEPT !.ret = g.ret]
  PROVE  IsCounted(g, f, d, n)
<1>1. <<>> \in Seq(Byte) /\ <<>> \o d = d
  BY ConcatEmptySeq
<1>2. CASE h.error
  <2>1. Carried(h, f, <<>> \o d)
    BY <1>1, <1>2, CarriedEnds
  <2>2. PICK v : v = g.ret
    OBVIOUS
  <2>3. g = [h EXCEPT !.ret = v]
    BY <1>2, <2>2
  <2>4. IsCounted(g, f, d, v)
    BY <1>1, <2>1, <2>3, CountedRet
  <2>5. g.error
    BY <1>2, <2>3 DEF Carried, Typed
  <2> QED
    BY <2>4, <2>5 DEF IsCounted
<1>3. CASE ~h.error
  <2>1. Carried(g, f, <<>> \o d)
    BY <1>1, <1>3, CarriedChain DEF IsCounted
  <2> QED
    BY <1>1, <1>3, <2>1 DEF IsCounted
<1> QED
  BY <1>2, <1>3

LEMMA FwriteRestIs ==
  ASSUME NEW f, Outs(f), Roomy(f), f.offset # -1, Buffered(f) \/ AtTarget(f),
         NEW d \in Seq(Char), d # <<>>, NEW before \in Nat,
         NEW g, g = FwriteRest(f, d, before)
  PROVE  IsCounted(g, f, d, before + Len(d))
<1> DEFINE q == AtTarget(f) /\ (~Buffered(f) \/ (Lines(f, d) /\ f.bufp = 0))
           h == IF f.bufp = 0 THEN f ELSE Flshfp(f, EOF)
<1>0. /\ Writes(f) /\ Shape(f) /\ f.bufp \in 0 .. BufSize /\ BufSize \in Nat \ {0}
      /\ d \in Seq(Byte) /\ ~f.error
  BY OutsDoes, CharSeq, StreamAssumption DEF Outs
<1>1. g = IF q THEN WriteThrough(f, d, before)
          ELSE IF Fits(f, d) THEN FillBuffer(f, d, before, Lines(f, d))
          ELSE FwriteFlushed(h, d, before)
  BY DEF FwriteRest
<1>2. CASE q
  <2>1. f.bufp = 0 /\ AtTarget(f)
    BY <1>0, <1>2 DEF Shape
  <2>2. g = WriteThrough(f, d, before)
    BY <1>1, <1>2
  <2> QED
    BY <2>1, <2>2, WriteThroughIs
<1>3. CASE ~q
  <2>1. Buffered(f)
    BY <1>3
  <2>2. CASE Fits(f, d)
    <3>1. PICK newline : newline = Lines(f, d)
      OBVIOUS
    <3>2. g = FillBuffer(f, d, before, newline)
      BY <1>1, <1>3, <2>2, <3>1
    <3> QED
      BY <2>1, <3>2, FillBufferIs
  <2>3. CASE ~Fits(f, d)
    <3>1. g = FwriteFlushed(h, d, before)
      BY <1>1, <1>3, <2>3
    <3>2. /\ Carried(h, f, <<>>) /\ (~h.error => h.bufp = 0)
          /\ ~h.error /\ ~f.mode.append => h.offset # -1
      <4>1. CASE f.bufp = 0
        BY <4>1, CarriedSelf
      <4>2. CASE f.bufp # 0
        <5>1. h = Flshfp(f, EOF)
          BY <4>2
        <5> HIDE DEF h
        <5>2. Carried(h, f, <<>>) /\ (~h.error => h.bufp = 0)
          BY <5>1, FlushCarried
        <5>3. IsFlush(h, f)
          BY <1>0, <5>1, FlushDoes
        <5>4. f.bufp > 0
          BY <1>0, <4>2
        <5>5. ~h.error /\ ~f.mode.append => h.offset # -1
          BY <5>3, <5>4 DEF IsFlush, Stuck
        <5> QED
          BY <5>2, <5>5
      <4> QED
        BY <4>1, <4>2
    <3> HIDE DEF h
    <3>3. ASSUME ~h.error PROVE IsCounted(g, h, d, before + Len(d))
      <4>1. Outs(h) /\ Roomy(h) /\ h.mode = f.mode /\ Buffered(h)
        BY <2>1, <3>2, <3>3, CarriedOuts DEF Carried, Buffered
      <4>2. h.bufp = 0 /\ (~h.mode.append => h.offset # -1)
        BY <3>2, <3>3, <4>1
      <4> QED
        BY <3>1, <4>1, <4>2, FwriteFlushedIs
    <3>4. h.error => g = [h EXCEPT !.ret = g.ret]
      <4>1. HAVE h.error
      <4>2. g = [h EXCEPT !.ret = before]
        BY <3>1, <4>1 DEF FwriteFlushed
      <4>3. g.ret = before
        BY <3>2, <4>2 DEF Carried, Typed
      <4> QED
        BY <4>2, <4>3
    <3>5. PICK n : n = before + Len(d)
      OBVIOUS
    <3>6. IsCounted(g, f, d, n)
      BY <1>0, <3>2, <3>3, <3>4, <3>5, FlushedFirst
    <3> QED
      BY <3>5, <3>6
  <2> QED
    BY <2>2, <2>3
<1> HIDE DEF q
<1> QED
  BY <1>2, <1>3

\* fwrite.
LEMMA FwriteIs ==
  ASSUME NEW f, Outs(f), Buffered(f) \/ AtTarget(f),
         NEW d \in Seq(Char), Len(d) >= 2, NEW g, g = Fwrite(f, d)
  PROVE  IsCounted(g, f, d, Len(d))
<1>0. /\ Typed(f) /\ BufSize \in Nat \ {0} /\ f.putl \in {0, BufSize} /\ ~f.error
      /\ d \in Seq(Byte) /\ Len(d) \in Nat
  BY OutsDoes, CharSeq, StreamAssumption DEF Typed
<1>1. /\ d[1] \in Char /\ Tail(d) \in Seq(Char) /\ Tail(d) # <<>> /\ d # <<>>
      /\ Len(Tail(d)) = Len(d) - 1 /\ <<d[1]>> \o Tail(d) = d
  <2>1. d # <<>>
    OBVIOUS
  <2>2. Tail(d) \in Seq(Char) /\ Len(Tail(d)) = Len(d) - 1
        /\ \A i \in 1 .. Len(Tail(d)) : Tail(d)[i] = d[i + 1]
    BY <2>1, HeadTailProperties
  <2>3. d[1] \in Char
    OBVIOUS
  <2> DEFINE t == Tail(d)
             e == <<d[1]>>
  <2>4. /\ t \in Seq(Byte) /\ e \in Seq(Byte) /\ Len(e) = 1 /\ e[1] = d[1]
        /\ Len(t) = Len(d) - 1 /\ \A i \in 1 .. Len(t) : t[i] = d[i + 1]
    BY <2>2, <2>3, CharSeq, CharByte
  <2> HIDE DEF t, e
  <2>5. t # <<>>
    BY <1>0, <2>4
  <2>6. /\ e \o t \in Seq(Byte) /\ Len(e \o t) = Len(e) + Len(t)
        /\ \A i \in 1 .. Len(e) + Len(t) :
             (e \o t)[i] = IF i <= Len(e) THEN e[i] ELSE t[i - Len(e)]
    <3>1. t \in Seq(Byte) /\ e \in Seq(Byte)
      BY <2>4
    <3> QED
      BY ONLY <3>1, ConcatProperties
  <2>7. ASSUME NEW i \in 1 .. Len(e \o t) PROVE (e \o t)[i] = d[i]
    <3>1. i \in 1 .. Len(e) + Len(t)
      BY <2>6, <2>7
    <3>2. CASE i = 1
      BY <2>4, <2>6, <3>1, <3>2
    <3>3. CASE i # 1
      <4>1. i - 1 \in 1 .. Len(t) /\ ~(i <= Len(e)) /\ i - Len(e) = i - 1 /\ (i - 1) + 1 = i
        BY <1>0, <2>4, <3>1, <3>3
      <4> QED
        BY <2>4, <2>6, <3>1, <4>1
    <3> QED
      BY <3>2, <3>3
  <2>8. Len(e \o t) = Len(d)
    BY <1>0, <2>4, <2>6
  <2>9. e \o t = d
    BY <1>0, <2>6, <2>7, <2>8, SameBytes
  <2> QED
    BY <2>1, <2>2, <2>3, <2>5, <2>9 DEF t, e
\* What fwrite goes on with.
<1>2. ASSUME NEW h, Outs(h), Roomy(h), Buffered(h) \/ AtTarget(h),
             NEW t \in Seq(Char), t # <<>>, NEW before \in Nat,
             NEW r, r = FwriteRest(CheckOffset(h), t, before)
      PROVE  IsCounted(r, h, t, before + Len(t))
  <2>1. PICK c : c = CheckOffset(h)
    OBVIOUS
  <2>2. /\ Outs(c) /\ Outcome(c) = Outcome(h) /\ Spot(c) = Spot(h) /\ (Roomy(h) => Roomy(c))
        /\ c.mode = h.mode /\ c.file = h.file /\ c.offset # -1
        /\ (AtTarget(h) => AtTarget(c))
    BY <1>2, <2>1, CheckOuts
  <2>3. Buffered(c) \/ AtTarget(c)
    BY <1>2, <2>2 DEF Buffered
  <2>4. IsCounted(r, c, t, before + Len(t))
    BY <1>2, <2>1, <2>2, <2>3, FwriteRestIs
  <2> QED
    BY <2>2, <2>4 DEF IsCounted, Carried
<1>3. CASE ~(~f.seen \/ f.putl = 0)
  <2>1. g = FwriteRest(CheckOffset(f), d, 0)
    BY <1>0, <1>3 DEF Fwrite
  <2>2. Roomy(f) /\ 0 \in Nat
    BY <1>0, <1>3 DEF Roomy
  <2>3. IsCounted(g, f, d, 0 + Len(d))
    BY <1>1, <1>2, <2>1, <2>2
  <2>4. 0 + Len(d) = Len(d)
    BY <1>0
  <2> QED
    BY <2>3, <2>4
<1>4. CASE ~f.seen \/ f.putl = 0
  <2>1. PICK h, c, t : h = Flshfp(f, c) /\ c = d[1] /\ t = Tail(d)
    OBVIOUS
  <2>2. g = FwriteFirst(h, t)
    BY <1>0, <1>4, <2>1 DEF Fwrite
  <2>3. c \in Char /\ t \in Seq(Char) /\ t # <<>> /\ <<c>> \o t = d /\ Len(t) = Len(d) - 1
    BY <1>1, <2>1
  <2>4. t \in Seq(Byte) /\ <<c>> \in Seq(Byte)
    BY <2>3, CharSeq, CharByte
  <2>5. IsWritten(h, f) /\ Carried(h, f, <<c>>)
    BY <2>1, <2>3, FlshCharred DEF IsCharred
  <2>6. CASE h.error
    <3>1. g = [h EXCEPT !.ret = 0]
      BY <2>2, <2>6 DEF FwriteFirst
    <3>2. Carried(h, f, d)
      BY <2>3, <2>4, <2>5, <2>6, CarriedEnds
    <3>3. IsCounted(g, f, d, 0)
      BY <3>1, <3>2, CountedRet
    <3>4. g.error
      BY <2>5, <2>6, <3>1 DEF Carried, Typed
    <3> QED
      BY <3>3, <3>4 DEF IsCounted
  <2>7. CASE ~h.error
    <3>1. g = FwriteRest(CheckOffset(h), t, 1)
      BY <2>2, <2>3, <2>7 DEF FwriteFirst
    <3>2. Outs(h) /\ Roomy(h) /\ (Buffered(h) \/ AtTarget(h)) /\ 1 \in Nat
      BY <2>5, <2>7, CarriedOuts DEF Carried, IsWritten, Buffered, AtTarget
    <3>3. IsCounted(g, h, t, 1 + Len(t))
      BY <1>2, <2>3, <3>1, <3>2
    <3>4. Carried(g, f, <<c>> \o t)
      BY <2>4, <2>5, <2>7, <3>3, CarriedChain DEF IsCounted
    <3>5. 1 + Len(t) = Len(d)
      BY <1>0, <2>3
    <3> QED
      BY <2>3, <3>3, <3>4, <3>5 DEF IsCounted
  <2> QED
    BY <2>6, <2>7
<1> QED
  BY <1>3, <1>4

-----------------------------------------------------------------------------
(* The calls of the program as steps of ByteFile. *)

\* Place, of any stream.
PlaceOf(f, d) == IF f.mode.append /\ d \in {"out", "sync"} THEN Len(Outcome(f))
                 ELSE IF f.eof /\ ~Buffered(f) THEN f.kpos
                 ELSE Where(f)

\* What the buffer has to do with the file.
Honest(f, d) ==
  ~f.error => /\ Modest(f.mode) /\ Bare(f)
              /\ d = "out" => Match(f, f.bufp) /\ Flat(f)
              /\ d # "out" => Match(f, 0) /\ Touched(f)

RefInv == StreamInv /\ (open => Honest(s, dir))

LEMMA ViewIs ==
  View = Outcome(s) /\ Place = PlaceOf(s, dir)
<1>1. View = Outcome(s)
  BY OutcomeView
<1> QED
  BY <1>1 DEF Place, PlaceOf

LEMMA ViewNext ==
  View' = Outcome(s') /\ Place' = PlaceOf(s', dir')
<1>1. View' = Outcome(s')
  BY DEF View, Holds, Outcome, Goal
<1> QED
  BY <1>1 DEF Place, PlaceOf

LEMMA PartBetween ==
  ASSUME NEW y, NEW x, NEW goal, NEW q, Part(y, x, goal, q), Len(x) \in Nat, Len(y) \in Nat
  PROVE  Abstract!Between(y, x, goal)
BY DEF Part, Abstract!Between

LEMMA SameBetween ==
  ASSUME NEW x \in Seq(Byte), NEW goal
  PROVE  Abstract!Between(x, x, goal)
<1>1. Part(x, x, goal, 0) /\ Len(x) \in Nat
  BY PartSame
<1> QED
  BY <1>1, PartBetween

\* A call that returns, as ByteFile sees the stream it leaves.
LEMMA RetSame ==
  ASSUME NEW f, Typed(f), NEW v, NEW g, g = [f EXCEPT !.ret = v], NEW d
  PROVE  /\ Typed(g) /\ g.file = f.file /\ g.mode = f.mode /\ g.error = f.error
         /\ g.pushed = f.pushed /\ Back(g) = Back(f) /\ Outcome(g) = Outcome(f)
         /\ PlaceOf(g, d) = PlaceOf(f, d) /\ (Honest(f, d) => Honest(g, d))
<1>1. Alike(g, f)
  BY RetAlike
<1>2. /\ Typed(g) /\ g.file = f.file /\ g.kpos = f.kpos /\ g.buf = f.buf /\ g.bufp = f.bufp
      /\ g.getl = f.getl /\ g.putl = f.putl /\ g.target = f.target /\ g.offset = f.offset
      /\ g.pushed = f.pushed /\ g.pushbufp = f.pushbufp /\ g.eof = f.eof
      /\ g.error = f.error /\ g.active = f.active /\ g.mode = f.mode
  BY <1>1 DEF Alike
<1>3. g.pushc = f.pushc /\ g.seen = f.seen
  BY DEF Typed
<1>4. Back(g) = Back(f)
  BY <1>2, <1>3 DEF Back
<1>5. Outcome(g) = Outcome(f)
  BY <1>2 DEF Outcome, Goal, Slice
<1>6. PlaceOf(g, d) = PlaceOf(f, d)
  BY <1>2, <1>5 DEF PlaceOf, Where, Buffered
<1>7. Honest(f, d) => Honest(g, d)
  <2>1. /\ \A b : Match(f, b) => Match(g, b)
        /\ Bare(f) => Bare(g)
    <3>1. IsHidden(g, f)
      BY <1>2 DEF IsHidden
    <3> QED
      BY <3>1, HiddenIs
  <2>2. (Touched(f) => Touched(g)) /\ (Flat(f) => Flat(g))
    BY <1>2, <1>3 DEF Touched, Flat
  <2> QED
    BY <1>2, <2>1, <2>2 DEF Honest
<1> QED
  BY <1>2, <1>4, <1>5, <1>6, <1>7

\* A stream the program may write to.
LEMMA HonestOuts ==
  ASSUME NEW f, NEW d, Sound(f, d), Honest(f, d), ~f.error, f.mode.write, ~f.eof, d # "in"
  PROVE  Outs(f) /\ (~f.mode.append => PlaceOf(f, d) = Spot(f)) /\ Back(f) = <<>>
<1>1. Modest(f.mode) /\ Bare(f) /\ ~Stuck(f)
  BY DEF Honest, Stuck
<1>2. Writes(f) /\ Rested(f) /\ ~f.pushed /\ Safe(f)
  BY <1>1 DEF Sound, Reads, Writes, Rested, Roomy
<1>3. Match(f, f.bufp) /\ Flat(f)
  <2>1. CASE d = "out"
    BY <2>1 DEF Honest
  <2>2. CASE d # "out"
    <3>1. Match(f, 0) /\ f.bufp \in Nat /\ Shape(f)
      BY <1>2, <2>2 DEF Honest, Safe, Shape, Typed
    <3>2. Even(f)
      BY <1>1, <2>2 DEF Sound, Reads
    <3> QED
      BY <3>1, <3>2, EvenFlat, MatchLess
  <2> QED
    BY <2>1, <2>2
<1>4. ~f.mode.append => PlaceOf(f, d) = Spot(f)
  BY <1>2 DEF PlaceOf, Where, Spot, OutAt, Goal
<1> QED
  BY <1>1, <1>2, <1>3, <1>4 DEF Outs, Faithful, Back

\* A stream the program may read from.
LEMMA HonestServes ==
  ASSUME NEW f, NEW d, Sound(f, d), Honest(f, d), ~f.error, f.mode.read, d # "out",
         f.mode.append => d # "sync", Going(f)
  PROVE  /\ Serves(f) /\ Outcome(f) = f.file /\ PlaceOf(f, d) = Base(f) - Len(Back(f))
<1>1. Modest(f.mode) /\ Bare(f) /\ ~Stuck(f) /\ Match(f, 0) /\ Touched(f)
  BY DEF Honest, Stuck
<1>2. Reads(f)
  BY <1>1, SyncReads DEF Sound
<1>3. Serves(f)
  BY <1>1, <1>2 DEF Serves
<1>4. Outcome(f) = f.file
  BY <1>1, <1>2, OutcomeSame DEF Reads
<1>5. PlaceOf(f, d) = Where(f)
  BY DEF PlaceOf, Going
<1>6. Where(f) = Base(f) - Len(Back(f))
  <2>1. Typed(f) /\ Goal(f) \in Nat /\ f.bufp \in Nat
    BY <1>3, ServesDoes
  <2>2. Len(Back(f)) = IF f.pushed THEN 1 ELSE 0
    BY <2>1, BackIs
  <2>3. f.pushbufp \in Nat
    BY <2>1, StreamAssumption DEF Typed
  <2> QED
    BY <2>1, <2>2, <2>3 DEF Where, Base, Goal
<1> QED
  BY <1>3, <1>4, <1>5, <1>6

-----------------------------------------------------------------------------
(* What a call must do to be a step of ByteFile. *)

LEMMA AsRead ==
  ASSUME call'.op = "read", ~s.error, ~s'.error, s'.mode = s.mode,
         NEW all, all = Back(s) \o SubSeq(Outcome(s), PlaceOf(s, dir) + Len(Back(s)) + 1,
                                          Len(Outcome(s))),
         out' = SubSeq(all, 1, IF call'.n > Len(all) THEN Len(all) ELSE call'.n),
         PlaceOf(s', dir') = PlaceOf(s, dir) + Len(out'),
         Back(s') = IF out' = <<>> THEN Back(s) ELSE <<>>,
         Outcome(s') = Outcome(s), Abstract!Between(s'.file, s.file, Outcome(s'))
  PROVE  Abstract!BNext
BY ViewIs, ViewNext
   DEF Abstract!BNext, Abstract!Read, Abstract!Works, Abstract!Ahead, Abstract!Settle, Back

LEMMA OverlayIs ==
  ASSUME NEW x, NEW at \in Int, NEW d, Len(d) \in Nat, Len(x) \in Nat
  PROVE  Abstract!Overlay(x, at, d) = Fileof(x, at, d)
BY SMTT(30) DEF Abstract!Overlay, Fileof, Most

LEMMA AsWrite ==
  ASSUME call'.op = "write", ~s.error, ~s'.error, s'.mode = s.mode,
         NEW d, d = call'.data,
         Outcome(s') = Abstract!Overlay(Outcome(s),
           IF s.mode.append THEN Len(Outcome(s)) ELSE PlaceOf(s, dir), d),
         PlaceOf(s', dir') = IF s.mode.append THEN Len(Outcome(s'))
                             ELSE PlaceOf(s, dir) + Len(d),
         out' = Len(d), Back(s') = Back(s),
         Abstract!Between(s'.file, s.file, Outcome(s'))
  PROVE  Abstract!BNext
BY ViewIs, ViewNext
   DEF Abstract!BNext, Abstract!Write, Abstract!Works, Abstract!After, Abstract!Settle, Back

LEMMA AsUnread ==
  ASSUME call'.op = "ungetc", ~s.error, ~s'.error, s'.mode = s.mode,
         IF Back(s) = <<>>
           THEN /\ Back(s') = <<call'.c>> /\ PlaceOf(s', dir') = PlaceOf(s, dir) - 1
                /\ out' = call'.c
           ELSE /\ Back(s') = Back(s) /\ PlaceOf(s', dir') = PlaceOf(s, dir) /\ out' = EOF,
         Outcome(s') = Outcome(s), Abstract!Between(s'.file, s.file, Outcome(s'))
  PROVE  Abstract!BNext
BY ViewIs, ViewNext
   DEF Abstract!BNext, Abstract!Unread, Abstract!Works, Abstract!Settle, Back

\* The position fseek is asked for.
Target(f, d, o, whence) ==
  o + (CASE whence = "SET" -> 0
         [] whence = "END" -> Len(Outcome(f))
         [] whence = "CUR" -> PlaceOf(f, d))

LEMMA AsSeek ==
  ASSUME call'.op = "fseek", ~s.error, ~s'.error, s'.mode = s.mode,
         NEW goal, goal = Target(s, dir, call'.offset, call'.whence),
         out' = IF goal < 0 THEN EOF ELSE 0,
         PlaceOf(s', dir') = IF goal < 0 THEN PlaceOf(s, dir) + Len(Back(s)) ELSE goal,
         Back(s') = <<>>, s'.file = Outcome(s), Outcome(s') = Outcome(s)
  PROVE  Abstract!BNext
BY ViewIs, ViewNext
   DEF Abstract!BNext, Abstract!Seek, Abstract!Works, Target, Back

LEMMA AsTell ==
  ASSUME call'.op \in {"ftell", "clearerr"}, ~s.error, ~s'.error, s'.mode = s.mode,
         call'.op = "ftell" => s.mode.append \/ out' = PlaceOf(s, dir),
         s'.file = s.file, Outcome(s') = Outcome(s), Back(s') = Back(s),
         PlaceOf(s', dir') = PlaceOf(s, dir)
  PROVE  Abstract!BNext
BY ViewIs, ViewNext
   DEF Abstract!BNext, Abstract!Tell, Abstract!Clear, Abstract!Works, Back

LEMMA AsFlush ==
  ASSUME call'.op = "fflush", ~s.error, ~s'.error, s'.mode = s.mode, out' = 0,
         s'.file = Outcome(s), Outcome(s') = Outcome(s), Back(s') = Back(s),
         PlaceOf(s', dir') = PlaceOf(s, dir)
  PROVE  Abstract!BNext
BY ViewIs, ViewNext
   DEF Abstract!BNext, Abstract!Flush, Abstract!Works, Back

\* A write failed: now, when x is what the program asked for, or before.
LEMMA AsFail ==
  ASSUME s'.error, s'.mode = s.mode,
         call'.op \in {"fflush", "fclose", "fseek"} => out' = EOF,
         NEW x, x = IF s.error THEN s.file
                    ELSE IF call'.op = "write"
                         THEN Abstract!Overlay(Outcome(s),
                                IF s.mode.append THEN Len(Outcome(s)) ELSE PlaceOf(s, dir),
                                call'.data)
                         ELSE Outcome(s),
         Abstract!Between(s'.file, s.file, x)
  PROVE  Abstract!BNext
BY ViewIs DEF Abstract!BNext, Abstract!Fail, Abstract!After

LEMMA AsClose ==
  ASSUME call'.op \in {"fclose", "exit"}, ~s'.error,
         call'.op = "fclose" => ~s.error /\ s'.file = Outcome(s),
         call'.op = "exit" => Abstract!Between(s'.file, s.file,
                                               IF s.error THEN s.file ELSE Outcome(s))
  PROVE  Abstract!BNext
BY ViewIs DEF Abstract!BNext, Abstract!Close

LEMMA AsOpen ==
  ASSUME call'.op = "fopen", s'.file = IF call'.mode.truncate THEN <<>> ELSE s.file,
         Outcome(s') = s'.file, PlaceOf(s', dir') = 0, Back(s') = <<>>, ~s'.error,
         s'.mode.append = call'.mode.append
  PROVE  Abstract!BNext
BY ViewNext DEF Abstract!BNext, Abstract!Open, Back

-----------------------------------------------------------------------------
(* After a write failed no call changes the file. *)

LEMMA StuckFillNormal ==
  ASSUME NEW f, Stuck(f), NEW g, g = FillNormal(f)
  PROVE  g.file = f.file /\ g.error
<1> DEFINE x == IF f.putl > 0 THEN Flushbuf(f, EOF) ELSE f
           t == f.target + f.getl
           y == [x EXCEPT !.target = t]
<1>0. /\ Typed(f) /\ Shape(f) /\ BufSize \in Nat \ {0} /\ f.putl \in {0, BufSize} /\ f.error
  BY StreamAssumption DEF Stuck, Shape, Typed
<1>1. g = FillWritten(y)
  BY DEF FillNormal
<1>2. Typed(x) /\ x.file = f.file /\ y.error
  <2>1. CASE f.putl # 0
    <3>1. f.putl > 0 /\ f.putl = BufSize /\ Buffered(f)
      BY <1>0, <2>1 DEF Shape
    <3> DEFINE tw == FALSE
    <3>2. x = WriteOut(f, EOF, tw) /\ tw \in BOOLEAN /\ ~tw
      BY <3>1 DEF Flushbuf
    <3> HIDE DEF tw, x
    <3>3. Stuck(y) /\ Typed(x) /\ x.file = f.file
      BY <3>1, <3>2, StuckWriteOut
    <3> QED
      BY <3>3 DEF Stuck
  <2>2. CASE f.putl = 0
    <3>1. x = f
      BY <2>2
    <3> QED
      BY <1>0, <3>1 DEF Typed
  <2> QED
    BY <1>0, <2>1, <2>2
<1> HIDE DEF x, t
<1>3. y.file = x.file
  BY <1>2 DEF Typed
<1>4. g = [y EXCEPT !.ret = EOF]
  BY <1>1, <1>2 DEF FillWritten
<1>5. g.file = y.file /\ g.error = y.error
  BY <1>2, <1>4 DEF Typed
<1> QED
  BY <1>2, <1>3, <1>5

LEMMA StuckFillLined ==
  ASSUME NEW f, Stuck(f), NEW g, g = FillLined(f)
  PROVE  g.file = f.file /\ g.error
<1> DEFINE y == IF f.active THEN [f EXCEPT !.putl = BufSize, !.active = FALSE]
                ELSE [f EXCEPT !.seen = TRUE]
<1>0. Typed(f) /\ Shape(f) /\ f.mode.write
  BY DEF Stuck, Shape
<1>1. g = FillNormal(y)
  BY DEF FillLined
<1>2. Stuck(y) /\ y.file = f.file
  <2>1. CASE ~f.active
    <3>1. y = [f EXCEPT !.seen = TRUE]
      BY <2>1
    <3>2. Alike(y, f)
      BY <1>0, <3>1, SeenAlike
    <3> QED
      BY <3>2, AlikeKeeps DEF Alike
  <2>2. CASE f.active
    <3>1. y = [f EXCEPT !.putl = BufSize, !.active = FALSE]
      BY <2>2
    <3> HIDE DEF y
    <3>2. /\ y.file = f.file /\ y.kpos = f.kpos /\ y.buf = f.buf /\ y.bufp = f.bufp
          /\ y.getl = f.getl /\ y.target = f.target /\ y.offset = f.offset
          /\ y.pushed = f.pushed /\ y.pushbufp = f.pushbufp /\ y.eof = f.eof
          /\ y.error = f.error /\ y.mode = f.mode /\ y.active = FALSE /\ y.putl = BufSize
      BY <1>0, <3>1 DEF Typed
    <3>3. Typed(y)
      BY <1>0, <3>1, <3>2 DEF Typed
    <3>4. IsHidden(y, f)
      BY <3>2, <3>3 DEF IsHidden
    <3>5. Linebuf(f) /\ Buffered(f)
      BY <1>0, <2>2 DEF Shape, Linebuf, Buffered
    <3> QED
      BY <1>0, <3>2, <3>4, <3>5, HiddenKeeps
  <2> QED
    BY <2>1, <2>2
<1> HIDE DEF y
<1> QED
  BY <1>1, <1>2, StuckFillNormal

LEMMA StuckGetc ==
  ASSUME NEW f, Stuck(f), NEW g, g = Getc(f)
  PROVE  g.file = f.file /\ g.error
<1> DEFINE x == IF Linebuf(f) /\ f.mode.write THEN Flshfp(f, EOF) ELSE f
<1>1. Typed(f) /\ ~f.pushed /\ ~(f.bufp < f.getl)
  BY StreamAssumption DEF Stuck, Shape, Typed
<1>2. g = FillLined(x)
  BY <1>1 DEF Getc, FillBf
<1>3. x = f \/ Alike(x, f)
  BY <1>1, FlushError DEF Stuck
<1> HIDE DEF x
<1>4. Stuck(x) /\ x.file = f.file
  BY <1>3, AlikeKeeps DEF Alike
<1> QED
  BY <1>2, <1>4, StuckFillLined

LEMMA StuckPutcFile ==
  ASSUME NEW f, Stuck(f), NEW c \in Char, NEW g, g = Putc(f, c)
  PROVE  g.file = f.file /\ g.error
<1>1. Typed(f) /\ f.error
  BY DEF Stuck, Shape
<1>2. CASE ~(f.bufp < f.putl)
  BY <1>1, <1>2, FlushError DEF Putc, Alike
<1>3. CASE f.bufp < f.putl
  <2>1. g = [f EXCEPT !.buf[f.bufp] = c, !.bufp = f.bufp + 1, !.ret = c]
    BY <1>1, <1>3 DEF Putc, Put, Typed
  <2> QED
    BY <1>1, <2>1 DEF Typed
<1> QED
  BY <1>2, <1>3

LEMMA StuckFlush ==
  ASSUME NEW f, Stuck(f), NEW c, NEW g, g = Flshfp(f, c)
  PROVE  /\ g.file = f.file /\ g.error /\ g.ret = EOF
         /\ Stuck(g)
<1>1. Typed(f) /\ f.error
  BY DEF Stuck, Shape
<1>2. Alike(g, f) /\ g.ret = EOF
  BY <1>1, FlushError
<1> QED
  BY <1>1, <1>2, AlikeKeeps DEF Alike

LEMMA StuckUngetc ==
  ASSUME NEW f, Stuck(f), Flushes(f), NEW c, NEW g, g = Ungetc(f, c)
  PROVE  g.file = f.file /\ g.error
<1> DEFINE x == Flshfp(f, EOF)
<1>1. ~f.pushed
  BY DEF Stuck
<1>2. x.file = f.file /\ x.error
  BY StuckFlush
<1> HIDE DEF x
<1>3. g = IF x.error THEN x ELSE PushBack(x, c)
  BY <1>1 DEF Ungetc, x
<1> QED
  BY <1>2, <1>3

\* What the other calls of a stream return.
LEMMA StepsOn ==
  ASSUME StreamInv, StreamInv', open, NEW c, NEW f, NEW r, NEW d, Returns(c, f, r, d),
         Typed(f), f.error, f.mode = s.mode,
         c.op \in {"fflush", "fclose", "fseek"} => r = EOF,
         NEW x, x = IF s.error THEN s.file
                    ELSE IF c.op = "write"
                         THEN Abstract!Overlay(Outcome(s),
                                IF s.mode.append THEN Len(Outcome(s)) ELSE PlaceOf(s, dir),
                                c.data)
                         ELSE Outcome(s),
         Abstract!Between(f.file, s.file, x)
  PROVE  RefInv' /\ Abstract!BNext
<1>1. s' = [f EXCEPT !.ret = 0] /\ out' = r /\ call' = c /\ dir' = d
  BY DEF Returns
<1>2. s'.file = f.file /\ s'.error /\ s'.mode = s.mode
  BY <1>1 DEF Typed
<1>3. RefInv'
  BY <1>2 DEF RefInv, Honest
<1>4. Abstract!BNext
  BY <1>1, <1>2, AsFail
<1> QED
  BY <1>3, <1>4

\* A call of a stream on which a write failed.
LEMMA StuckStep ==
  ASSUME StreamInv, StreamInv', open, Stuck(s), NEW c, NEW f, NEW r, NEW d,
         Returns(c, f, r, d), Typed(f), f.error, f.file = s.file, f.mode = s.mode,
         c.op \in {"fflush", "fclose", "fseek"} => r = EOF
  PROVE  RefInv' /\ Abstract!BNext
<1>1. s.file \in Seq(Byte) /\ s.error
  BY DEF Stuck, Shape, Typed
<1>2. Abstract!Between(f.file, s.file, s.file)
  BY <1>1, SameBetween
<1> QED
  BY <1>1, <1>2, StepsOn

-----------------------------------------------------------------------------
(* A call that reads. *)

LEMMA InputStep ==
  ASSUME StreamInv', open, ~s.error, Serves(s), Outcome(s) = s.file,
         PlaceOf(s, dir) = Base(s) - Len(Back(s)),
         NEW n \in Nat, NEW f, NEW got, Input(n, f, got), IsInput(f, s, n, got)
  PROVE  RefInv' /\ Abstract!BNext
<1> DEFINE d == IF f.eof THEN "none" ELSE "in"
<1>1. /\ s' = [f EXCEPT !.ret = 0] /\ out' = got /\ call' = [op |-> "read", n |-> n]
      /\ dir' = d
  BY DEF Input, Returns
<1>2. Serves(f) /\ f.mode = s.mode /\ f.file = s.file /\ ~f.pushed
  BY DEF IsInput
<1>3. Typed(f) /\ ~f.error /\ Reads(f) /\ f.mode.read
  BY <1>2, ServesDoes DEF Serves
<1>4. Honest(f, d) /\ d \notin {"out", "sync"}
  BY <1>2 DEF Serves, Honest
<1>5. Outcome(f) = f.file
  BY <1>2, <1>3, OutcomeSame DEF Reads, Serves
<1> HIDE DEF d
<1>6. PlaceOf(f, d) = Pos(f)
  BY <1>2, <1>4 DEF PlaceOf, Pos, Where, Goal
<1>7. /\ s'.file = f.file /\ s'.mode = f.mode /\ s'.error = f.error /\ Back(s') = Back(f)
      /\ Outcome(s') = Outcome(f) /\ PlaceOf(s', d) = PlaceOf(f, d) /\ Honest(s', d)
  <2> DEFINE g == [f EXCEPT !.ret = 0]
  <2>1. /\ g.file = f.file /\ g.mode = f.mode /\ g.error = f.error /\ Back(g) = Back(f)
        /\ Outcome(g) = Outcome(f) /\ PlaceOf(g, d) = PlaceOf(f, d) /\ Honest(g, d)
    BY <1>3, <1>4, RetSame, SMTT(30)
  <2> QED
    BY <1>1, <2>1
<1>8. RefInv'
  BY <1>1, <1>7 DEF RefInv
<1> DEFINE all == Back(s) \o SubSeq(Outcome(s), PlaceOf(s, dir) + Len(Back(s)) + 1,
                                    Len(Outcome(s)))
<1>9. Len(Back(s)) \in Nat /\ Base(s) \in Nat /\ s.file \in Seq(Byte) /\ Typed(s)
  <2>1. Typed(s) /\ Base(s) \in Nat /\ s.file \in Seq(Byte)
    BY ServesDoes
  <2> QED
    BY <2>1, BackIs
<1>10. all = Coming(s)
  <2>1. PlaceOf(s, dir) + Len(Back(s)) + 1 = Base(s) + 1
    BY <1>9
  <2> QED
    BY <2>1 DEF Coming
<1>11. Len(all) \in Nat
  <2>1. SubSeq(s.file, Base(s) + 1, Len(s.file)) \in Seq(Byte)
    BY <1>9, SubSeqIs
  <2>2. Back(s) \in Seq(Byte)
    BY <1>9, BackIs
  <2>3. Coming(s) \in Seq(Byte)
    BY <2>1, <2>2, ConcatProperties DEF Coming
  <2> HIDE DEF all
  <2> QED
    BY <1>10, <2>3
<1>12. got = SubSeq(all, 1, IF n > Len(all) THEN Len(all) ELSE n)
  <2> HIDE DEF all
  <2>1. Least(n, Len(all)) = IF n > Len(all) THEN Len(all) ELSE n
    BY <1>11 DEF Least
  <2> QED
    BY <1>10, <2>1 DEF IsInput
<1>13. Back(s') = IF got = <<>> THEN Back(s) ELSE <<>>
  BY <1>2, <1>7 DEF IsInput, Back
<1>14. PlaceOf(s', dir') = PlaceOf(s, dir) + Len(got)
  BY <1>1, <1>6, <1>7 DEF IsInput
<1>15. Abstract!Between(s'.file, s.file, Outcome(s'))
  BY <1>2, <1>7, <1>9, SameBetween
<1>16. Outcome(s') = Outcome(s)
  BY <1>2, <1>5, <1>7
<1> HIDE DEF all
<1>17. Abstract!BNext
  <2>1. call'.op = "read" /\ call'.n = n
    BY <1>1
  <2>2. s'.mode = s.mode /\ ~s'.error
    BY <1>2, <1>3, <1>7
  <2>3. all = Back(s) \o SubSeq(Outcome(s), PlaceOf(s, dir) + Len(Back(s)) + 1,
                                Len(Outcome(s)))
    BY DEF all
  <2>4. out' = SubSeq(all, 1, IF call'.n > Len(all) THEN Len(all) ELSE call'.n)
    BY <1>1, <1>12, <2>1
  <2>5. out' = got
    BY <1>1
  <2> QED
    BY <1>13, <1>14, <1>15, <1>16, <2>1, <2>2, <2>3, <2>4, <2>5, AsRead
<1> QED
  BY <1>8, <1>17

\* What a stream is that may be read.
LEMMA MayReadIs ==
  ASSUME Careful, RefInv, MayRead
  PROVE  \/ Stuck(s)
         \/ /\ ~s.error /\ Serves(s) /\ Going(s) /\ Outcome(s) = s.file
            /\ PlaceOf(s, dir) = Base(s) - Len(Back(s))
<1>1. /\ Sound(s, dir) /\ dir # "out" /\ (s.mode.append => dir # "sync") /\ Going(s)
      /\ Honest(s, dir) /\ s.mode.read
  BY DEF MayRead, RefInv, StreamInv, Wary, Going
<1>2. Stuck(s) \/ ~s.error
  BY <1>1 DEF Sound, Reads, Writes, Safe
<1> QED
  BY <1>1, <1>2, HonestServes

LEMMA GetcStep ==
  ASSUME Careful, RefInv, CGetc
  PROVE  RefInv' /\ Abstract!BNext
<1> DEFINE f == Getc(s)
           got == IF f.ret = EOF THEN <<>> ELSE <<f.ret>>
           c == [op |-> "read", n |-> 1]
           d == IF f.eof THEN "none" ELSE "in"
<1>1. MayRead /\ open /\ Input(1, f, got)
  BY DEF CGetc, MayRead
<1>2. StreamInv'
  BY GetcKeeps DEF RefInv
<1>3. CASE Stuck(s)
  <2>1. (Stuck(f) \/ Reads(f)) /\ f.mode = s.mode /\ f.file = s.file /\ f.error
    BY <1>3, GetcDoes, StuckGetc
  <2>2. Typed(f)
    BY <2>1 DEF Stuck, Reads, Safe, Shape
  <2>3. Returns(c, f, got, d) /\ c.op = "read"
    BY <1>1 DEF Input
  <2> HIDE DEF f, got, c, d
  <2> QED
    BY <1>1, <1>2, <1>3, <2>1, <2>2, <2>3, StuckStep DEF RefInv
<1>4. CASE ~Stuck(s)
  <2>1. /\ ~s.error /\ Serves(s) /\ Going(s) /\ Outcome(s) = s.file
        /\ PlaceOf(s, dir) = Base(s) - Len(Back(s))
    BY <1>1, <1>4, MayReadIs
  <2>2. IsInput(f, s, 1, got)
    BY <2>1, GetcInput
  <2> HIDE DEF f, got
  <2> QED
    BY <1>1, <1>2, <2>1, <2>2, InputStep
<1> QED
  BY <1>3, <1>4

LEMMA FreadStep ==
  ASSUME Careful, RefInv, CFread
  PROVE  RefInv' /\ Abstract!BNext
<1>1. PICK n \in 2 .. BufSize + 1 : \E f \in {Fread(s, n)} : Input(n, f, f.ret)
  BY DEF CFread
<1>2. PICK f \in {Fread(s, n)} : Input(n, f, f.ret)
  BY <1>1
<1>3. MayRead /\ open /\ n \in Nat \ {0} /\ f = Fread(s, n)
  BY <1>2, StreamAssumption DEF CFread, MayRead
<1>4. StreamInv'
  BY FreadKeeps DEF RefInv
<1> DEFINE got == f.ret
           c == [op |-> "read", n |-> n]
           d == IF f.eof THEN "none" ELSE "in"
<1>5. Input(n, f, got)
  BY <1>2
<1>6. CASE Stuck(s)
  <2>1. Typed(s) /\ s.error
    BY <1>6 DEF Stuck, Shape
  <2>2. f = [s EXCEPT !.ret = <<>>]
    BY <1>3, <2>1 DEF Fread
  <2>3. Typed(f) /\ f.mode = s.mode /\ f.file = s.file /\ f.error
    BY <2>1, <2>2, RetAlike DEF Alike
  <2>4. Returns(c, f, got, d) /\ c.op = "read"
    BY <1>5 DEF Input
  <2> HIDE DEF got, c, d
  <2> QED
    BY <1>3, <1>4, <1>6, <2>3, <2>4, StuckStep DEF RefInv
<1>7. CASE ~Stuck(s)
  <2>1. /\ ~s.error /\ Serves(s) /\ Going(s) /\ Outcome(s) = s.file
        /\ PlaceOf(s, dir) = Base(s) - Len(Back(s))
    BY <1>3, <1>7, MayReadIs
  <2>2. IsInput(f, s, n, got)
    BY <1>3, <2>1, FreadIs
  <2> HIDE DEF got
  <2> QED
    BY <1>3, <1>4, <1>5, <2>1, <2>2, InputStep
<1> QED
  BY <1>6, <1>7

\* What a call leaves, as ByteFile sees it.
LEMMA StepLeaves ==
  ASSUME StreamInv', open, NEW c, NEW f, NEW r, NEW d, Returns(c, f, r, d), Typed(f),
         Honest(f, d)
  PROVE  /\ RefInv' /\ call' = c /\ out' = r
         /\ s'.file = f.file /\ s'.mode = f.mode /\ s'.error = f.error
         /\ Back(s') = Back(f) /\ Outcome(s') = Outcome(f)
         /\ PlaceOf(s', dir') = PlaceOf(f, d)
<1> DEFINE g == [f EXCEPT !.ret = 0]
<1>1. /\ g.file = f.file /\ g.mode = f.mode /\ g.error = f.error /\ Back(g) = Back(f)
      /\ Outcome(g) = Outcome(f) /\ PlaceOf(g, d) = PlaceOf(f, d) /\ Honest(g, d)
  BY RetSame
<1>2. s' = g /\ dir' = d /\ call' = c /\ out' = r
  BY DEF Returns
<1> HIDE DEF g
<1>3. RefInv'
  BY <1>1, <1>2 DEF RefInv
<1> QED
  BY <1>1, <1>2, <1>3

-----------------------------------------------------------------------------
(* A call that writes. *)

LEMMA OutputStep ==
  ASSUME StreamInv, StreamInv', open, Outs(s), ~s.mode.append => PlaceOf(s, dir) = Spot(s),
         Back(s) = <<>>, NEW t \in Seq(Char), t # <<>>, NEW f, NEW r, Output(t, f, r),
         Carried(f, s, t), ~f.error => r = Len(t)
  PROVE  RefInv' /\ Abstract!BNext
<1> DEFINE c == [op |-> "write", data |-> t]
           x == Abstract!Overlay(Outcome(s),
                  IF s.mode.append THEN Len(Outcome(s)) ELSE PlaceOf(s, dir), t)
<1>1. Returns(c, f, r, "out") /\ c.op = "write" /\ c.data = t
  BY DEF Output
<1>2. /\ Typed(f) /\ f.mode = s.mode /\ ~s.error
      /\ Part(f.file, s.file, Fileof(Outcome(s), Spot(s), t), Spot(s) + Len(t))
  BY OutsDoes DEF Carried
<1>3. /\ Spot(s) \in Nat /\ Outcome(s) \in Seq(Byte) /\ Len(s.file) \in Nat
      /\ (s.mode.append => Spot(s) = Len(Outcome(s)))
  BY OutsDoes
<1>4. x = Fileof(Outcome(s), Spot(s), t)
  <2>1. x = Abstract!Overlay(Outcome(s), Spot(s), t)
    BY <1>3
  <2>2. Len(t) \in Nat /\ Len(Outcome(s)) \in Nat /\ Spot(s) \in Int
    BY <1>3
  <2> QED
    BY <2>1, <2>2, OverlayIs
<1>5. Abstract!Between(f.file, s.file, x)
  <2>1. Len(f.file) \in Nat
    BY <1>2 DEF Typed
  <2> HIDE DEF x
  <2>2. PICK q : q = Spot(s) + Len(t)
    OBVIOUS
  <2>3. Part(f.file, s.file, x, q)
    BY <1>2, <1>4, <2>2
  <2> QED
    BY <1>3, <2>1, <2>3, PartBetween
<1>6. CASE f.error
  <2>1. x = IF s.error THEN s.file
            ELSE IF c.op = "write"
                 THEN Abstract!Overlay(Outcome(s),
                        IF s.mode.append THEN Len(Outcome(s)) ELSE PlaceOf(s, dir),
                        c.data)
                 ELSE Outcome(s)
    BY <1>1, <1>2
  <2>2. c.op \in {"fflush", "fclose", "fseek"} => r = EOF
    BY <1>1
  <2> HIDE DEF c, x
  <2> QED
    BY <1>1, <1>2, <1>5, <1>6, <2>1, <2>2, StepsOn
<1>7. CASE ~f.error
  <2>1. /\ Writes(f) /\ Roomy(f) /\ Faithful(f, f.bufp) /\ Outcome(f) = x
        /\ Spot(f) = Spot(s) + Len(t)
    BY <1>4, <1>7 DEF Carried
  <2>2. Honest(f, "out")
    BY <2>1 DEF Faithful, Honest
  <2>3. Back(f) = <<>>
    BY <2>1 DEF Writes, Back
  <2>4. PlaceOf(f, "out") = IF s.mode.append THEN Len(x) ELSE PlaceOf(s, dir) + Len(t)
    <3>1. CASE s.mode.append
      BY <1>2, <2>1, <3>1 DEF PlaceOf
    <3>2. CASE ~s.mode.append
      <4>1. ~f.eof /\ ~f.pushed
        BY <2>1 DEF Writes
      <4>2. PlaceOf(f, "out") = Spot(f)
        BY <1>2, <3>2, <4>1 DEF PlaceOf, Where, Spot, OutAt, Goal
      <4> QED
        BY <2>1, <3>2, <4>2
    <3> QED
      BY <3>1, <3>2
  <2> HIDE DEF c, x
  <2>5. /\ RefInv' /\ call' = c /\ out' = r
        /\ s'.file = f.file /\ s'.mode = f.mode /\ s'.error = f.error
        /\ Back(s') = Back(f) /\ Outcome(s') = Outcome(f)
        /\ PlaceOf(s', dir') = PlaceOf(f, "out")
    BY <1>1, <1>2, <2>2, StepLeaves
  <2>6. Abstract!BNext
    <3>1. call'.op = "write" /\ call'.data = t /\ ~s'.error /\ s'.mode = s.mode
      BY <1>1, <1>2, <1>7, <2>5
    <3>2. Outcome(s') = Abstract!Overlay(Outcome(s),
            IF s.mode.append THEN Len(Outcome(s)) ELSE PlaceOf(s, dir), t)
      BY <2>1, <2>5 DEF x
    <3>3. PlaceOf(s', dir') = IF s.mode.append THEN Len(Outcome(s'))
                              ELSE PlaceOf(s, dir) + Len(t)
      BY <2>1, <2>4, <2>5
    <3>4. out' = Len(t) /\ Back(s') = Back(s)
      BY <1>7, <2>3, <2>5
    <3>5. Abstract!Between(s'.file, s.file, Outcome(s'))
      BY <1>5, <2>1, <2>5
    <3> QED
      BY <1>2, <3>1, <3>2, <3>3, <3>4, <3>5, AsWrite
  <2> QED
    BY <2>5, <2>6
<1> QED
  BY <1>6, <1>7

\* What a stream is that may be written.
LEMMA MayWriteIs ==
  ASSUME Careful, RefInv, MayWrite
  PROVE  \/ Stuck(s)
         \/ Outs(s) /\ (~s.mode.append => PlaceOf(s, dir) = Spot(s)) /\ Back(s) = <<>>
<1>1. Sound(s, dir) /\ Honest(s, dir) /\ dir # "in" /\ s.mode.write /\ ~s.eof
  BY DEF MayWrite, RefInv, StreamInv, Wary
<1>2. Stuck(s) \/ ~s.error
  BY <1>1 DEF Sound, Reads, Writes, Safe
<1> QED
  BY <1>1, <1>2, HonestOuts

LEMMA PutcStep ==
  ASSUME Careful, RefInv, CPutc
  PROVE  RefInv' /\ Abstract!BNext
<1>1. MayWrite /\ open /\ StreamInv
  BY DEF CPutc, MayWrite, RefInv
<1>2. PICK e \in Char : \E f \in {Putc(s, e)} :
        Output(<<e>>, f, IF f.ret = EOF THEN EOF ELSE 1)
  BY DEF CPutc
<1>3. PICK f \in {Putc(s, e)} : Output(<<e>>, f, IF f.ret = EOF THEN EOF ELSE 1)
  BY <1>2
<1>4. StreamInv' /\ f = Putc(s, e)
  BY <1>3, PutcKeeps DEF RefInv
<1> DEFINE t == <<e>>
           r == IF f.ret = EOF THEN EOF ELSE 1
           c == [op |-> "write", data |-> t]
<1>5. Output(t, f, r)
  BY <1>3
<1>6. CASE Stuck(s)
  <2>1. Stuck(f) /\ f.mode = s.mode /\ f.file = s.file /\ f.error
    BY <1>4, <1>6, StuckPutc, StuckPutcFile
  <2>2. Typed(f)
    BY <2>1 DEF Stuck, Shape
  <2>3. Returns(c, f, r, "out") /\ c.op = "write"
    BY <1>5 DEF Output
  <2> HIDE DEF t, r, c
  <2> QED
    BY <1>1, <1>4, <1>6, <2>1, <2>2, <2>3, StuckStep
<1>7. CASE ~Stuck(s)
  <2>1. Outs(s) /\ (~s.mode.append => PlaceOf(s, dir) = Spot(s)) /\ Back(s) = <<>>
    BY <1>1, <1>7, MayWriteIs
  <2>2. IsCharred(f, s, e)
    BY <1>4, <2>1, PutcCarried
  <2>3. Carried(f, s, t) /\ (~f.error => r = Len(t)) /\ t \in Seq(Char) /\ t # <<>>
    BY <2>2 DEF IsCharred
  <2> HIDE DEF t, r, c
  <2> QED
    BY <1>1, <1>4, <1>5, <2>1, <2>3, OutputStep
<1> QED
  BY <1>6, <1>7

LEMMA FwriteStep ==
  ASSUME Careful, RefInv, CFwrite
  PROVE  RefInv' /\ Abstract!BNext
<1>1. MayWrite /\ open /\ (Buffered(s) \/ AtTarget(s)) /\ StreamInv
  BY DEF CFwrite, MayWrite, AtTarget, RefInv
<1>2. PICK t \in UNION {[1 .. n -> Char] : n \in 2 .. BufSize + 1} :
        \E f \in {Fwrite(s, t)} : Output(t, f, f.ret)
  BY DEF CFwrite
<1>3. PICK f \in {Fwrite(s, t)} : Output(t, f, f.ret)
  BY <1>2
<1>4. StreamInv' /\ f = Fwrite(s, t)
  BY <1>3, FwriteKeeps DEF RefInv
<1>5. t \in Seq(Char) /\ Len(t) >= 2 /\ t # <<>>
  <2>1. PICK n \in 2 .. BufSize + 1 : t \in [1 .. n -> Char]
    BY <1>2
  <2>2. n \in Nat /\ n >= 2
    BY <2>1, StreamAssumption
  <2>3. t \in Seq(Char) /\ Len(t) = n
    BY <2>1, <2>2
  <2> QED
    BY <2>2, <2>3
<1> DEFINE r == f.ret
           c == [op |-> "write", data |-> t]
<1>6. Output(t, f, r)
  BY <1>3
<1>7. CASE Stuck(s)
  <2>1. Typed(s) /\ s.error
    BY <1>7 DEF Stuck, Shape
  <2>2. f = [s EXCEPT !.ret = 0]
    BY <1>4, <2>1 DEF Fwrite
  <2>3. Typed(f) /\ f.mode = s.mode /\ f.file = s.file /\ f.error
    BY <2>1, <2>2, RetAlike DEF Alike
  <2>4. Returns(c, f, r, "out") /\ c.op = "write"
    BY <1>6 DEF Output
  <2> HIDE DEF r, c
  <2> QED
    BY <1>1, <1>4, <1>7, <2>3, <2>4, StuckStep
<1>8. CASE ~Stuck(s)
  <2>1. Outs(s) /\ (~s.mode.append => PlaceOf(s, dir) = Spot(s)) /\ Back(s) = <<>>
    BY <1>1, <1>8, MayWriteIs
  <2>2. IsCounted(f, s, t, Len(t))
    BY <1>1, <1>4, <1>5, <2>1, FwriteIs
  <2>3. Carried(f, s, t) /\ (~f.error => r = Len(t))
    BY <2>2 DEF IsCounted
  <2> HIDE DEF r, c
  <2> QED
    BY <1>1, <1>4, <1>5, <1>6, <2>1, <2>3, OutputStep
<1> QED
  BY <1>7, <1>8

-----------------------------------------------------------------------------
(* A call that flushes. *)

\* Honest, but for the position of a stream without a buffer.
Near(f, d) ==
  /\ ~f.error /\ Modest(f.mode)
  /\ d = "out" => Match(f, f.bufp) /\ Flat(f)
  /\ d # "out" => Match(f, 0) /\ Touched(f)

IsSynced(x, f, d) ==
  /\ Typed(x) /\ x.mode = f.mode
  /\ \/ Stuck(x) /\ x.ret = EOF /\ Abstract!Between(x.file, f.file, Outcome(f))
     \/ /\ ~x.error /\ ~x.pushed /\ x.ret = 0 /\ x.file = Outcome(f)
        /\ ~f.eof => /\ Writes(x) /\ Roomy(x) /\ Even(x) /\ Match(x, 0) /\ Touched(x)
                     /\ (Bare(f) => Bare(x))
        /\ ~f.eof /\ ~(f.mode.append /\ d \in {"out", "sync"}) =>
             Goal(x) + x.bufp = Base(f)

\* A stream that neither met its end nor holds a pushed back character.
LEMMA SyncWrites ==
  ASSUME NEW f, NEW d, Writes(f), Near(f, d), Roomy(f) \/ Even(f),
         d = "out" => Roomy(f), d # "out" => Even(f), NEW x, x = Flshfp(f, EOF)
  PROVE  IsSynced(x, f, d)
<1>1. Typed(f) /\ Shape(f) /\ ~f.pushed
  BY DEF Writes, Safe, Shape
<1>2. f.file \in Seq(Byte) /\ Len(f.file) \in Nat
  BY <1>1 DEF Typed
<1>3. Base(f) = Goal(f) + f.bufp
  BY <1>1 DEF Base
<1>4. CASE Buffered(f)
  <2>1. Bare(f)
    BY <1>4 DEF Bare
  <2>2. \/ Roomy(f) /\ Faithful(f, f.bufp)
        \/ Even(f) /\ Match(f, 0)
    BY <2>1 DEF Near, Faithful
  <2>3. IsFlushed(x, f)
    BY <2>1, <2>2, FlushIs DEF Near
  <2>4. x.mode = f.mode /\ Part(x.file, f.file, Outcome(f), Spot(f))
    BY <2>3 DEF IsFlushed
  <2>5. CASE Stuck(x) /\ x.ret = EOF
    <3>1. Typed(x)
      BY <2>5 DEF Stuck, Shape
    <3>2. Len(x.file) \in Nat
      BY <3>1 DEF Typed
    <3>3. PICK h, q : h = Outcome(f) /\ q = Spot(f)
      OBVIOUS
    <3>4. Part(x.file, f.file, h, q)
      BY <2>4, <3>3
    <3>5. Abstract!Between(x.file, f.file, h)
      BY <1>2, <3>2, <3>4, PartBetween
    <3> QED
      BY <2>4, <2>5, <3>1, <3>3, <3>5 DEF IsSynced
  <2>6. CASE ~(Stuck(x) /\ x.ret = EOF)
    <3>1. /\ Writes(x) /\ Roomy(x) /\ Even(x) /\ x.ret = 0
          /\ Faithful(x, 0) /\ Touched(x) /\ x.file = Outcome(f)
          /\ Even(f) \/ ~f.mode.append => Goal(x) + x.bufp = Goal(f) + f.bufp
      BY <2>3, <2>6 DEF IsFlushed
    <3>2. Typed(x) /\ ~x.error /\ ~x.pushed
      BY <3>1 DEF Writes, Safe, Shape
    <3>3. ~(f.mode.append /\ d \in {"out", "sync"}) => Goal(x) + x.bufp = Base(f)
      BY <1>3, <3>1
    <3> QED
      BY <2>4, <3>1, <3>2, <3>3 DEF IsSynced, Faithful
  <2> QED
    BY <2>5, <2>6
<1>5. CASE ~Buffered(f)
  <2>1. Even(f) /\ Roomy(f) /\ Standing(f)
    BY <1>5 DEF Even, Roomy, Standing
  <2>2. IsFlush(x, f)
    BY <2>1, FlushDoes
  <2>3. /\ Typed(x) /\ x.mode = f.mode /\ x.file = f.file
        /\ Writes(x) /\ Roomy(x) /\ Even(x) /\ x.ret = 0 /\ Match(x, 0) /\ Touched(x)
        /\ (Bare(f) => Bare(x)) /\ Goal(x) + x.bufp = Goal(f) + f.bufp
    BY <1>5, <2>1, <2>2 DEF IsFlush
  <2>4. ~x.error /\ ~x.pushed
    BY <2>3 DEF Writes, Safe
  <2>5. Outcome(f) = f.file
    <3>1. f.bufp = 0 /\ Safe(f)
      BY <1>1, <1>5 DEF Shape, Writes
    <3> QED
      BY <1>1, <3>1, OutcomeLength
  <2> QED
    BY <1>3, <2>3, <2>4, <2>5 DEF IsSynced
<1> QED
  BY <1>4, <1>5

LEMMA SyncIs ==
  ASSUME NEW f, NEW d, Sound(f, d), Near(f, d), f.mode.write, NEW x, x = Flshfp(f, EOF)
  PROVE  IsSynced(x, f, d)
<1>1. ~Stuck(f) /\ ~f.error
  BY DEF Near, Stuck
<1>2. ASSUME Reads(f), d # "out" PROVE Outcome(f) = f.file
  <2>1. Safe(f) /\ Even(f) /\ Match(f, 0) /\ (f.pushed => f.pushbufp <= f.getl)
    BY <1>2 DEF Reads, Near
  <2> QED
    BY <2>1, OutcomeSame
<1>3. CASE Reads(f) /\ d # "out" /\ f.eof
  <2>1. /\ Typed(x) /\ x.file = f.file /\ x.mode = f.mode /\ ~x.error /\ ~x.pushed
        /\ x.ret = 0
    BY <1>3, EofFlush
  <2> QED
    BY <1>2, <1>3, <2>1 DEF IsSynced
<1>4. CASE Reads(f) /\ d # "out" /\ ~f.eof /\ f.pushed
  <2> DEFINE u == Unpush(f)
  <2>1. /\ Reads(u) /\ ~u.pushed /\ u.mode = f.mode /\ u.file = f.file
        /\ Goal(u) = Goal(f) /\ u.error = f.error /\ u.eof = f.eof /\ u.bufp = f.pushbufp
    BY <1>4, UnpushDoes
  <2>2. x = Flshfp(u, EOF)
    BY <1>4, FlushUnpushed
  <2>3. Typed(f)
    BY <1>4 DEF Reads, Safe, Shape
  <2>4. /\ u.buf = f.buf /\ u.getl = f.getl /\ u.target = f.target /\ u.offset = f.offset
        /\ u.kpos = f.kpos /\ u.seen = f.seen
    BY <2>3 DEF Unpush, Typed
  <2> HIDE DEF u
  <2>5. Match(u, 0) /\ Touched(u) /\ (Bare(f) => Bare(u))
    BY <1>4, <2>1, <2>4 DEF Near, Match, Touched, Bare, Buffered
  <2>6. Near(u, d)
    BY <1>1, <1>4, <2>1, <2>5 DEF Near
  <2>7. Writes(u) /\ Even(u)
    BY <1>4, <2>1 DEF Reads, Writes
  <2>8. IsSynced(x, u, d)
    BY <1>4, <2>2, <2>6, <2>7, SyncWrites
  <2>9. Outcome(u) = u.file
    <3>1. Safe(u)
      BY <2>1 DEF Reads
    <3> QED
      BY <2>1, <2>5, <2>7, <3>1, OutcomeSame
  <2>10. Base(u) = Base(f)
    BY <1>4, <2>1 DEF Base
  <2>11. Outcome(u) = Outcome(f)
    BY <1>2, <1>4, <2>1, <2>9
  <2> QED
    BY <1>4, <2>1, <2>5, <2>8, <2>10, <2>11 DEF IsSynced
<1>5. CASE Reads(f) /\ d # "out" /\ ~f.eof /\ ~f.pushed
  <2>1. Writes(f) /\ Even(f)
    BY <1>5 DEF Reads, Writes
  <2> QED
    BY <1>5, <2>1, SyncWrites
<1>6. CASE Writes(f) /\ Roomy(f) /\ (d # "out" => Even(f))
  BY <1>6, SyncWrites
<1> QED
  BY <1>1, <1>3, <1>4, <1>5, <1>6 DEF Sound

LEMMA HonestNear ==
  ASSUME NEW f, NEW d, Honest(f, d), ~f.error
  PROVE  Near(f, d) /\ Bare(f)
BY DEF Honest, Near

\* A stream of which the program writes nothing shows the file.
LEMMA ReadOnlyIs ==
  ASSUME NEW f, NEW d, Sound(f, d), ~f.mode.write
  PROVE  Outcome(f) = f.file /\ ~f.error /\ Reads(f) /\ d \in {"none", "in"}
BY DEF Sound, Stuck, Writes, Reads, Safe, Outcome

LEMMA FflushStep ==
  ASSUME Careful, RefInv, CFflush
  PROVE  RefInv' /\ Abstract!BNext
<1> DEFINE f == Flush(s)
           c == [op |-> "fflush"]
           r == f.ret
           d == IF dir = "out" THEN "sync" ELSE dir
<1>1. /\ open /\ dir # "in" /\ ~(s.eof /\ s.mode.write) /\ Returns(c, f, r, d)
      /\ ~(s.eof /\ ~Buffered(s))
  BY DEF CFflush, Wary
<1>2. /\ StreamInv /\ Sound(s, dir) /\ (s.mode.read \/ s.mode.write) /\ Typed(s)
      /\ Honest(s, dir)
  BY <1>1, SoundFile DEF RefInv, StreamInv
<1>3. StreamInv'
  BY FflushKeeps DEF RefInv
<1>4. c.op = "fflush"
  OBVIOUS
<1>5. CASE ~s.mode.write
  <2>1. f = [s EXCEPT !.ret = 0]
    BY <1>2, <1>5 DEF Flush
  <2>2. /\ Outcome(s) = s.file /\ ~s.error /\ dir = "none" /\ d = dir
    BY <1>1, <1>2, <1>5, ReadOnlyIs
  <2>3. /\ Typed(f) /\ f.file = s.file /\ f.mode = s.mode /\ f.error = s.error
        /\ Back(f) = Back(s) /\ Outcome(f) = Outcome(s)
        /\ PlaceOf(f, dir) = PlaceOf(s, dir) /\ Honest(f, dir)
    BY <1>2, <2>1, RetSame
  <2>4. r = 0
    BY <1>2, <2>1 DEF Typed
  <2> HIDE DEF f, c, r, d
  <2>5. /\ RefInv' /\ call' = c /\ out' = r
        /\ s'.file = f.file /\ s'.mode = f.mode /\ s'.error = f.error
        /\ Back(s') = Back(f) /\ Outcome(s') = Outcome(f)
        /\ PlaceOf(s', dir') = PlaceOf(f, d)
    BY <1>1, <1>3, <2>2, <2>3, StepLeaves
  <2>6. Abstract!BNext
    BY <1>4, <2>2, <2>3, <2>4, <2>5, AsFlush
  <2> QED
    BY <2>5, <2>6
<1>6. CASE s.mode.write /\ Stuck(s)
  <2>1. f = Flshfp(s, EOF)
    BY <1>6 DEF Flush
  <2> HIDE DEF f
  <2>2. f.file = s.file /\ f.error /\ f.ret = EOF /\ Stuck(f)
    BY <1>6, <2>1, StuckFlush
  <2>3. Typed(s) /\ s.error
    BY <1>6 DEF Stuck, Shape
  <2>4. Typed(f) /\ f.mode = s.mode
    BY <2>1, <2>3, FlushError DEF Alike
  <2>5. r = EOF
    BY <2>2
  <2> HIDE DEF c, r, d
  <2> QED
    BY <1>1, <1>2, <1>3, <1>6, <2>2, <2>4, <2>5, StuckStep
<1>7. CASE s.mode.write /\ ~Stuck(s)
  <2>1. f = Flshfp(s, EOF) /\ ~s.eof
    BY <1>1, <1>7 DEF Flush
  <2>2. ~s.error
    BY <1>2, <1>7 DEF Sound, Reads, Writes, Safe
  <2>3. Near(s, dir) /\ Bare(s)
    BY <1>2, <2>2, HonestNear
  <2> HIDE DEF f
  <2>4. IsSynced(f, s, dir)
    BY <1>2, <1>7, <2>1, <2>3, SyncIs
  <2>5. Typed(f) /\ f.mode = s.mode
    BY <2>4 DEF IsSynced
  <2>6. CASE Stuck(f) /\ f.ret = EOF /\ Abstract!Between(f.file, s.file, Outcome(s))
    <3>1. f.error /\ r = EOF
      BY <2>6 DEF Stuck
    <3>2. PICK x : x = Outcome(s)
      OBVIOUS
    <3>3. /\ x = IF s.error THEN s.file
                 ELSE IF c.op = "write"
                      THEN Abstract!Overlay(Outcome(s),
                             IF s.mode.append THEN Len(Outcome(s)) ELSE PlaceOf(s, dir),
                             c.data)
                      ELSE Outcome(s)
          /\ Abstract!Between(f.file, s.file, x)
      BY <1>4, <2>2, <2>6, <3>2
    <3> HIDE DEF c, r, d
    <3> QED
      BY <1>1, <1>2, <1>3, <2>5, <3>1, <3>3, StepsOn
  <2>7. CASE ~(Stuck(f) /\ f.ret = EOF /\ Abstract!Between(f.file, s.file, Outcome(s)))
    <3>1. /\ ~f.error /\ ~f.pushed /\ f.ret = 0 /\ f.file = Outcome(s)
          /\ Writes(f) /\ Roomy(f) /\ Even(f) /\ Match(f, 0) /\ Touched(f) /\ Bare(f)
          /\ ~(s.mode.append /\ dir \in {"out", "sync"}) => Goal(f) + f.bufp = Base(s)
      BY <2>1, <2>3, <2>4, <2>7 DEF IsSynced
    <3>2. d # "out" /\ (d \in {"out", "sync"} <=> dir \in {"out", "sync"})
      OBVIOUS
    <3>3. Honest(f, d)
      BY <2>3, <2>5, <3>1, <3>2 DEF Honest, Near
    <3>4. Outcome(f) = f.file
      BY <3>1, OutcomeSame DEF Writes
    <3>5. ~s.pushed
      BY <1>1, <1>2, <1>7 DEF Sound, Writes
    <3>6. Back(f) = Back(s)
      BY <3>1, <3>5 DEF Back
    <3>7. PlaceOf(f, d) = PlaceOf(s, dir)
      <4>1. CASE s.mode.append /\ dir \in {"out", "sync"}
        BY <2>5, <3>1, <3>2, <3>4, <4>1 DEF PlaceOf
      <4>2. CASE ~(s.mode.append /\ dir \in {"out", "sync"})
        <5>1. PlaceOf(s, dir) = Base(s)
          BY <2>1, <3>5, <4>2 DEF PlaceOf, Where, Base, Goal
        <5>2. ~f.eof
          BY <3>1 DEF Writes
        <5>3. PlaceOf(f, d) = Goal(f) + f.bufp
          BY <2>5, <3>1, <3>2, <4>2, <5>2 DEF PlaceOf, Where, Goal
        <5> QED
          BY <3>1, <4>2, <5>1, <5>3
      <4> QED
        BY <4>1, <4>2
    <3>8. r = 0
      BY <3>1
    <3> HIDE DEF c, r, d
    <3>9. /\ RefInv' /\ call' = c /\ out' = r
          /\ s'.file = f.file /\ s'.mode = f.mode /\ s'.error = f.error
          /\ Back(s') = Back(f) /\ Outcome(s') = Outcome(f)
          /\ PlaceOf(s', dir') = PlaceOf(f, d)
      BY <1>1, <1>3, <2>5, <3>3, StepLeaves
    <3>10. Abstract!BNext
      BY <1>4, <2>2, <2>5, <3>1, <3>4, <3>6, <3>7, <3>8, <3>9, AsFlush
    <3> QED
      BY <3>9, <3>10
  <2> QED
    BY <2>6, <2>7
<1> QED
  BY <1>5, <1>6, <1>7

\* The stream is gone, and the file is what it leaves.
LEMMA GoneStep ==
  ASSUME StreamInv', NEW file, Gone(file), call'.op \in {"fclose", "exit"},
         call'.op = "fclose" => ~s.error /\ file = Outcome(s),
         call'.op = "exit" => Abstract!Between(file, s.file,
                                               IF s.error THEN s.file ELSE Outcome(s))
  PROVE  RefInv' /\ Abstract!BNext
<1> DEFINE g == Fresh(file, NoMode)
<1>1. g.file = file /\ ~g.error
  BY DEF Fresh
<1>2. s' = g /\ open' = FALSE
  BY DEF Gone
<1> HIDE DEF g
<1>3. RefInv'
  BY <1>2 DEF RefInv
<1>4. s'.file = file /\ ~s'.error
  BY <1>1, <1>2
<1>5. Abstract!BNext
  BY <1>4, AsClose
<1> QED
  BY <1>3, <1>5

LEMMA FcloseStep ==
  ASSUME Careful, RefInv, CFclose
  PROVE  RefInv' /\ Abstract!BNext
<1> DEFINE x == Flshfp(s, EOF)
           z == [s EXCEPT !.ret = 0]
           f == IF s.mode.write THEN x ELSE z
           c == [op |-> "fclose"]
<1>1. open /\ IF f.ret = EOF THEN Returns(c, f, EOF, dir)
              ELSE Gone(f.file) /\ call' = c
  BY DEF CFclose
<1>2. StreamInv /\ Sound(s, dir) /\ Typed(s) /\ Honest(s, dir)
  BY <1>1, SoundFile DEF RefInv, StreamInv
<1>3. StreamInv'
  BY FcloseKeeps DEF RefInv
<1>4. c.op = "fclose"
  OBVIOUS
<1>5. CASE ~s.mode.write
  <2>1. f.ret = 0 /\ f.file = s.file /\ f.ret # EOF
    BY <1>2, <1>5, StreamAssumption DEF Typed
  <2>2. Outcome(s) = s.file /\ ~s.error
    BY <1>2, <1>5, ReadOnlyIs
  <2> HIDE DEF f, c
  <2>3. PICK file : file = f.file
    OBVIOUS
  <2> QED
    BY <1>1, <1>3, <1>4, <2>1, <2>2, <2>3, GoneStep
<1>6. CASE s.mode.write /\ Stuck(s)
  <2>1. f = Flshfp(s, EOF)
    BY <1>6
  <2> HIDE DEF f, x, z
  <2>2. f.file = s.file /\ f.error /\ f.ret = EOF
    BY <1>6, <2>1, StuckFlush
  <2>3. s.error
    BY <1>6 DEF Stuck
  <2>4. Typed(f) /\ f.mode = s.mode
    BY <1>2, <2>1, <2>3, FlushError DEF Alike
  <2> DEFINE r == EOF
  <2>5. Returns(c, f, r, dir) /\ r = EOF
    BY <1>1, <2>2
  <2> HIDE DEF c, r
  <2> QED
    BY <1>1, <1>2, <1>3, <1>6, <2>2, <2>4, <2>5, StuckStep
<1>7. CASE s.mode.write /\ ~Stuck(s)
  <2>1. f = Flshfp(s, EOF)
    BY <1>7
  <2>2. ~s.error
    BY <1>2, <1>7 DEF Sound, Reads, Writes, Safe
  <2>3. Near(s, dir)
    BY <1>2, <2>2, HonestNear
  <2> HIDE DEF f, x, z
  <2>4. IsSynced(f, s, dir)
    BY <1>2, <1>7, <2>1, <2>3, SyncIs
  <2>5. Typed(f) /\ f.mode = s.mode
    BY <2>4 DEF IsSynced
  <2>6. CASE Stuck(f) /\ f.ret = EOF /\ Abstract!Between(f.file, s.file, Outcome(s))
    <3> DEFINE r == EOF
    <3>1. f.error /\ r = EOF /\ Returns(c, f, r, dir)
      BY <1>1, <2>6 DEF Stuck
    <3>2. PICK h : h = Outcome(s)
      OBVIOUS
    <3>3. /\ h = IF s.error THEN s.file
                 ELSE IF c.op = "write"
                      THEN Abstract!Overlay(Outcome(s),
                             IF s.mode.append THEN Len(Outcome(s)) ELSE PlaceOf(s, dir),
                             c.data)
                      ELSE Outcome(s)
          /\ Abstract!Between(f.file, s.file, h)
      BY <1>4, <2>2, <2>6, <3>2
    <3> HIDE DEF c, r
    <3> QED
      BY <1>1, <1>2, <1>3, <2>5, <3>1, <3>3, StepsOn
  <2>7. CASE ~(Stuck(f) /\ f.ret = EOF /\ Abstract!Between(f.file, s.file, Outcome(s)))
    <3>1. f.ret = 0 /\ f.file = Outcome(s)
      BY <2>4, <2>7 DEF IsSynced
    <3>2. f.ret # EOF
      BY <3>1, StreamAssumption
    <3>3. PICK file : file = f.file
      OBVIOUS
    <3> HIDE DEF c
    <3> QED
      BY <1>1, <1>3, <1>4, <2>2, <3>1, <3>2, <3>3, GoneStep
  <2> QED
    BY <2>6, <2>7
<1> QED
  BY <1>5, <1>6, <1>7

LEMMA OutcomeMore ==
  ASSUME NEW f, NEW d, Sound(f, d), ~f.error
  PROVE  Abstract!Between(Outcome(f), f.file, Outcome(f))
<1> DEFINE n == IF f.pushed THEN f.pushbufp ELSE f.bufp
<1>1. Safe(f)
  BY DEF Sound, Stuck, Reads, Writes
<1>2. /\ Len(Outcome(f)) \in Nat
      /\ n = 0 \/ ~f.mode.write \/ (Buffered(f) /\ ~Roomy(f)) => Outcome(f) = f.file
      /\ n # 0 /\ f.mode.write /\ Roomy(f) =>
           Len(Outcome(f)) = Most(Len(f.file),
             (IF f.mode.append THEN Len(f.file) ELSE Goal(f)) + n)
  BY <1>1, OutcomeLength
<1>3. n \in Nat /\ Len(f.file) \in Nat /\ Goal(f) \in Nat /\ (~Buffered(f) => n = 0)
  BY <1>1, StreamAssumption DEF Safe, Shape, Typed, Goal
<1> HIDE DEF n
<1>4. Len(f.file) <= Len(Outcome(f))
  <2>1. (n # 0 /\ f.mode.write /\ Roomy(f)) \/ Outcome(f) = f.file
    BY <1>2, <1>3 DEF Roomy
  <2> QED
    BY <1>2, <1>3, <2>1 DEF Most
<1> QED
  BY <1>2, <1>3, <1>4 DEF Abstract!Between

LEMMA ExitStep ==
  ASSUME Careful, RefInv, CExit
  PROVE  RefInv' /\ Abstract!BNext
<1> DEFINE x == Flshfp(s, EOF)
           file == IF s.mode.write THEN x.file ELSE s.file
<1>1. open /\ Gone(file) /\ call'.op = "exit"
  BY DEF CExit
<1>2. StreamInv /\ Sound(s, dir) /\ Typed(s) /\ Honest(s, dir) /\ s.file \in Seq(Byte)
  BY <1>1, SoundFile DEF RefInv, StreamInv
<1>3. StreamInv'
  BY ExitKeeps DEF RefInv
<1> DEFINE h == IF s.error THEN s.file ELSE Outcome(s)
<1>4. Abstract!Between(file, s.file, h)
  <2>1. Abstract!Between(s.file, s.file, h)
    BY <1>2, SameBetween
  <2>2. CASE ~s.mode.write \/ Stuck(s)
    <3>1. file = s.file
      BY <2>2, StuckFlush
    <3> QED
      BY <2>1, <3>1
  <2>3. CASE s.mode.write /\ ~Stuck(s)
    <3>1. ~s.error
      BY <1>2, <2>3 DEF Sound, Reads, Writes, Safe
    <3>2. Near(s, dir)
      BY <1>2, <3>1, HonestNear
    <3>3. IsSynced(x, s, dir)
      BY <1>2, <2>3, <3>2, SyncIs
    <3>4. h = Outcome(s) /\ file = x.file
      BY <2>3, <3>1
    <3>5. Abstract!Between(h, s.file, h)
      BY <1>2, <3>1, <3>4, OutcomeMore
    <3> HIDE DEF h, x
    <3> QED
      BY <3>3, <3>4, <3>5 DEF IsSynced
  <2> QED
    BY <2>2, <2>3
<1> HIDE DEF file, x
<1> QED
  BY <1>1, <1>3, <1>4, GoneStep

\* The target is where the buffer stands, known or not.
IsPlaced(g, f) ==
  /\ Typed(g) /\ SameStream(g, f) /\ g.kpos = f.kpos /\ g.buf = f.buf /\ g.bufp = f.bufp
  /\ g.getl = f.getl /\ g.putl = f.putl /\ g.target = Goal(f)
  /\ ~Buffered(f) => g.offset = f.kpos

LEMMA PlacedIs ==
  ASSUME NEW f, Typed(f), NEW g, IsPlaced(g, f)
  PROVE  /\ \A b : Match(f, b) => Match(g, b)
         /\ Flat(f) => Flat(g)
         /\ Bare(f) /\ ~(f.eof /\ ~Buffered(f)) => Bare(g)
         /\ Outcome(g) = Outcome(f) /\ Where(g) = Where(f) /\ Goal(g) = Goal(f)
<1>1. /\ g.kpos = f.kpos /\ g.buf = f.buf /\ g.bufp = f.bufp
      /\ g.getl = f.getl /\ g.putl = f.putl /\ g.target = Goal(f)
      /\ g.mode = f.mode /\ g.file = f.file /\ g.pushed = f.pushed
      /\ g.pushbufp = f.pushbufp /\ g.error = f.error /\ g.active = f.active
      /\ ~Buffered(f) => g.offset = f.kpos
  BY DEF IsPlaced, SameStream
<1>2. f.kpos \in Nat /\ f.target \in Nat \cup {-1}
  BY DEF Typed
<1>3. Goal(f) \in Nat /\ Goal(g) = Goal(f) /\ (f.target \in Nat => Goal(f) = f.target)
  BY <1>1, <1>2 DEF Goal
<1>4. ASSUME NEW b, Match(f, b) PROVE Match(g, b)
  <2>1. SUFFICES ASSUME NEW i \in 0 .. BufSize - 1, b <= i, i < f.getl
                 PROVE  /\ g.target \in Nat /\ g.target + i < Len(f.file)
                        /\ f.buf[i] = f.file[g.target + i + 1]
    BY <1>1 DEF Match
  <2>2. /\ f.target \in Nat /\ f.target + i < Len(f.file)
        /\ f.buf[i] = f.file[f.target + i + 1]
    BY <1>4, <2>1 DEF Match
  <2>3. g.target = f.target
    BY <1>1, <1>3, <2>2
  <2> QED
    BY <2>2, <2>3
<1>5. Flat(f) => Flat(g)
  BY <1>1 DEF Flat
<1>6. Bare(f) /\ ~(f.eof /\ ~Buffered(f)) => Bare(g)
  <2>1. SUFFICES ASSUME Bare(f), ~Buffered(f), ~f.eof
                 PROVE  /\ g.target = g.offset /\ g.offset = g.kpos /\ g.offset # -1
                        /\ g.mode.write => g.kpos <= Len(g.file)
    BY <1>1 DEF Bare, Buffered
  <2>2. Goal(f) = f.kpos /\ (f.mode.write => f.kpos <= Len(f.file))
    BY <2>1 DEF Bare, Goal
  <2> QED
    BY <1>1, <1>2, <2>1, <2>2
<1>7. Outcome(g) = Outcome(f)
  BY <1>1, <1>3 DEF Outcome, Slice
<1>8. Where(g) = Where(f)
  <2>1. Where(g) = Goal(g) + (IF g.pushed THEN g.pushbufp - 1 ELSE g.bufp)
    BY DEF Where, Goal
  <2>2. Where(f) = Goal(f) + (IF f.pushed THEN f.pushbufp - 1 ELSE f.bufp)
    BY DEF Where, Goal
  <2> QED
    BY <1>1, <1>3, <2>1, <2>2
<1> QED
  BY <1>3, <1>4, <1>5, <1>6, <1>7, <1>8

-----------------------------------------------------------------------------
(* ftell and clearerr. *)

LEMMA FtellStep ==
  ASSUME Careful, RefInv, CFtell
  PROVE  RefInv' /\ Abstract!BNext
<1> DEFINE f == Ftell(s)
           c == [op |-> "ftell"]
           r == f.ret
           w == Where(s)
           g == CheckOffset(s)
<1>1. /\ open /\ Returns(c, f, r, dir) /\ f = [g EXCEPT !.ret = w]
      /\ ~(s.eof /\ ~Buffered(s))
  BY DEF CFtell, Ftell, Wary
<1>2. StreamInv /\ Sound(s, dir) /\ Typed(s) /\ Shape(s) /\ Honest(s, dir)
  BY <1>1, SoundFile DEF RefInv, StreamInv
<1>3. StreamInv'
  BY FtellKeeps DEF RefInv
<1>4. IsChecked(g, s) /\ g.pushc = s.pushc /\ g.seen = TRUE
  BY <1>2, CheckKeeps DEF CheckOffset, Typed
<1>5. c.op = "ftell"
  OBVIOUS
<1>6. Typed(g) /\ SameStream(g, s)
  BY <1>4 DEF IsChecked
<1>7. f.ret = w
  BY <1>1, <1>6 DEF Typed
<1> HIDE DEF f, c, w, g
<1>8. Alike(f, g)
  BY <1>1, <1>6, RetAlike
<1>9. /\ Typed(f) /\ f.mode = s.mode /\ f.file = s.file /\ f.error = s.error
  BY <1>6, <1>8 DEF Alike, SameStream
<1>10. CASE s.error
  <2>1. Stuck(s)
    BY <1>2, <1>10 DEF Sound, Reads, Writes, Safe
  <2> HIDE DEF r
  <2> QED
    BY <1>1, <1>2, <1>3, <1>5, <1>9, <1>10, <2>1, StuckStep
<1>11. CASE ~s.error
  <2>1. Near(s, dir) /\ Bare(s)
    BY <1>2, <1>11, HonestNear
  <2>2. IsPlaced(g, s)
    <3>1. /\ Typed(g) /\ SameStream(g, s) /\ g.kpos = s.kpos /\ g.buf = s.buf
          /\ g.bufp = s.bufp /\ g.getl = s.getl /\ g.putl = s.putl
          /\ g.target \in Nat /\ g.offset \in Nat
          /\ s.offset # -1 => g.offset = s.offset
          /\ s.offset = -1 => g.offset = s.kpos
          /\ s.target # -1 => g.target = s.target
          /\ s.target = -1 => g.target = g.offset
      BY <1>4 DEF IsChecked
    <3>2. s.target = -1 <=> s.offset = -1
      BY <1>2, <1>11, <2>1 DEF Bare, Sound, Stuck, Reads, Writes, Safe, Known
    <3>3. ~Buffered(s) /\ s.target # -1 => s.offset = s.kpos
      BY <2>1 DEF Bare
    <3> QED
      BY <3>1, <3>2, <3>3 DEF IsPlaced, Goal
  <2>3. /\ \A b : Match(s, b) => Match(g, b)
        /\ Flat(s) => Flat(g)
        /\ Bare(g) /\ Outcome(g) = Outcome(s) /\ Where(g) = Where(s)
    BY <1>1, <1>2, <2>1, <2>2, PlacedIs
  <2>4. /\ g.mode = s.mode /\ g.error = s.error /\ g.eof = s.eof /\ g.pushed = s.pushed
        /\ g.bufp = s.bufp /\ g.kpos = s.kpos
    BY <1>4, <1>6 DEF IsChecked, SameStream
  <2>5. Honest(g, dir)
    BY <1>4, <2>1, <2>3, <2>4 DEF Honest, Near, Touched
  <2>6. Back(g) = Back(s)
    BY <1>4, <2>4 DEF Back
  <2>7. PlaceOf(g, dir) = PlaceOf(s, dir)
    BY <2>3, <2>4 DEF PlaceOf, Buffered
  <2>8. /\ Typed(f) /\ Back(f) = Back(g) /\ Outcome(f) = Outcome(g)
        /\ PlaceOf(f, dir) = PlaceOf(g, dir) /\ Honest(f, dir)
    BY <1>1, <1>6, <2>5, RetSame
  <2>9. s.mode.append \/ r = PlaceOf(s, dir)
    BY <1>1, <1>7 DEF PlaceOf, w
  <2> HIDE DEF r
  <2>10. /\ RefInv' /\ call' = c /\ out' = r
         /\ s'.file = f.file /\ s'.mode = f.mode /\ s'.error = f.error
         /\ Back(s') = Back(f) /\ Outcome(s') = Outcome(f)
         /\ PlaceOf(s', dir') = PlaceOf(f, dir)
    BY <1>1, <1>3, <2>8, StepLeaves
  <2>11. Abstract!BNext
    BY <1>5, <1>9, <1>11, <2>3, <2>6, <2>7, <2>8, <2>9, <2>10, AsTell
  <2> QED
    BY <2>10, <2>11
<1> QED
  BY <1>10, <1>11

LEMMA ClearerrStep ==
  ASSUME Careful, RefInv, CClearerr
  PROVE  RefInv' /\ Abstract!BNext
<1> DEFINE f == Clearerr(s)
           c == [op |-> "clearerr"]
           r == 0
<1>1. open /\ Returns(c, f, r, dir) /\ ~s.error /\ Buffered(s)
  BY DEF CClearerr
<1>2. Sound(s, dir) /\ Typed(s) /\ Honest(s, dir)
  BY <1>1, SoundFile DEF RefInv, StreamInv
<1>3. StreamInv'
  BY ClearerrKeeps DEF RefInv
<1>4. Sound(f, dir) /\ f.mode = s.mode /\ ~f.error /\ ~f.eof /\ f.file = s.file
  BY <1>1, <1>2, ClearerrDoes
<1>5. /\ f.kpos = s.kpos /\ f.buf = s.buf /\ f.bufp = s.bufp /\ f.seen = s.seen
      /\ f.getl = s.getl /\ f.putl = s.putl /\ f.target = s.target
      /\ f.pushed = s.pushed /\ f.pushbufp = s.pushbufp /\ f.pushc = s.pushc
      /\ f.active = s.active
  BY <1>2 DEF Clearerr, Typed
<1>6. Typed(f) /\ c.op = "clearerr"
  BY <1>4, SoundFile
<1> HIDE DEF f, c, r
<1>7. Honest(f, dir)
  BY <1>1, <1>2, <1>4, <1>5 DEF Honest, Match, Bare, Flat, Touched, Buffered
<1>8. Outcome(f) = Outcome(s)
  BY <1>1, <1>4, <1>5 DEF Outcome, Goal, Slice
<1>9. Back(f) = Back(s) /\ PlaceOf(f, dir) = PlaceOf(s, dir)
  BY <1>1, <1>4, <1>5, <1>8 DEF Back, PlaceOf, Where, Buffered
<1>10. /\ RefInv' /\ call' = c /\ out' = r
       /\ s'.file = f.file /\ s'.mode = f.mode /\ s'.error = f.error
       /\ Back(s') = Back(f) /\ Outcome(s') = Outcome(f)
       /\ PlaceOf(s', dir') = PlaceOf(f, dir)
  BY <1>1, <1>3, <1>6, <1>7, StepLeaves
<1>11. Abstract!BNext
  BY <1>1, <1>4, <1>6, <1>8, <1>9, <1>10, AsTell
<1> QED
  BY <1>10, <1>11

-----------------------------------------------------------------------------
(* A new stream. *)

LEMMA FreshIs ==
  ASSUME NEW f, NEW file, NEW m, f = Fresh(file, m), Modest(m)
  PROVE  Honest(f, "none") /\ Outcome(f) = file /\ PlaceOf(f, "none") = 0 /\ Back(f) = <<>>
<1>1. /\ f.file = file /\ f.kpos = 0 /\ f.bufp = 0 /\ f.getl = 0 /\ f.putl = 0
      /\ f.target = -1 /\ f.offset = -1 /\ f.pushed = FALSE /\ f.eof = FALSE
      /\ f.error = FALSE /\ f.active = FALSE /\ f.mode = m
  BY DEF Fresh
<1>2. Match(f, 0) /\ Touched(f)
  BY <1>1 DEF Match, Touched
<1> QED
  BY <1>1, <1>2 DEF Honest, Outcome, PlaceOf, Where, Back, Bare

LEMMA FopenStep ==
  ASSUME RefInv, CFopen, \A m \in Modes : Modest(m)
  PROVE  RefInv' /\ Abstract!BNext
<1>1. PICK m \in Modes :
        /\ s' = Fresh(IF m.truncate THEN <<>> ELSE s.file, m)
        /\ open' = TRUE /\ dir' = "none" /\ call' = [op |-> "fopen", mode |-> m]
  BY DEF CFopen
<1> DEFINE file == IF m.truncate THEN <<>> ELSE s.file
           g == Fresh(file, m)
<1>2. g.file = file /\ ~g.error /\ g.mode = m
  BY DEF Fresh
<1>3. /\ Honest(g, "none") /\ Outcome(g) = file /\ PlaceOf(g, "none") = 0
      /\ Back(g) = <<>>
  <2> HIDE DEF file
  <2> QED
    BY FreshIs
<1>4. s' = g
  BY <1>1
<1>5. StreamInv'
  BY FopenKeeps DEF RefInv
<1> HIDE DEF g
<1>6. RefInv'
  BY <1>1, <1>3, <1>4, <1>5 DEF RefInv
<1>7. Abstract!BNext
  <2>1. call'.op = "fopen" /\ call'.mode = m
    BY <1>1
  <2> QED
    BY <1>1, <1>2, <1>3, <1>4, <2>1, AsOpen
<1> QED
  BY <1>6, <1>7

-----------------------------------------------------------------------------
(* ungetc. *)

\* A stream before PushBack: nothing it holds is pushed back.
LEMMA PushBackIs ==
  ASSUME NEW x, Serves(x), ~x.pushed, Going(x), NEW e \in Char, NEW f, f = PushBack(x, e)
  PROVE  /\ Typed(f) /\ Honest(f, "in") /\ f.mode = x.mode /\ f.file = x.file /\ ~f.error
         /\ f.ret = e /\ Outcome(f) = f.file /\ Back(f) = <<e>>
         /\ PlaceOf(f, "in") = Base(x) - 1
<1>1. /\ Typed(x) /\ Shape(x) /\ ~x.error /\ Reads(x) /\ Modest(x.mode) /\ Match(x, 0)
      /\ Bare(x) /\ Touched(x) /\ Base(x) = Goal(x) + x.bufp
  BY ServesDoes DEF Serves, Base
<1>2. Reads(f) /\ f.mode = x.mode
  BY <1>1, PushBackDoes
<1>3. f = [x EXCEPT !.pushc = e, !.pushed = TRUE, !.pushbufp = x.bufp,
                    !.bufp = x.getl, !.eof = FALSE, !.ret = e]
  BY DEF PushBack
<1>4. /\ f.file = x.file /\ f.kpos = x.kpos /\ f.buf = x.buf /\ f.getl = x.getl
      /\ f.target = x.target /\ f.offset = x.offset /\ f.error = x.error /\ f.ret = e
      /\ f.pushed = TRUE /\ f.pushbufp = x.bufp /\ f.eof = FALSE /\ f.pushc = e
      /\ f.seen = x.seen
  BY <1>1, <1>3 DEF Typed
<1>5. Match(f, 0) /\ Touched(f)
  BY <1>1, <1>4 DEF Match, Touched
<1>6. Bare(f)
  <2>1. Buffered(f) \/ ~x.eof
    BY <1>2 DEF Going, Buffered
  <2> QED
    BY <1>1, <1>2, <1>4, <2>1 DEF Bare, Buffered
<1>7. Honest(f, "in")
  BY <1>1, <1>2, <1>5, <1>6 DEF Honest
<1>8. Outcome(f) = f.file
  BY <1>2, <1>5, OutcomeSame DEF Reads
<1>9. PlaceOf(f, "in") = Base(x) - 1
  <2>1. PlaceOf(f, "in") = Where(f)
    BY <1>4 DEF PlaceOf
  <2>2. Where(f) = Goal(x) + (x.bufp - 1)
    BY <1>4 DEF Where, Goal
  <2>3. Goal(x) \in Nat /\ x.bufp \in Nat
    BY ServesDoes
  <2> QED
    BY <1>1, <2>1, <2>2, <2>3
<1>10. Typed(f)
  BY <1>2 DEF Reads, Safe, Shape
<1> QED
  BY <1>1, <1>2, <1>4, <1>7, <1>8, <1>9, <1>10 DEF Back

\* What ungetc flushes holds nothing of the program.
LEMMA UngetcReady ==
  ASSUME NEW f, Serves(f), ~f.pushed, Going(f),
         NEW x, x = IF Flushes(f) THEN Flshfp(f, EOF) ELSE f
  PROVE  /\ Serves(x) /\ ~x.pushed /\ Going(x) /\ x.mode = f.mode /\ x.file = f.file
         /\ Base(x) = Base(f)
<1>1. /\ Typed(f) /\ Shape(f) /\ Safe(f) /\ f.active = FALSE /\ Reads(f) /\ Modest(f.mode)
      /\ Match(f, 0) /\ Bare(f) /\ f.mode.read
  BY ServesDoes DEF Serves
<1>2. CASE ~Flushes(f)
  BY <1>2
<1>3. CASE Flushes(f)
  <2>1. x = Flshfp(f, EOF)
    BY <1>3
  <2>2. f.mode.write
    BY <1>1, <1>3 DEF Shape, Flushes
  <2>3. Writes(f) /\ Even(f) /\ Standing(f) /\ ~f.eof
    BY <1>1, <2>2 DEF Reads, Writes, Going
  <2>4. IsFlushed(x, f) /\ IsFlush(x, f)
    BY <1>1, <2>1, <2>3, FlushIs, FlushDoes
  <2>5. ~Stuck(x) /\ Standing(x)
    <3>1. Writes(x) /\ Standing(x)
      BY <2>3, <2>4 DEF IsFlush
    <3> QED
      BY <3>1 DEF Writes, Safe, Stuck
  <2>6. /\ Writes(x) /\ Even(x) /\ Faithful(x, 0) /\ Touched(x) /\ x.mode = f.mode
        /\ x.file = Outcome(f) /\ Goal(x) + x.bufp = Goal(f) + f.bufp /\ Standing(x)
    BY <2>3, <2>4, <2>5 DEF IsFlushed
  <2>7. Outcome(f) = f.file
    BY <1>1, <2>3, OutcomeSame
  <2>8. Reads(x) /\ ~x.pushed /\ ~x.eof
    BY <2>6 DEF Reads, Writes
  <2>9. Serves(x) /\ Going(x)
    BY <1>1, <2>6, <2>8 DEF Serves, Faithful, Going
  <2> QED
    BY <2>6, <2>7, <2>8, <2>9 DEF Base
<1> QED
  BY <1>2, <1>3

LEMMA UngetcStep ==
  ASSUME Careful, RefInv, CUngetc
  PROVE  RefInv' /\ Abstract!BNext
<1>1. MayRead /\ open /\ StreamInv
  BY DEF CUngetc, MayRead, RefInv
<1>2. PICK e \in Char : \E f \in {Ungetc(s, e)} :
        Returns([op |-> "ungetc", c |-> e], f, f.ret, "in")
  BY DEF CUngetc
<1>3. PICK f \in {Ungetc(s, e)} : Returns([op |-> "ungetc", c |-> e], f, f.ret, "in")
  BY <1>2
<1>4. StreamInv' /\ f = Ungetc(s, e) /\ (s.error => Flushes(s))
  BY <1>3, UngetcKeeps DEF RefInv, CUngetc
<1> DEFINE c == [op |-> "ungetc", c |-> e]
           r == f.ret
           d == "in"
<1>5. Returns(c, f, r, d) /\ c.op = "ungetc" /\ c.c = e /\ d = "in"
  BY <1>3
<1>6. CASE Stuck(s)
  <2>1. (Stuck(f) \/ Reads(f)) /\ f.mode = s.mode /\ f.file = s.file /\ f.error
    BY <1>4, <1>6, UngetcDoes, StuckUngetc DEF Stuck
  <2>2. Typed(f)
    BY <2>1 DEF Stuck, Reads, Safe, Shape
  <2> HIDE DEF c, r, d
  <2> QED
    BY <1>1, <1>4, <1>5, <1>6, <2>1, <2>2, StuckStep
<1>7. CASE ~Stuck(s)
  <2>1. /\ ~s.error /\ Serves(s) /\ Going(s) /\ Outcome(s) = s.file
        /\ PlaceOf(s, dir) = Base(s) - Len(Back(s))
    BY <1>1, <1>7, MayReadIs DEF RefInv
  <2>2. Typed(s) /\ s.file \in Seq(Byte)
    BY <2>1, ServesDoes
  <2>3. CASE s.pushed
    <3>1. f = [s EXCEPT !.ret = EOF]
      BY <1>4, <2>3 DEF Ungetc
    <3>2. Honest(s, "in") /\ ~s.eof
      BY <2>1, <2>3, ServesDoes DEF Serves, Honest
    <3>3. PlaceOf(s, "in") = PlaceOf(s, dir)
      <4>1. Len(Back(s)) = 1 /\ Goal(s) \in Nat /\ s.pushbufp \in Nat
        <5>1. Len(Back(s)) = 1
          BY <2>2, <2>3, BackIs
        <5>2. Goal(s) \in Nat
          BY <2>1, ServesDoes
        <5>3. s.pushbufp \in Nat
          BY <2>2, StreamAssumption DEF Typed
        <5> QED
          BY <5>1, <5>2, <5>3
      <4>2. PlaceOf(s, "in") = Goal(s) + (s.pushbufp - 1)
        BY <2>3, <3>2 DEF PlaceOf, Where, Goal
      <4> QED
        BY <2>1, <2>3, <4>1, <4>2 DEF Base
    <3>4. /\ Typed(f) /\ f.file = s.file /\ f.mode = s.mode /\ f.error = s.error
          /\ Back(f) = Back(s) /\ Outcome(f) = Outcome(s)
          /\ PlaceOf(f, d) = PlaceOf(s, dir) /\ Honest(f, d)
      <4>1. PICK v : v = EOF
        OBVIOUS
      <4>2. f = [s EXCEPT !.ret = v]
        BY <3>1, <4>1
      <4> QED
        BY <2>2, <3>2, <3>3, <4>2, RetSame, ZenonT(60)
    <3>5. r = EOF /\ Back(s) # <<>>
      BY <2>2, <2>3, <3>1 DEF Typed, Back
    <3> HIDE DEF c, r, d
    <3>6. /\ RefInv' /\ call' = c /\ out' = r
          /\ s'.file = f.file /\ s'.mode = f.mode /\ s'.error = f.error
          /\ Back(s') = Back(f) /\ Outcome(s') = Outcome(f)
          /\ PlaceOf(s', dir') = PlaceOf(f, d)
      BY <1>1, <1>4, <1>5, <3>4, StepLeaves
    <3>7. Abstract!Between(s'.file, s.file, Outcome(s'))
      BY <2>1, <2>2, <3>4, <3>6, SameBetween
    <3>8. Abstract!BNext
      BY <1>5, <2>1, <3>4, <3>5, <3>6, <3>7, AsUnread
    <3> QED
      BY <3>6, <3>8
  <2>4. CASE ~s.pushed
    <3> DEFINE x == IF Flushes(s) THEN Flshfp(s, EOF) ELSE s
    <3>1. /\ Serves(x) /\ ~x.pushed /\ Going(x) /\ x.mode = s.mode /\ x.file = s.file
          /\ Base(x) = Base(s)
      BY <2>1, <2>4, UngetcReady
    <3>2. f = PushBack(x, e)
      BY <1>4, <2>4, <3>1, ServesDoes DEF Ungetc
    <3> HIDE DEF x
    <3>3. /\ Typed(f) /\ Honest(f, d) /\ f.mode = s.mode /\ f.file = s.file /\ ~f.error
          /\ r = e /\ Outcome(f) = f.file /\ Back(f) = <<e>>
          /\ PlaceOf(f, d) = Base(s) - 1
      BY <3>1, <3>2, PushBackIs
    <3>4. Back(s) = <<>> /\ PlaceOf(s, dir) = Base(s)
      <4>1. Base(s) \in Nat
        BY <2>1, ServesDoes
      <4> QED
        BY <2>1, <2>4, <4>1 DEF Back
    <3> HIDE DEF c, r, d
    <3>5. /\ RefInv' /\ call' = c /\ out' = r
          /\ s'.file = f.file /\ s'.mode = f.mode /\ s'.error = f.error
          /\ Back(s') = Back(f) /\ Outcome(s') = Outcome(f)
          /\ PlaceOf(s', dir') = PlaceOf(f, d)
      BY <1>1, <1>4, <1>5, <3>3, StepLeaves
    <3>6. Abstract!Between(s'.file, s.file, Outcome(s'))
      BY <2>1, <2>2, <3>3, <3>5, SameBetween
    <3>7. Abstract!BNext
      BY <1>5, <2>1, <3>3, <3>4, <3>5, <3>6, AsUnread
    <3> QED
      BY <3>5, <3>7
  <2> QED
    BY <2>3, <2>4
<1> QED
  BY <1>6, <1>7

-----------------------------------------------------------------------------
(* fseek. *)

\* A stream that was flushed, and where it stands.
IsLevel(x, f, d) ==
  /\ Typed(x) /\ x.mode = f.mode /\ ~x.error /\ x.file = Outcome(f) /\ ~f.error
  /\ x.mode.write => ~x.pushed /\ x.ret = 0
  /\ ~(f.eof /\ f.mode.write) =>
       /\ Match(x, 0) /\ Flat(x) /\ Outcome(x) = x.file
       /\ x.eof => f.eof
       /\ Bare(f) => Bare(x)
       /\ ~(f.mode.append /\ d \in {"out", "sync"}) => Base(x) = Base(f)

LEMMA LevelIs ==
  ASSUME NEW f, NEW d, Sound(f, d), Near(f, d),
         NEW x, x = IF f.mode.write THEN Flshfp(f, EOF) ELSE f
  PROVE  \/ /\ f.mode.write /\ Typed(x) /\ x.mode = f.mode /\ x.error /\ x.ret = EOF
            /\ Abstract!Between(x.file, f.file, Outcome(f))
         \/ IsLevel(x, f, d)
<1>1. Typed(f) /\ Shape(f) /\ ~f.error
  BY SoundFile DEF Near
<1>2. CASE ~f.mode.write
  <2>1. Outcome(f) = f.file /\ Reads(f) /\ d # "out"
    BY <1>2, ReadOnlyIs
  <2>2. Match(f, 0) /\ Flat(f)
    BY <1>1, <2>1, EvenFlat DEF Near, Reads
  <2> QED
    BY <1>1, <1>2, <2>1, <2>2 DEF IsLevel
<1>3. CASE f.mode.write
  <2>1. x = Flshfp(f, EOF)
    BY <1>3
  <2>2. IsSynced(x, f, d)
    BY <1>3, <2>1, SyncIs
  <2>3. CASE Stuck(x) /\ x.ret = EOF /\ Abstract!Between(x.file, f.file, Outcome(f))
    <3>1. Typed(x) /\ x.mode = f.mode /\ x.error
      BY <2>2, <2>3 DEF IsSynced, Stuck
    <3> QED
      BY <1>3, <2>3, <3>1
  <2>4. CASE ~(Stuck(x) /\ x.ret = EOF /\ Abstract!Between(x.file, f.file, Outcome(f)))
    <3>1. /\ Typed(x) /\ x.mode = f.mode
          /\ ~x.error /\ ~x.pushed /\ x.ret = 0 /\ x.file = Outcome(f)
          /\ ~f.eof => /\ Writes(x) /\ Even(x) /\ Match(x, 0)
                       /\ (Bare(f) => Bare(x))
          /\ ~f.eof /\ ~(f.mode.append /\ d \in {"out", "sync"}) =>
               Goal(x) + x.bufp = Base(f)
      BY <2>2, <2>4 DEF IsSynced
    <3>2. ASSUME ~f.eof
          PROVE  /\ Match(x, 0) /\ Flat(x) /\ Outcome(x) = x.file /\ ~x.eof
                 /\ Bare(f) => Bare(x)
                 /\ ~(f.mode.append /\ d \in {"out", "sync"}) => Base(x) = Base(f)
      <4>1. Writes(x) /\ Even(x) /\ Match(x, 0)
        BY <3>1, <3>2
      <4>2. Shape(x) /\ Safe(x) /\ ~x.pushed /\ ~x.eof
        BY <4>1 DEF Writes, Safe
      <4>3. Flat(x) /\ Outcome(x) = x.file
        BY <4>1, <4>2, EvenFlat, OutcomeSame
      <4> QED
        BY <3>1, <3>2, <4>1, <4>2, <4>3 DEF Base
    <3> QED
      BY <1>1, <1>3, <3>1, <3>2 DEF IsLevel
  <2> QED
    BY <2>3, <2>4
<1> QED
  BY <1>2, <1>3

\* fseek before it moves: nothing is pushed back, and the kernel was asked.
IsAsked(y, x) ==
  /\ Typed(y) /\ y.mode = x.mode /\ y.file = x.file /\ y.error = x.error
  /\ y.pushed = FALSE /\ y.eof = FALSE /\ y.seen = TRUE /\ y.target = Goal(x)
  /\ Goal(y) = Goal(x) /\ Goal(y) + y.bufp = Base(x)
  /\ Match(x, 0) => Match(y, 0)
  /\ Flat(x) => Flat(y)
  /\ Bare(x) /\ ~(x.eof /\ ~Buffered(x)) => Bare(y)
  /\ ~x.pushed => Outcome(y) = Outcome(x)

LEMMA AskedIs ==
  ASSUME NEW x, Typed(x), NEW y, y = Unpush(AskWhere(x))
  PROVE  IsAsked(y, x)
<1> DEFINE a == AskWhere(x)
<1>1. /\ Typed(a) /\ SameStream(a, x) /\ ~a.eof /\ a.bufp = x.bufp /\ a.getl = x.getl
      /\ a.putl = x.putl /\ a.target = Goal(x) /\ Goal(a) = Goal(x)
  BY AskWhereDoes
<1>2. a.kpos = x.kpos /\ a.buf = x.buf /\ a.offset = x.kpos /\ a.seen = TRUE
  BY DEF AskWhere, CheckOffset, Typed
<1>3. y = Unpush(a)
  OBVIOUS
<1> HIDE DEF a
<1>4. /\ a.mode = x.mode /\ a.file = x.file /\ a.error = x.error /\ a.pushed = x.pushed
      /\ a.pushbufp = x.pushbufp /\ a.active = x.active
  BY <1>1 DEF SameStream
<1>5. IsPlaced(a, x)
  BY <1>1, <1>2 DEF IsPlaced
<1>6. /\ \A b : Match(x, b) => Match(a, b)
      /\ Flat(x) => Flat(a)
      /\ Bare(x) /\ ~(x.eof /\ ~Buffered(x)) => Bare(a)
      /\ Outcome(a) = Outcome(x)
  BY <1>5, PlacedIs
<1>7. CASE ~x.pushed
  <2>1. y = a
    BY <1>3, <1>4, <1>7 DEF Unpush
  <2>2. a.pushed = FALSE /\ a.eof = FALSE
    BY <1>1, <1>4, <1>7 DEF Typed
  <2>3. Base(x) = Goal(x) + x.bufp
    BY <1>7 DEF Base
  <2> QED
    BY <1>1, <1>2, <1>4, <1>6, <2>1, <2>2, <2>3 DEF IsAsked
<1>8. CASE x.pushed
  <2>1. y = [a EXCEPT !.bufp = a.pushbufp, !.pushed = FALSE]
    BY <1>3, <1>4, <1>8 DEF Unpush
  <2>2. /\ y.file = a.file /\ y.kpos = a.kpos /\ y.buf = a.buf /\ y.bufp = a.pushbufp
        /\ y.getl = a.getl /\ y.putl = a.putl /\ y.target = a.target
        /\ y.offset = a.offset /\ y.pushed = FALSE /\ y.eof = a.eof /\ y.error = a.error
        /\ y.active = a.active /\ y.seen = a.seen /\ y.mode = a.mode
    BY <1>1, <2>1 DEF Typed
  <2>3. Typed(y)
    BY <1>1, <2>1, <2>2 DEF Typed
  <2>4. a.eof = FALSE
    BY <1>1 DEF Typed
  <2>5. /\ Match(a, 0) => Match(y, 0)
        /\ Flat(a) => Flat(y)
        /\ Bare(a) => Bare(y)
    BY <2>2 DEF Match, Flat, Bare, Buffered
  <2>6. Goal(y) = Goal(x) /\ Goal(y) + y.bufp = Base(x)
    BY <1>1, <1>4, <1>8, <2>2 DEF Goal, Base
  <2> QED
    BY <1>1, <1>2, <1>4, <1>6, <1>8, <2>2, <2>3, <2>4, <2>5, <2>6 DEF IsAsked
<1> QED
  BY <1>7, <1>8

\* The buffer stands for nothing at the new target.
Emptied(g, y, goal) ==
  g = [y EXCEPT !.target = goal, !.kpos = goal, !.offset = goal, !.bufp = 0,
                !.getl = 0, !.putl = 0, !.active = FALSE, !.ret = 0]

LEMMA MovedIs ==
  ASSUME NEW y, Typed(y), ~y.error, ~y.pushed, ~y.eof, Modest(y.mode),
         NEW goal \in Nat, y.mode.write => goal <= Len(y.file), NEW g, Emptied(g, y, goal)
  PROVE  /\ Typed(g) /\ g.mode = y.mode /\ g.file = y.file
         /\ ~g.error /\ ~g.eof /\ g.ret = 0
         /\ Outcome(g) = g.file /\ Back(g) = <<>>
         /\ Honest(g, "none") /\ PlaceOf(g, "none") = goal
<1>1. /\ g.file = y.file /\ g.kpos = goal /\ g.bufp = 0 /\ g.getl = 0 /\ g.putl = 0
      /\ g.target = goal /\ g.offset = goal /\ g.pushed = y.pushed /\ g.eof = y.eof
      /\ g.error = y.error /\ g.active = FALSE /\ g.mode = y.mode /\ g.ret = 0
  BY DEF Typed, Emptied
<1>2. Match(g, 0) /\ Touched(g)
  BY <1>1 DEF Match, Touched
<1>3. Bare(g)
  BY <1>1 DEF Bare
<1>4. Honest(g, "none")
  BY <1>1, <1>2, <1>3 DEF Honest
<1>5. PlaceOf(g, "none") = goal
  BY <1>1 DEF PlaceOf, Where
<1>6. Typed(g)
  <2>1. g.buf = y.buf /\ g.pushbufp = y.pushbufp
    BY DEF Typed, Emptied
  <2>2. 0 \in 0 .. BufSize
    BY StreamAssumption
  <2> QED
    BY <1>1, <2>1, <2>2 DEF Typed, Emptied
<1> QED
  BY <1>1, <1>4, <1>5, <1>6 DEF Outcome, Back

IsSought(g, f, d, goal) ==
  /\ Typed(g) /\ g.mode = f.mode
  /\ \/ g.error /\ g.ret = EOF /\ Abstract!Between(g.file, f.file, Outcome(f))
     \/ /\ ~g.error /\ g.file = Outcome(f) /\ Outcome(g) = g.file /\ Back(g) = <<>>
        /\ goal < 0 => /\ g.ret = EOF /\ Honest(g, d)
                       /\ PlaceOf(g, d) = PlaceOf(f, d) + Len(Back(f))
        /\ goal >= 0 => /\ g.ret = 0 /\ ~g.eof /\ Honest(g, "none")
                        /\ PlaceOf(g, "none") = goal

\* What a stream is whose position is known.
Placed(f, d) ==
  Bare(f) /\ ~(f.eof /\ (f.mode.write \/ ~Buffered(f)))

LEMMA PlacedBase ==
  ASSUME NEW f, NEW d, Typed(f), Placed(f, d), ~(f.mode.append /\ d \in {"out", "sync"})
  PROVE  PlaceOf(f, d) + Len(Back(f)) = Base(f) /\ PlaceOf(f, d) \in Int
         /\ (~f.pushed => PlaceOf(f, d) = Base(f))
<1>1. PlaceOf(f, d) = Goal(f) + (IF f.pushed THEN f.pushbufp - 1 ELSE f.bufp)
  BY DEF PlaceOf, Placed, Where, Goal
<1>2. Len(Back(f)) = IF f.pushed THEN 1 ELSE 0
  BY BackIs
<1>3. Goal(f) \in Nat /\ f.pushbufp \in Nat /\ f.bufp \in Nat
  BY StreamAssumption DEF Typed, Goal
<1> QED
  BY <1>1, <1>2, <1>3 DEF Base

\* fseek to a place before the file.
Refused(g, y) == g = [y EXCEPT !.ret = EOF]

LEMMA SoughtBack ==
  ASSUME NEW f, NEW d, Sound(f, d), Near(f, d), NEW x, IsLevel(x, f, d), NEW y,
         IsAsked(y, x), Placed(f, d), NEW g, Refused(g, y)
  PROVE  /\ Typed(g) /\ ~g.error
         /\ g.file = Outcome(f) /\ Outcome(g) = g.file /\ Back(g) = <<>>
         /\ g.ret = EOF /\ Honest(g, d)
         /\ PlaceOf(g, d) = PlaceOf(f, d) + Len(Back(f))
<1>1. /\ Typed(f) /\ Typed(x) /\ x.mode = f.mode /\ ~x.error /\ x.file = Outcome(f)
      /\ x.mode.write => ~x.pushed
      /\ Match(x, 0) /\ Flat(x) /\ Outcome(x) = x.file /\ Bare(x)
      /\ ~(x.eof /\ ~Buffered(x))
      /\ ~(f.mode.append /\ d \in {"out", "sync"}) => Base(x) = Base(f)
  BY SoundFile DEF IsLevel, Placed, Buffered
<1>2. /\ Typed(y) /\ y.mode = f.mode /\ y.file = x.file /\ ~y.error
      /\ y.pushed = FALSE /\ y.eof = FALSE /\ y.seen = TRUE /\ y.target = Goal(x)
      /\ Goal(y) + y.bufp = Base(x) /\ Match(y, 0) /\ Flat(y) /\ Bare(y)
      /\ ~x.pushed => Outcome(y) = Outcome(x)
  BY <1>1 DEF IsAsked
<1>3. Outcome(y) = y.file
  <2>1. CASE ~x.pushed
    BY <1>1, <1>2, <2>1
  <2>2. CASE x.pushed
    BY <1>1, <1>2, <2>2 DEF Outcome
  <2> QED
    BY <2>1, <2>2
<1>4. y.bufp \in Nat /\ Match(y, y.bufp)
  <2>1. y.bufp \in Nat
    BY <1>2, StreamAssumption DEF Typed
  <2> QED
    BY <1>2, <2>1, MatchLess
<1>5. Honest(y, d)
  BY <1>2, <1>4 DEF Honest, Near, Touched
<1>6. PlaceOf(y, d) = PlaceOf(f, d) + Len(Back(f))
  <2>1. CASE f.mode.append /\ d \in {"out", "sync"}
    <3>1. ~f.pushed
      BY <2>1 DEF Sound, Stuck, Writes, Near
    <3>2. PlaceOf(f, d) = Len(Outcome(f)) /\ PlaceOf(y, d) = Len(Outcome(f))
      BY <1>1, <1>2, <1>3, <2>1 DEF PlaceOf
    <3>3. Len(Outcome(f)) \in Nat
      BY <1>1 DEF Typed
    <3>4. Back(f) = <<>>
      BY <3>1 DEF Back
    <3> QED
      BY <3>2, <3>3, <3>4
  <2>2. CASE ~(f.mode.append /\ d \in {"out", "sync"})
    <3>1. PlaceOf(y, d) = Base(x)
      BY <1>2, <2>2 DEF PlaceOf, Where, Goal
    <3>2. PlaceOf(f, d) + Len(Back(f)) = Base(f)
      BY <1>1, <2>2, PlacedBase
    <3> QED
      BY <1>1, <2>2, <3>1, <3>2
  <2> QED
    BY <2>1, <2>2
<1>7. /\ Typed(g) /\ g.file = y.file /\ g.error = y.error
      /\ Back(g) = Back(y) /\ Outcome(g) = Outcome(y)
      /\ PlaceOf(g, d) = PlaceOf(y, d) /\ Honest(g, d)
  <2>1. PICK v : v = EOF
    OBVIOUS
  <2>2. g = [y EXCEPT !.ret = v]
    BY <2>1 DEF Refused
  <2> QED
    BY <1>2, <1>5, <2>2, RetSame
<1>8. g.ret = EOF /\ Back(y) = <<>>
  BY <1>2 DEF Typed, Back, Refused
<1> QED
  BY <1>1, <1>2, <1>3, <1>6, <1>7, <1>8

\* The goal the code computes.
LEMMA SoughtGoal ==
  ASSUME NEW f, NEW d, Typed(f), NEW x, IsLevel(x, f, d), NEW y, IsAsked(y, x),
         NEW o \in Int, NEW whence \in {"SET", "END", "CUR"},
         whence = "CUR" => /\ Placed(f, d) /\ ~f.pushed
                           /\ ~(f.mode.append /\ d \in {"out", "sync"})
  PROVE  Seeked(y, o, whence) = Target(f, d, o, whence) /\ Target(f, d, o, whence) \in Int
<1>1. Typed(y) /\ y.file = Outcome(f) /\ y.target = Goal(x) /\ Goal(y) + y.bufp = Base(x)
      /\ Goal(y) = Goal(x)
  BY DEF IsLevel, IsAsked
<1>2. Len(y.file) \in Nat /\ y.bufp \in Nat /\ y.target \in Int
  BY <1>1, StreamAssumption, SMTT(30) DEF Typed
<1>3. CASE whence = "SET"
  BY <1>3 DEF Seeked, Target
<1>4. CASE whence = "END"
  BY <1>1, <1>2, <1>4 DEF Seeked, Target
<1>5. CASE whence = "CUR"
  <2>1. Base(x) = Base(f)
    BY <1>5 DEF IsLevel, Placed
  <2>2. PlaceOf(f, d) = Base(f) /\ PlaceOf(f, d) \in Int
    BY <1>5, PlacedBase
  <2>3. Seeked(y, o, whence) = o + y.bufp + y.target
    BY <1>5 DEF Seeked
  <2>4. Target(f, d, o, whence) = o + PlaceOf(f, d)
    BY <1>5 DEF Target
  <2> QED
    BY <1>1, <1>2, <2>1, <2>2, <2>3, <2>4
<1> QED
  BY <1>3, <1>4, <1>5

LEMMA SeekIs ==
  ASSUME NEW f, NEW d, Sound(f, d), Near(f, d),
         NEW o \in Int, NEW whence \in {"SET", "END", "CUR"},
         NEW goal, goal = Target(f, d, o, whence),
         f.mode.write => goal <= Len(Outcome(f)),
         whence = "CUR" => ~f.pushed /\ ~(f.mode.append /\ d \in {"out", "sync"}),
         whence = "CUR" \/ goal < 0 => Placed(f, d),
         NEW g, g = Fseek(f, o, whence)
  PROVE  IsSought(g, f, d, goal)
<1> DEFINE x == IF f.mode.write THEN Flshfp(f, EOF) ELSE f
           y == Unpush(AskWhere(x))
<1>1. g = SeekFlushed(x, o, whence)
  BY DEF Fseek
<1>2. \/ /\ f.mode.write /\ Typed(x) /\ x.mode = f.mode /\ x.error /\ x.ret = EOF
         /\ Abstract!Between(x.file, f.file, Outcome(f))
      \/ IsLevel(x, f, d)
  BY LevelIs
<1> HIDE DEF x
<1>3. CASE ~IsLevel(x, f, d)
  <2>1. g = x
    BY <1>1, <1>2, <1>3 DEF SeekFlushed
  <2> QED
    BY <1>2, <1>3, <2>1 DEF IsSought
<1>4. CASE IsLevel(x, f, d)
  <2>1. Typed(x) /\ x.mode = f.mode /\ ~x.error /\ (x.mode.write => x.ret = 0)
        /\ x.file = Outcome(f)
    BY <1>4 DEF IsLevel
  <2>2. ~(x.mode.write /\ x.ret = EOF)
    BY <2>1, StreamAssumption
  <2>3. g = SeekFrom(y, o, whence)
    BY <1>1, <2>2 DEF SeekFlushed
  <2>4. IsAsked(y, x)
    BY <2>1, AskedIs
  <2> HIDE DEF y
  <2>5. Typed(f)
    BY SoundFile
  <2>6. Seeked(y, o, whence) = goal /\ goal \in Int
    <3>1. whence = "CUR" => /\ Placed(f, d) /\ ~f.pushed
                            /\ ~(f.mode.append /\ d \in {"out", "sync"})
      OBVIOUS
    <3>2. /\ Seeked(y, o, whence) = Target(f, d, o, whence)
          /\ Target(f, d, o, whence) \in Int
      BY ONLY <1>4, <2>4, <2>5, <3>1, SoughtGoal, o \in Int, whence \in {"SET", "END", "CUR"}
    <3> QED
      BY <3>2
  <2>7. /\ Typed(y) /\ y.mode = f.mode /\ y.file = Outcome(f) /\ ~y.error /\ ~y.pushed
        /\ ~y.eof
    BY <2>1, <2>4 DEF IsAsked
  <2>8. CASE goal < 0
    <3>1. Refused(g, y)
      BY <2>3, <2>6, <2>8 DEF SeekFrom, Seeked, Refused
    <3>2. /\ Typed(g) /\ ~g.error /\ g.file = Outcome(f) /\ Outcome(g) = g.file /\ Back(g) = <<>>
          /\ g.ret = EOF /\ Honest(g, d)
          /\ PlaceOf(g, d) = PlaceOf(f, d) + Len(Back(f))
      <4>1. Placed(f, d) /\ Sound(f, d) /\ Near(f, d)
        BY <2>8
      <4> QED
        BY ONLY <1>4, <2>4, <3>1, <4>1, SoughtBack
    <3>3. g.mode = f.mode
      BY <2>7, <3>1 DEF Typed, Refused
    <3>4. ~(goal >= 0)
      BY <2>6, <2>8
    <3> QED
      BY <3>2, <3>3, <3>4 DEF IsSought
  <2>9. CASE ~(goal < 0)
    <3>1. goal \in Nat /\ goal >= 0
      BY <2>6, <2>9
    <3>2. Emptied(g, y, goal)
      BY <2>3, <2>6, <2>9 DEF SeekFrom, Seeked, Emptied
    <3>3. Modest(y.mode)
      BY <2>7 DEF Near
    <3>4. y.mode.write => goal <= Len(y.file)
      BY <2>7
    <3>5. /\ Typed(g) /\ g.mode = y.mode /\ g.file = y.file
          /\ ~g.error /\ ~g.eof /\ g.ret = 0
          /\ Outcome(g) = g.file /\ Back(g) = <<>>
          /\ Honest(g, "none") /\ PlaceOf(g, "none") = goal
      BY ONLY <2>7, <3>1, <3>2, <3>3, <3>4, MovedIs
    <3> QED
      BY <2>7, <2>9, <3>5 DEF IsSought
  <2> QED
    BY <2>8, <2>9
<1> QED
  BY <1>3, <1>4

\* Any of the calls that seek.
LEMMA SeeksStep ==
  ASSUME Careful, RefInv, StreamInv', open,
         NEW o \in Int, NEW whence \in {"SET", "END", "CUR"},
         NEW goal, goal = Target(s, dir, o, whence),
         s.mode.write => goal <= Len(Outcome(s)),
         whence = "CUR" => ~s.pushed /\ ~(s.mode.append /\ dir \in {"out", "sync"}),
         whence = "CUR" \/ goal < 0 => ~(s.eof /\ (s.mode.write \/ ~Buffered(s))),
         goal \in Int, Seeks(o, whence)
  PROVE  RefInv' /\ Abstract!BNext
<1> DEFINE f == Fseek(s, o, whence)
           c == [op |-> "fseek", offset |-> o, whence |-> whence]
           r == f.ret
           d == IF f.ret = EOF THEN dir ELSE "none"
<1>1. Returns(c, f, r, d)
  BY DEF Seeks
<1>2. StreamInv /\ Sound(s, dir) /\ Typed(s) /\ Honest(s, dir)
  BY SoundFile DEF RefInv, StreamInv
<1>3. c.op = "fseek" /\ c.offset = o /\ c.whence = whence
  OBVIOUS
<1>4. CASE Stuck(s)
  <2>1. Typed(s) /\ s.error /\ s.mode.write
    BY <1>4 DEF Stuck, Shape
  <2>2. PICK x : x = Flshfp(s, EOF)
    OBVIOUS
  <2>3. x.file = s.file /\ x.error /\ x.ret = EOF
    BY <1>4, <2>2, StuckFlush
  <2>4. Typed(x) /\ x.mode = s.mode
    BY <2>1, <2>2, FlushError DEF Alike
  <2>5. f = SeekFlushed(x, o, whence)
    BY <2>1, <2>2 DEF Fseek
  <2>6. f = x
    BY <2>1, <2>3, <2>4, <2>5 DEF SeekFlushed
  <2> HIDE DEF f
  <2>7. r = EOF
    BY <2>3, <2>6
  <2> HIDE DEF c, r, d
  <2> QED
    BY <1>1, <1>2, <1>4, <2>3, <2>4, <2>6, <2>7, StuckStep
<1>5. CASE ~Stuck(s)
  <2>1. ~s.error
    BY <1>2, <1>5 DEF Sound, Reads, Writes, Safe
  <2>2. Near(s, dir) /\ Bare(s)
    BY <1>2, <2>1, HonestNear
  <2>3. whence = "CUR" \/ goal < 0 => Placed(s, dir)
    BY <2>2 DEF Placed
  <2>4. PICK g : g = Fseek(s, o, whence)
    OBVIOUS
  <2>5. IsSought(g, s, dir, goal)
    <3>1. goal = Target(s, dir, o, whence) /\ (s.mode.write => goal <= Len(Outcome(s)))
          /\ (whence = "CUR" => ~s.pushed /\ ~(s.mode.append /\ dir \in {"out", "sync"}))
      OBVIOUS
    <3> QED
      BY ONLY <1>2, <2>2, <2>3, <2>4, <3>1, SeekIs, o \in Int,
              whence \in {"SET", "END", "CUR"}
  <2>6. Typed(g)
    BY <2>5 DEF IsSought
  <2>7. g.mode = s.mode /\ f = g
    BY <2>4, <2>5 DEF IsSought
  <2> HIDE DEF f
  <2>8. CASE g.error /\ g.ret = EOF /\ Abstract!Between(g.file, s.file, Outcome(s))
    <3>1. r = EOF
      BY <2>7, <2>8
    <3>2. PICK x : x = Outcome(s)
      OBVIOUS
    <3>3. /\ x = IF s.error THEN s.file
                 ELSE IF c.op = "write"
                      THEN Abstract!Overlay(Outcome(s),
                             IF s.mode.append THEN Len(Outcome(s)) ELSE PlaceOf(s, dir),
                             c.data)
                      ELSE Outcome(s)
          /\ Abstract!Between(f.file, s.file, x)
      BY <1>3, <2>1, <2>7, <2>8, <3>2
    <3> HIDE DEF c, r, d
    <3> QED
      BY <1>1, <1>2, <2>6, <2>7, <2>8, <3>1, <3>3, StepsOn
  <2>9. CASE ~(g.error /\ g.ret = EOF /\ Abstract!Between(g.file, s.file, Outcome(s)))
    <3>1. /\ ~g.error /\ g.file = Outcome(s) /\ Outcome(g) = g.file /\ Back(g) = <<>>
          /\ goal < 0 => /\ g.ret = EOF /\ Honest(g, dir)
                         /\ PlaceOf(g, dir) = PlaceOf(s, dir) + Len(Back(s))
          /\ goal >= 0 => /\ g.ret = 0 /\ Honest(g, "none")
                          /\ PlaceOf(g, "none") = goal
      BY <2>5, <2>9 DEF IsSought
    <3>2. /\ r = IF goal < 0 THEN EOF ELSE 0
          /\ Honest(g, d)
          /\ PlaceOf(g, d) = IF goal < 0 THEN PlaceOf(s, dir) + Len(Back(s)) ELSE goal
      <4>1. CASE goal < 0
        BY <2>7, <3>1, <4>1
      <4>2. CASE ~(goal < 0)
        <5>1. goal >= 0
          BY <4>2
        <5>2. g.ret = 0 /\ d = "none" /\ r = 0
          BY <2>7, <3>1, <5>1, StreamAssumption
        <5> QED
          BY <3>1, <4>2, <5>1, <5>2
      <4> QED
        BY <4>1, <4>2
    <3> HIDE DEF c, r, d
    <3>3. /\ RefInv' /\ call' = c /\ out' = r
          /\ s'.file = f.file /\ s'.mode = f.mode /\ s'.error = f.error
          /\ Back(s') = Back(f) /\ Outcome(s') = Outcome(f)
          /\ PlaceOf(s', dir') = PlaceOf(f, d)
      BY <1>1, <2>6, <2>7, <3>2, StepLeaves
    <3>4. goal = Target(s, dir, call'.offset, call'.whence)
      BY <1>3, <3>3
    <3>5. Abstract!BNext
      BY <1>3, <2>1, <2>7, <3>1, <3>2, <3>3, <3>4, AsSeek
    <3> QED
      BY <3>3, <3>5
  <2> QED
    BY <2>8, <2>9
<1> QED
  BY <1>4, <1>5

LEMMA FseekStep ==
  ASSUME Careful, RefInv, CFseek
  PROVE  RefInv' /\ Abstract!BNext
<1>1. open /\ Sound(s, dir) /\ Typed(s) /\ MaxFile \in Nat
  BY SoundFile, StreamAssumption DEF CFseek, RefInv, StreamInv
<1>2. StreamInv'
  BY FseekKeeps DEF RefInv
<1>3. (s.mode.write => \A p : Inside(p) => p <= Len(Outcome(s)))
      /\ Len(Outcome(s)) \in Nat
  <2>1. s.mode.write => \A p : Inside(p) => p <= Len(Outcome(s))
    BY OutcomeView DEF Inside
  <2>2. Safe(s) \/ Stuck(s)
    BY <1>1 DEF Sound, Reads, Writes
  <2>3. CASE Safe(s)
    <3>1. PICK n : n = IF s.pushed THEN s.pushbufp ELSE s.bufp
      OBVIOUS
    <3> QED
      BY <2>1, <2>3, <3>1, OutcomeLength
  <2>4. CASE Stuck(s)
    <3>1. Outcome(s) = s.file
      BY <2>4 DEF Stuck, Outcome
    <3> QED
      BY <1>1, <2>1, <3>1 DEF Typed
  <2> QED
    BY <2>2, <2>3, <2>4
<1>4. Wary => ~(s.eof /\ (s.mode.write \/ ~Buffered(s)))
  BY DEF Wary
<1>5. ASSUME NEW o \in 0 .. MaxFile, Inside(o), Seeks(o, "SET")
      PROVE  RefInv' /\ Abstract!BNext
  <2> DEFINE whence == "SET"
             goal == Target(s, dir, o, whence)
  <2>1. whence \in {"SET", "END", "CUR"} /\ whence # "CUR" /\ o \in Int /\ goal = o
        /\ Seeks(o, whence)
    BY <1>1, <1>5 DEF Target
  <2>2. goal \in Int /\ ~(goal < 0) /\ (s.mode.write => goal <= Len(Outcome(s)))
    BY <1>1, <1>3, <1>5, <2>1
  <2>3. goal = Target(s, dir, o, whence)
    OBVIOUS
  <2> HIDE DEF whence, goal
  <2> QED
    BY <1>1, <1>2, <2>1, <2>2, <2>3, SeeksStep
<1>6. ASSUME NEW o \in {-1, 0}, Wary \/ o + Len(View) >= 0, Seeks(o, "END")
      PROVE  RefInv' /\ Abstract!BNext
  <2> DEFINE whence == "END"
             goal == Target(s, dir, o, whence)
  <2>1. whence \in {"SET", "END", "CUR"} /\ whence # "CUR" /\ o \in Int
        /\ goal = o + Len(Outcome(s)) /\ Seeks(o, whence)
    BY <1>6 DEF Target
  <2>2. goal \in Int /\ goal <= Len(Outcome(s))
    BY <1>3, <1>6, <2>1
  <2>3. goal < 0 => ~(s.eof /\ (s.mode.write \/ ~Buffered(s)))
    <3>1. Wary \/ goal >= 0
      BY <1>6, <2>1, OutcomeView
    <3> QED
      BY <1>4, <2>2, <3>1
  <2>4. goal = Target(s, dir, o, whence)
    OBVIOUS
  <2> HIDE DEF whence, goal
  <2> QED
    BY <1>1, <1>2, <2>1, <2>2, <2>3, <2>4, SeeksStep
<1>7. ASSUME NEW o \in {-1, 0, 1}, Wary, Inside(o + Where(s)), ~s.pushed,
             ~(s.mode.append /\ dir \in {"out", "sync"}), Seeks(o, "CUR")
      PROVE  RefInv' /\ Abstract!BNext
  <2> DEFINE whence == "CUR"
             goal == Target(s, dir, o, whence)
  <2>1. whence \in {"SET", "END", "CUR"} /\ o \in Int
        /\ goal = o + PlaceOf(s, dir) /\ Seeks(o, whence)
    BY <1>7 DEF Target
  <2>2. ~(s.eof /\ (s.mode.write \/ ~Buffered(s)))
    BY <1>4, <1>7
  <2>3. goal \in Int /\ (s.mode.write => goal <= Len(Outcome(s)))
    <3>1. Where(s) \in Int
      <4>1. Where(s) = Goal(s) + s.bufp
        BY <1>7 DEF Where, Goal
      <4>2. Goal(s) \in Nat /\ s.bufp \in Nat
        BY <1>1, StreamAssumption DEF Typed, Goal
      <4> QED
        BY <4>1, <4>2
    <3>2. s.mode.write => PlaceOf(s, dir) = Where(s)
      BY <1>7, <2>2 DEF PlaceOf
    <3>3. PlaceOf(s, dir) \in Int
      <4>1. s.kpos \in Nat
        BY <1>1 DEF Typed
      <4> QED
        BY <1>7, <3>1, <4>1 DEF PlaceOf
    <3> QED
      BY <1>3, <1>7, <2>1, <3>1, <3>2, <3>3
  <2>4. goal = Target(s, dir, o, whence) /\ ~s.pushed
        /\ ~(s.mode.append /\ dir \in {"out", "sync"})
    BY <1>7
  <2> HIDE DEF whence, goal
  <2> QED
    BY <1>1, <1>2, <2>1, <2>2, <2>3, <2>4, SeeksStep
<1> QED
  BY <1>5, <1>6, <1>7 DEF CFseek

\* The end of file, and an error, are forgotten.
LEMMA ClearSame ==
  ASSUME NEW g, NEW d, Typed(g), ~g.error, ~g.eof, NEW f, f = Clearerr(g)
  PROVE  /\ Typed(f) /\ f.file = g.file /\ f.mode = g.mode /\ ~f.error
         /\ Outcome(f) = Outcome(g) /\ Back(f) = Back(g) /\ PlaceOf(f, d) = PlaceOf(g, d)
         /\ Honest(g, d) => Honest(f, d)
<1>1. f = g
  BY DEF Clearerr, Typed
<1> QED
  BY <1>1

LEMMA RewindStep ==
  ASSUME Careful, RefInv, CRewind
  PROVE  RefInv' /\ Abstract!BNext
<1> DEFINE a == Clearerr(s)
           c == [op |-> "fseek", offset |-> 0, whence |-> "SET"]
           r == 0
           o == 0
           whence == "SET"
           d == "none"
           f == Clearerr(Fseek(a, o, whence))
<1>1. open /\ Returns(c, f, r, d) /\ ~s.error /\ dir # "out"
  BY DEF CRewind
<1>2. StreamInv /\ Sound(s, dir) /\ Typed(s) /\ Honest(s, dir)
  BY <1>1, SoundFile DEF RefInv, StreamInv
<1>3. StreamInv'
  BY RewindKeeps DEF RefInv
<1>4. c.op = "fseek" /\ c.offset = 0 /\ c.whence = "SET"
  OBVIOUS
<1>5. Sound(a, dir) /\ a.mode = s.mode /\ ~a.error /\ ~a.eof /\ a.file = s.file
  BY <1>1, <1>2, ClearerrDoes
<1>6. /\ a.kpos = s.kpos /\ a.buf = s.buf /\ a.bufp = s.bufp /\ a.seen = s.seen
      /\ a.getl = s.getl /\ a.putl = s.putl /\ a.target = s.target
      /\ a.pushed = s.pushed /\ a.pushbufp = s.pushbufp /\ a.pushc = s.pushc
      /\ a.active = s.active
  BY <1>2 DEF Clearerr, Typed
<1> HIDE DEF a
<1>7. Outcome(a) = Outcome(s)
  BY <1>1, <1>5, <1>6 DEF Outcome, Goal, Slice
<1>8. Near(a, dir)
  BY <1>1, <1>2, <1>5, <1>6 DEF Honest, Near, Match, Touched
<1>9. Len(Outcome(a)) \in Nat
  <2>1. Safe(a)
    BY <1>5 DEF Sound, Stuck, Reads, Writes
  <2>2. PICK n : n = IF a.pushed THEN a.pushbufp ELSE a.bufp
    OBVIOUS
  <2> QED
    BY <2>1, <2>2, OutcomeLength
<1>10. PICK goal : goal = Target(a, dir, o, whence)
  OBVIOUS
<1>11. goal = 0
  BY <1>10 DEF Target
<1>12. /\ o \in Int /\ o \in Nat /\ whence \in {"SET", "END", "CUR"} /\ whence = "SET"
       /\ a.mode.write => goal <= Len(Outcome(a))
       /\ ~(goal < 0) /\ whence # "CUR" /\ o <= Len(Outcome(a))
  BY <1>9, <1>11
<1>13. PICK g : g = Fseek(a, o, whence)
  OBVIOUS
<1>14. f = Clearerr(g)
  BY <1>13
<1> HIDE DEF f, o, whence
<1>15. IsSought(g, a, dir, goal)
  BY <1>5, <1>8, <1>10, <1>12, <1>13, SeekIs
<1>16. g.ret = 0
  BY <1>1, <1>5, <1>12, <1>13, FseekDoes
<1>17. /\ Typed(g) /\ g.mode = s.mode /\ ~g.error /\ g.file = Outcome(s)
       /\ Outcome(g) = g.file /\ Back(g) = <<>>
       /\ ~g.eof /\ Honest(g, "none") /\ PlaceOf(g, "none") = goal
  BY <1>5, <1>7, <1>11, <1>15, <1>16, StreamAssumption DEF IsSought
<1>18. /\ Typed(f) /\ f.file = g.file /\ f.mode = g.mode /\ ~f.error
       /\ Outcome(f) = Outcome(g) /\ Back(f) = Back(g) /\ PlaceOf(f, d) = PlaceOf(g, d)
       /\ Honest(f, d)
  BY <1>14, <1>17, ClearSame
<1>19. /\ PlaceOf(f, d) = goal /\ Outcome(f) = Outcome(s) /\ f.file = Outcome(s)
       /\ Back(f) = <<>> /\ f.mode = s.mode
  BY <1>17, <1>18
<1>20. r = 0
  OBVIOUS
<1> HIDE DEF c, r, d
<1>21. /\ RefInv' /\ call' = c /\ out' = r
       /\ s'.file = f.file /\ s'.mode = f.mode /\ s'.error = f.error
       /\ Back(s') = Back(f) /\ Outcome(s') = Outcome(f)
       /\ PlaceOf(s', dir') = PlaceOf(f, d)
  BY <1>1, <1>3, <1>18, StepLeaves
<1>22. goal = Target(s, dir, call'.offset, call'.whence)
  BY <1>4, <1>11, <1>21 DEF Target
<1>23. ~(goal < 0)
  BY <1>11
<1>24. Abstract!BNext
  BY <1>1, <1>4, <1>11, <1>18, <1>19, <1>20, <1>21, <1>22, <1>23, AsSeek
<1> QED
  BY <1>21, <1>24

-----------------------------------------------------------------------------
(* The refinement. *)

LEMMA RefInit ==
  ASSUME Init
  PROVE  RefInv /\ Abstract!BInit
<1>1. StreamInv /\ ~open
  BY StreamInit DEF Init
<1>2. s = Fresh(<<>>, NoMode) /\ dir = "none"
  BY DEF Init
<1>3. Modest(NoMode)
  BY DEF Modest, NoMode
<1>4. PICK file, m : file = <<>> /\ m = NoMode
  OBVIOUS
<1>5. /\ Outcome(s) = file /\ PlaceOf(s, "none") = 0 /\ Back(s) = <<>>
  BY <1>2, <1>3, <1>4, FreshIs
<1>6. s.file = <<>> /\ ~s.error
  BY <1>2 DEF Fresh
<1>7. View = s.file /\ Place = 0 /\ Back(s) = <<>>
  BY <1>2, <1>4, <1>5, <1>6, ViewIs
<1>8. Abstract!BInit
  BY <1>6, <1>7 DEF Abstract!BInit, Back
<1> QED
  BY <1>1, <1>8 DEF RefInv

\* A step that changes nothing.
LEMMA RefStutter ==
  ASSUME RefInv, UNCHANGED vars
  PROVE  RefInv' /\ UNCHANGED Abstract!bvars
<1>1. s' = s /\ open' = open /\ dir' = dir /\ call' = call /\ out' = out
  BY DEF vars
<1>2. StreamInv'
  BY <1>1 DEF RefInv, StreamInv
<1>3. RefInv'
  BY <1>1, <1>2 DEF RefInv
<1>4. View' = View /\ Place' = Place
  BY <1>1, ViewIs, ViewNext
<1>5. UNCHANGED Abstract!bvars
  BY <1>1, <1>4 DEF Abstract!bvars
<1> QED
  BY <1>3, <1>5

LEMMA RefNext ==
  ASSUME Careful, \A m \in Modes : Modest(m), RefInv, Next
  PROVE  RefInv' /\ Abstract!BNext
<1>1. CASE CGetc
  BY <1>1, GetcStep
<1>2. CASE CFread
  BY <1>2, FreadStep
<1>3. CASE CPutc
  BY <1>3, PutcStep
<1>4. CASE CFwrite
  BY <1>4, FwriteStep
<1>5. CASE CUngetc
  BY <1>5, UngetcStep
<1>6. CASE CFflush
  BY <1>6, FflushStep
<1>7. CASE CFseek
  BY <1>7, FseekStep
<1>8. CASE CFtell
  BY <1>8, FtellStep
<1>9. CASE CClearerr
  BY <1>9, ClearerrStep
<1>10. CASE CRewind
  BY <1>10, RewindStep
<1>11. CASE CFclose
  BY <1>11, FcloseStep
<1>12. CASE CExit
  BY <1>12, ExitStep
<1>13. CASE CFopen
  BY <1>13, FopenStep
<1> QED
  BY <1>1, <1>2, <1>3, <1>4, <1>5, <1>6, <1>7, <1>8, <1>9, <1>10, <1>11, <1>12, <1>13
     DEF Next

\* To a careful program a stream is a file with one position: what getc and fread
\* return is the file at the position with the output still in the buffer laid
\* over it, putc and fwrite change what is there and no other byte, fseek, ftell
\* and ungetc agree on the position, fflush and fclose leave it all on the disk, and
\* a call that could not says so.
THEOREM StreamImplementsByteFile ==
  Careful /\ (\A m \in Modes : Modest(m)) => (Spec => ImplementsByteFile)
<1> SUFFICES ASSUME Careful, \A m \in Modes : Modest(m)
             PROVE  Spec => ImplementsByteFile
  OBVIOUS
<1>1. Init => RefInv /\ Abstract!BInit
  BY RefInit
<1>2. RefInv /\ [Next]_vars => RefInv' /\ [Abstract!BNext]_(Abstract!bvars)
  <2>1. SUFFICES ASSUME RefInv, [Next]_vars
                 PROVE  RefInv' /\ [Abstract!BNext]_(Abstract!bvars)
    OBVIOUS
  <2>2. CASE Next
    BY <2>1, <2>2, RefNext
  <2>3. CASE UNCHANGED vars
    BY <2>1, <2>3, RefStutter
  <2> QED
    BY <2>1, <2>2, <2>3
<1> QED
  BY <1>1, <1>2, PTL DEF Spec, ImplementsByteFile, Abstract!BSpec
=============================================================================
