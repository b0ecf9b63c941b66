---------------------------- MODULE StreamProofs ----------------------------
(***************************************************************************)
(* Proofs about Stream, for any characters, files, modes and sizes of the  *)
(* buffer, and any numbers of calls: as long as the program is Careful, no *)
(* byte that malloc left in a buffer reaches the file, and feof is true    *)
(* only at the end of the file.                                            *)
(*                                                                         *)
(* A call is a composition of operators on one record, the stream.  There  *)
(* is a lemma for each operator that says what it makes of a stream in one *)
(* of the states between calls (Sound), bottom up: copies in and out of    *)
(* the buffer, one system call, __flshfp, __fillbf, then the calls.        *)
(***************************************************************************)
EXTENDS Stream, SequenceTheorems, WellFoundedInduction, TLAPS

-----------------------------------------------------------------------------
(* What holds of a stream.                                                 *)

\* What a file may hold.
Byte == Char \cup {Zero}

\* The fields of a stream; the value returned may be anything.
Typed(f) ==
  /\ f \in [file : Seq(Byte), kpos : Nat, buf : [0 .. BufSize - 1 -> Byte \cup {Junk}],
            bufp : 0 .. BufSize, getl : 0 .. BufSize, putl : {0, BufSize},
            target : Nat \cup {-1}, offset : Nat \cup {-1},
            pushed : BOOLEAN, pushbufp : 0 .. BufSize, pushc : Byte,
            eof : BOOLEAN, error : BOOLEAN, active : BOOLEAN, seen : BOOLEAN,
            mode : [read : BOOLEAN, write : BOOLEAN, append : BOOLEAN,
                    truncate : BOOLEAN, buffering : {"full", "line", "none"}],
            ret : {f.ret}]
  /\ Len(f.file) <= MaxFile

\* A stream without a buffer uses none, one that cannot write never does.
Shape(f) ==
  /\ Typed(f)
  /\ ~Buffered(f) => f.bufp = 0 /\ f.getl = 0 /\ f.putl = 0 /\ f.pushbufp = 0
  /\ f.active => Linebuf(f)
  /\ ~f.mode.write => ~f.active /\ f.putl = 0

\* Nothing below the limits of the buffer is what malloc left there.
Clean(f) ==
  \A i \in 0 .. BufSize - 1 :
    i < f.bufp \/ i < f.getl \/ (f.pushed /\ i < f.pushbufp) => f.buf[i] \in Byte

\* What the library knows of the positions: the kernel is at or after the end
\* of what the buffer holds of the file.
Known(f) ==
  /\ f.target = -1 <=> f.offset = -1
  /\ f.target = -1 => f.getl = 0
  /\ f.target # -1 => f.target + f.getl <= f.offset /\ f.offset <= f.kpos
  /\ f.target # -1 /\ ~f.mode.append => f.offset = f.kpos
  /\ f.target # -1 /\ ~f.mode.write => f.offset = f.target + f.getl
  /\ f.mode.write => f.kpos <= Len(f.file)

Safe(f) ==
  /\ Shape(f) /\ ~f.error
  /\ f.mode.write => Clean(f)
  /\ Buffered(f) => Known(f)

\* After a write failed the disk is full where the next one would go.
Stuck(f) ==
  /\ Shape(f) /\ f.error /\ f.mode.write /\ ~f.pushed /\ ~f.eof /\ f.getl <= f.bufp
  /\ Buffered(f) /\ f.mode.append => Len(f.file) = MaxFile
  /\ Buffered(f) /\ ~f.mode.append =>
       /\ f.target # -1 /\ MaxFile <= f.kpos
       /\ f.offset # f.target => MaxFile <= f.target
       /\ f.getl > 0 => MaxFile <= f.target + f.getl

-----------------------------------------------------------------------------
(* Writing.                                                                *)

LEMMA LeastMost ==
  \A a, b \in Int :
    /\ Least(a, b) \in Int /\ Least(a, b) <= a /\ Least(a, b) <= b
    /\ Least(a, b) \in {a, b}
    /\ Most(a, b) \in Int /\ Most(a, b) >= a /\ Most(a, b) >= b
    /\ Most(a, b) \in {a, b}
  BY DEF Least, Most

LEMMA FileofTyped ==
  ASSUME NEW file \in Seq(Byte), NEW at \in Nat, NEW d \in Seq(Byte)
  PROVE  /\ Fileof(file, at, d) \in Seq(Byte)
         /\ d = <<>> => Fileof(file, at, d) = file
         /\ d # <<>> => Len(Fileof(file, at, d)) = Most(Len(file), at + Len(d))
<1>1. CASE d = <<>>
  BY <1>1 DEF Fileof
<1>2. CASE d # <<>>
  <2> DEFINE n == Most(Len(file), at + Len(d))
  <2>1. n \in Nat /\ n >= Len(file)
    <3>1. Len(file) \in Int /\ at + Len(d) \in Int /\ Len(file) \in Nat
      OBVIOUS
    <3> QED
      BY <3>1 DEF Most
  <2> HIDE DEF n
  <2>2. Fileof(file, at, d) = [i \in 1 .. n |->
           IF i > at /\ i <= at + Len(d) THEN d[i - at]
           ELSE IF i <= Len(file) THEN file[i] ELSE Zero]
    BY <1>2 DEF Fileof, n
  <2>3. \A i \in 1 .. n : (IF i > at /\ i <= at + Len(d) THEN d[i - at]
           ELSE IF i <= Len(file) THEN file[i] ELSE Zero) \in Byte
    BY <2>1 DEF Byte
  <2>4. Fileof(file, at, d) \in Seq(Byte) /\ Len(Fileof(file, at, d)) = n
    BY <2>1, <2>2, <2>3
  <2> QED
    BY <1>2, <2>4 DEF n
<1> QED
  BY <1>1, <1>2

\* Where a write goes.
At(f) == IF f.mode.append THEN Len(f.file) ELSE f.kpos

LEMMA SysWriteDoes ==
  ASSUME NEW f, Typed(f), NEW d \in Seq(Byte)
  PROVE  /\ Typed(SysWrite(f, d))
         /\ SysWrite(f, d) = [f EXCEPT !.file = SysWrite(f, d).file,
                                       !.kpos = SysWrite(f, d).kpos,
                                       !.ret = SysWrite(f, d).ret]
         /\ SysWrite(f, d).ret \in {-1, Len(d)}
         /\ Len(f.file) <= Len(SysWrite(f, d).file)
         /\ d = <<>> => SysWrite(f, d).ret = 0
         /\ SysWrite(f, d).ret = Len(d) /\ d # <<>> =>
              /\ SysWrite(f, d).kpos = At(f) + Len(d)
              /\ At(f) + Len(d) <= Len(SysWrite(f, d).file)
         /\ SysWrite(f, d).ret = -1 =>
              /\ At(f) + Len(d) > MaxFile
              /\ f.mode.append => Len(SysWrite(f, d).file) = MaxFile
              /\ ~f.mode.append => MaxFile <= SysWrite(f, d).kpos
         /\ f.kpos <= Len(f.file) =>
              SysWrite(f, d).kpos <= Len(SysWrite(f, d).file)
         /\ MaxFile <= At(f) => SysWrite(f, d).file = f.file
                                /\ SysWrite(f, d).kpos = f.kpos
<1> DEFINE at   == At(f)
           fits == Least(Len(d), Most(0, MaxFile - at))
           new  == Fileof(f.file, at, SubSeq(d, 1, fits))
           r    == IF fits = Len(d) THEN fits ELSE -1
           g    == SysWrite(f, d)
<1>1. at \in Nat /\ f.file \in Seq(Byte) /\ Len(f.file) \in Nat /\ Len(d) \in Nat
      /\ MaxFile \in Nat /\ f.kpos \in Nat /\ Len(f.file) <= MaxFile
  BY StreamAssumption DEF At, Typed
<1>2. fits \in Nat /\ fits <= Len(d) /\ (fits = Len(d) \/ fits = Most(0, MaxFile - at))
      /\ fits <= Most(0, MaxFile - at)
  <2>1. MaxFile - at \in Int /\ Most(0, MaxFile - at) \in Nat
    BY <1>1 DEF Most
  <2> QED
    BY <1>1, <2>1 DEF Least
<1>3. /\ MaxFile <= at => Most(0, MaxFile - at) = 0
      /\ MaxFile > at => Most(0, MaxFile - at) = MaxFile - at
  BY <1>1 DEF Most
<1>4. SubSeq(d, 1, fits) \in Seq(Byte) /\ Len(SubSeq(d, 1, fits)) = fits
  BY <1>1, <1>2
<1>5. g = IF fits = 0 THEN [f EXCEPT !.ret = r]
          ELSE [f EXCEPT !.file = new, !.kpos = at + fits, !.ret = r]
  <2>1. CASE fits = 0
    BY <2>1 DEF SysWrite, At
  <2>2. CASE fits # 0
    BY <2>2 DEF SysWrite, At
  <2> QED
    BY <2>1, <2>2
<1> HIDE DEF fits, g, r
<1>6. fits # 0 => /\ new \in Seq(Byte) /\ Len(new) >= Len(f.file)
                  /\ Len(new) >= at + fits /\ Len(new) <= MaxFile
                  /\ Len(new) \in {Len(f.file), at + fits}
  <2>1. HAVE fits # 0
  <2>2. new \in Seq(Byte)
    BY <1>1, <1>4, FileofTyped
  <2>3. SubSeq(d, 1, fits) # <<>>
    BY <1>4, <2>1
  <2>4. Len(new) = Most(Len(f.file), at + fits)
    <3> HIDE DEF at
    <3>1. Len(new) = Most(Len(f.file), at + Len(SubSeq(d, 1, fits)))
      BY <1>1, <1>4, <2>3, FileofTyped
    <3> QED
      BY <3>1, <1>4
  <2>5. at + fits <= MaxFile
    BY <1>1, <1>2, <1>3, <2>1
  <2> HIDE DEF new, at
  <2>6. at + fits \in Int /\ Len(f.file) \in Int
    BY <1>1, <1>2
  <2> QED
    BY <1>1, <1>2, <2>2, <2>4, <2>5, <2>6, LeastMost, ZenonT(60)
<1> HIDE DEF new, at
<1>7. CASE fits = 0
  <2>1. g = [f EXCEPT !.ret = r]
    BY <1>5, <1>7
  <2>2. Typed(g) /\ g.file = f.file /\ g.kpos = f.kpos /\ g.ret = r
    BY <2>1 DEF Typed
  <2>3. g = [f EXCEPT !.file = g.file, !.kpos = g.kpos, !.ret = g.ret]
    BY <2>1, <2>2 DEF Typed
  <2>4. Len(d) # 0 => r = -1 /\ MaxFile <= at
    BY <1>1, <1>2, <1>3, <1>7 DEF r
  <2>5. Len(d) = 0 => r = 0 /\ d = <<>>
    BY <1>1, <1>7 DEF r
  <2>6. MaxFile <= at => /\ f.mode.append => Len(f.file) = MaxFile
                         /\ ~f.mode.append => MaxFile <= f.kpos
    BY <1>1 DEF at, At
  <2> QED
    BY <1>1, <2>2, <2>3, <2>4, <2>5, <2>6 DEF g, at
<1>8. CASE fits # 0
  <2>1. g = [f EXCEPT !.file = new, !.kpos = at + fits, !.ret = r]
    BY <1>5, <1>8
  <2>2. g.file = new /\ g.kpos = at + fits /\ g.ret = r
    BY <2>1 DEF Typed
  <2>3. Typed(g)
    <3>1. at + fits \in Nat /\ new \in Seq(Byte) /\ Len(new) <= MaxFile
      BY <1>1, <1>2, <1>6, <1>8
    <3> QED
      BY <2>1, <3>1 DEF Typed
  <2>4. g = [f EXCEPT !.file = g.file, !.kpos = g.kpos, !.ret = g.ret]
    BY <2>1, <2>2
  <2>5. r \in {-1, Len(d)} /\ (r = Len(d) => fits = Len(d))
        /\ (r = -1 => fits # Len(d))
    BY <1>1, <1>2 DEF r
  <2>6. ~(MaxFile <= at) /\ d # <<>>
    BY <1>1, <1>2, <1>3, <1>8
  <2>7. r = -1 => fits = MaxFile - at /\ at + Len(d) > MaxFile
    BY <1>1, <1>2, <1>3, <2>5, <2>6
  <2>8. f.mode.append => at = Len(f.file)
    BY DEF at, At
  <2> QED
    BY <1>1, <1>2, <1>6, <1>8, <2>2, <2>3, <2>4, <2>5, <2>6, <2>7, <2>8 DEF g, at
<1> QED
  BY <1>7, <1>8

\* g is f after Put(f, c).
IsPut(g, f, c) ==
  /\ Typed(g) /\ g.bufp = f.bufp + 1
  /\ g = [f EXCEPT !.buf = g.buf, !.bufp = f.bufp + 1, !.ret = c]
  /\ g.buf[f.bufp] = c
  /\ \A i \in 0 .. BufSize - 1 : i # f.bufp => g.buf[i] = f.buf[i]

LEMMA PutDoes ==
  ASSUME NEW f, Typed(f), NEW c \in Char, f.bufp < BufSize
  PROVE  IsPut(Put(f, c), f, c)
<1> DEFINE b == [f.buf EXCEPT ![f.bufp] = c]
<1>1. b \in [0 .. BufSize - 1 -> Byte \cup {Junk}]
  BY StreamAssumption DEF Typed, Byte
<1>2. Put(f, c) = [f EXCEPT !.buf = b, !.bufp = f.bufp + 1, !.ret = c]
  BY DEF Put
<1>3. b[f.bufp] = c /\ \A i \in 0 .. BufSize - 1 : i # f.bufp => b[i] = f.buf[i]
  BY StreamAssumption DEF Typed
<1> HIDE DEF b
<1>4. f.bufp + 1 \in 0 .. BufSize
  BY StreamAssumption DEF Typed
<1>5. Typed(Put(f, c)) /\ Put(f, c).buf = b
  BY <1>1, <1>2, <1>4 DEF Typed
<1>6. Put(f, c).bufp = f.bufp + 1
  BY <1>2 DEF Typed
<1> QED
  BY <1>2, <1>3, <1>5, <1>6 DEF IsPut

\* On a disk that is full where it goes a write does nothing.
LEMMA SysWriteFull ==
  ASSUME NEW f, Typed(f), MaxFile <= At(f), NEW S, NEW d \in Seq(S), d # <<>>
  PROVE  SysWrite(f, d) = [f EXCEPT !.ret = -1]
<1> DEFINE at   == At(f)
           fits == Least(Len(d), Most(0, MaxFile - at))
<1>1. at \in Nat /\ Len(d) \in Nat /\ Len(d) # 0 /\ MaxFile \in Nat
  BY StreamAssumption DEF At, Typed
<1>2. fits = 0
  BY <1>1 DEF Least, Most
<1> QED
  BY <1>1, <1>2 DEF SysWrite, At

LEMMA SliceTyped ==
  ASSUME NEW f, Typed(f), NEW n \in 0 .. BufSize
  PROVE  /\ Slice(f, 0, n) \in Seq(Byte \cup {Junk}) /\ Len(Slice(f, 0, n)) = n
         /\ (\A i \in 0 .. BufSize - 1 : i < n => f.buf[i] \in Byte)
              => Slice(f, 0, n) \in Seq(Byte)
<1>1. n \in Nat /\ n - 0 = n /\ BufSize \in Nat
  BY StreamAssumption
<1>2. \A k \in 1 .. n : 0 + k - 1 = k - 1 /\ k - 1 \in 0 .. BufSize - 1 /\ k - 1 < n
  BY <1>1
<1>3. Slice(f, 0, n) = [k \in 1 .. n |-> f.buf[k - 1]]
  BY <1>1, <1>2 DEF Slice
<1>4. \A k \in 1 .. n : f.buf[k - 1] \in Byte \cup {Junk}
  BY <1>2 DEF Typed
<1> QED
  BY <1>1, <1>2, <1>3, <1>4

LEMMA CheckDoes ==
  ASSUME NEW f, Typed(f)
  PROVE  LET o == IF f.offset = -1 THEN f.kpos ELSE f.offset
             t == IF f.target = -1 THEN o ELSE f.target
         IN /\ CheckOffset(f) = [f EXCEPT !.offset = o, !.target = t, !.seen = TRUE]
            /\ o \in Nat /\ t \in Nat /\ Typed(CheckOffset(f))
  BY StreamAssumption, ZenonT(60) DEF CheckOffset, Typed

LEMMA SeekToTargetDoes ==
  ASSUME NEW f, Typed(f)
  PROVE  LET o == IF f.offset = -1 THEN f.kpos ELSE f.offset
             t == IF f.target = -1 THEN o ELSE f.target
             k == IF o = t THEN f.kpos ELSE t
         IN /\ SeekToTarget(f) = [f EXCEPT !.offset = t, !.target = t, !.seen = TRUE,
                                           !.kpos = k]
            /\ t \in Nat /\ k \in Nat /\ Typed(SeekToTarget(f))
<1> DEFINE o == IF f.offset = -1 THEN f.kpos ELSE f.offset
           t == IF f.target = -1 THEN o ELSE f.target
           k == IF o = t THEN f.kpos ELSE t
           c == CheckOffset(f)
<1>1. /\ c = [f EXCEPT !.offset = o, !.target = t, !.seen = TRUE]
      /\ o \in Nat /\ t \in Nat /\ Typed(c)
  BY CheckDoes
<1>2. k \in Nat
  BY <1>1 DEF Typed
<1> HIDE DEF c, o, t, k
<1>3. c.offset = o /\ c.target = t /\ c.kpos = f.kpos
  BY <1>1 DEF Typed
<1>4. SeekToTarget(f) = [c EXCEPT !.kpos = k, !.offset = t]
  BY <1>3 DEF SeekToTarget, c, k
<1>5. SeekToTarget(f) = [f EXCEPT !.offset = t, !.target = t, !.seen = TRUE, !.kpos = k]
  BY <1>1, <1>4 DEF Typed
<1>6. Typed(SeekToTarget(f))
  <2> DEFINE g == SeekToTarget(f)
  <2> HIDE DEF g
  <2>1. g = [c EXCEPT !.kpos = k, !.offset = t]
    BY <1>4 DEF g
  <2>2. g.file = c.file
    BY <1>1, <2>1 DEF Typed
  <2>3. Typed(g)
    BY <1>1, <1>2, <2>1, <2>2, ZenonT(60) DEF Typed
  <2> QED
    BY <2>3 DEF g
<1> QED
  BY <1>1, <1>2, <1>5, <1>6 DEF o, t, k

\* What a write of the buffer leaves alone.
SameBuffer(g, f) ==
  /\ g.mode = f.mode /\ g.buf = f.buf /\ g.getl = f.getl /\ g.putl = f.putl
  /\ g.pushed = f.pushed /\ g.pushbufp = f.pushbufp /\ g.active = f.active
  /\ g.eof = f.eof

\* The position the next write or read of the buffer goes to.
Goal(f) == IF f.target = -1 THEN f.kpos ELSE f.target

LEMMA ToWriteDoes ==
  ASSUME NEW f, Typed(f)
  PROVE  /\ ToWrite(f) \in 0 .. BufSize /\ (ToWrite(f) = 0 <=> f.bufp = 0)
         /\ f.bufp > 0 => ToWrite(f) >= f.bufp /\ ToWrite(f) >= f.getl
                          /\ ToWrite(f) \in {f.bufp, f.getl}
  BY StreamAssumption DEF ToWrite, Most, Typed

\* Writing the buffer: nothing, when it is empty ...
LEMMA WriteDataNone ==
  ASSUME NEW f, Typed(f), f.bufp = 0
  PROVE  WriteData(f, Slice(f, 0, ToWrite(f))) = f
<1>1. ToWrite(f) = 0
  BY ToWriteDoes
<1>2. Slice(f, 0, 0) = <<>>
  <2>1. Slice(f, 0, 0) \in Seq(Byte \cup {Junk}) /\ Len(Slice(f, 0, 0)) = 0
    BY SliceTyped, StreamAssumption
  <2> QED
    BY <2>1
<1>3. [f EXCEPT !.bufp = 0] = f
  BY DEF Typed
<1> QED
  BY <1>1, <1>2, <1>3 DEF WriteData

\* ... or all of it, or as much as the disk has room for.
LEMMA WriteDataDoes ==
  ASSUME NEW f, Safe(f), f.mode.write, Buffered(f), ~f.pushed, f.bufp > 0,
         NEW w, w = WriteData(f, Slice(f, 0, ToWrite(f)))
  PROVE  /\ Typed(w) /\ SameBuffer(w, f) /\ w.bufp = 0
         /\ Len(f.file) <= Len(w.file) /\ w.kpos <= Len(w.file)
         /\ ~w.error /\ f.mode.append => /\ w.target = -1 /\ w.offset = -1
                                         /\ Len(f.file) + f.bufp <= Len(w.file)
         /\ ~w.error /\ ~f.mode.append =>
              /\ w.target = Goal(f) /\ w.offset = Goal(f) + ToWrite(f)
              /\ w.offset = w.kpos
         /\ w.error /\ f.mode.append => Len(w.file) = MaxFile
         /\ w.error /\ ~f.mode.append =>
              /\ w.target = Goal(f) /\ w.offset = Goal(f) /\ MaxFile <= w.kpos
              /\ Goal(f) + ToWrite(f) > MaxFile
<1> DEFINE n == ToWrite(f)
           d == Slice(f, 0, n)
           p == IF f.mode.append THEN f ELSE SeekToTarget(f)
           r == SysWrite(p, d)
<1>0. Typed(f) /\ Clean(f) /\ Known(f)
  BY DEF Safe, Shape
<1>1. n \in 1 .. BufSize /\ f.bufp <= n /\ n \in {f.bufp, f.getl}
  BY <1>0, ToWriteDoes, StreamAssumption
<1>2. d \in Seq(Byte) /\ Len(d) = n
  <2>1. \A i \in 0 .. BufSize - 1 : i < n => f.buf[i] \in Byte
    BY <1>0, <1>1 DEF Clean, Typed
  <2> HIDE DEF n
  <2> QED
    BY <1>0, <1>1, <2>1, SliceTyped
<1>3. d # <<>>
  BY <1>1, <1>2
<1> HIDE DEF n, d
<1>4. /\ Typed(p) /\ SameBuffer(p, f) /\ p.file = f.file /\ p.bufp = f.bufp
      /\ p.error = FALSE /\ p.kpos <= Len(p.file)
      /\ f.mode.append => p = f
      /\ ~f.mode.append => /\ p.target = Goal(f) /\ p.offset = Goal(f)
                           /\ p.kpos = Goal(f)
  <2>1. CASE f.mode.append
    BY <1>0, <2>1 DEF SameBuffer, Known, Safe, Typed
  <2>2. CASE ~f.mode.append
    <3> DEFINE o == IF f.offset = -1 THEN f.kpos ELSE f.offset
               t == IF f.target = -1 THEN o ELSE f.target
               k == IF o = t THEN f.kpos ELSE t
    <3>1. /\ p = [f EXCEPT !.offset = t, !.target = t, !.seen = TRUE, !.kpos = k]
          /\ t \in Nat /\ k \in Nat /\ Typed(p)
      BY <1>0, <2>2, SeekToTargetDoes
    <3>2. t = Goal(f) /\ k = t
      BY <1>0, <2>2 DEF Goal, Known, Typed
    <3>3. t <= Len(f.file)
      <4>1. Len(f.file) \in Nat /\ f.kpos <= Len(f.file) /\ f.kpos \in Nat
        BY <1>0 DEF Known, Typed
      <4> QED
        BY <1>0, <2>2, <4>1 DEF Known, Typed
    <3> HIDE DEF t, k, o
    <3> QED
      BY <1>0, <2>2, <3>1, <3>2, <3>3, ZenonT(60) DEF SameBuffer, Safe, Typed
  <2> QED
    BY <2>1, <2>2
<1> HIDE DEF p
<1>5. /\ Typed(r)
      /\ r = [p EXCEPT !.file = r.file, !.kpos = r.kpos, !.ret = r.ret]
      /\ r.ret \in {-1, n} /\ Len(p.file) <= Len(r.file)
      /\ r.ret = n => r.kpos = At(p) + n /\ At(p) + n <= Len(r.file)
      /\ r.ret = -1 => /\ At(p) + n > MaxFile
                       /\ p.mode.append => Len(r.file) = MaxFile
                       /\ ~p.mode.append => MaxFile <= r.kpos
      /\ r.kpos <= Len(r.file)
  BY <1>2, <1>3, <1>4, SysWriteDoes
<1>6. At(p) = IF f.mode.append THEN Len(f.file) ELSE Goal(f)
  BY <1>4 DEF At, SameBuffer
<1>7. w = Wrote(r, n)
  <2>1. w = IF p.error THEN [p EXCEPT !.bufp = 0] ELSE Wrote(r, n)
    BY <1>2, <1>3 DEF WriteData, n, d, p
  <2> QED
    BY <1>4, <2>1
<1> HIDE DEF r
<1> DEFINE o == IF r.ret <= 0 \/ r.offset = -1 THEN r.offset
                ELSE IF r.mode.append THEN -1 ELSE r.offset + r.ret
           t == IF r.ret > 0 /\ r.mode.append THEN -1 ELSE r.target
           e == r.ret < n
<1>8. w = [r EXCEPT !.offset = o, !.target = t, !.error = e, !.bufp = 0]
  BY <1>7 DEF Wrote
<1>9. r.mode = f.mode /\ r.target = p.target /\ r.offset = p.offset /\ r.error = FALSE
      /\ SameBuffer(r, f)
  <2>1. SameBuffer(r, p) /\ r.target = p.target /\ r.offset = p.offset /\ r.error = p.error
    BY <1>4, <1>5 DEF Typed, SameBuffer
  <2> QED
    BY <1>4, <2>1 DEF SameBuffer
<1>10. r.ret = n => /\ e = FALSE
                    /\ f.mode.append => o = -1 /\ t = -1
                    /\ ~f.mode.append => t = Goal(f) /\ o = Goal(f) + n
  <2>1. HAVE r.ret = n
  <2>2. Goal(f) \in Nat /\ n \in Nat /\ BufSize \in Nat /\ n > 0
    BY <1>0, <1>1, StreamAssumption DEF Goal, Typed
  <2>3. CASE f.mode.append
    BY <1>0, <1>4, <1>9, <2>1, <2>2, <2>3 DEF Known
  <2>4. CASE ~f.mode.append
    BY <1>4, <1>9, <2>1, <2>2, <2>4
  <2> QED
    BY <2>3, <2>4
<1>11. r.ret = -1 => e = TRUE /\ o = p.offset /\ t = p.target
  BY <1>1, <1>9
<1>12. o \in Nat \cup {-1} /\ t \in Nat \cup {-1} /\ e \in BOOLEAN
  <2>1. Goal(f) \in Nat /\ n \in Nat
    BY <1>0, <1>1, StreamAssumption DEF Goal, Typed
  <2>2. p.offset \in Nat \cup {-1} /\ p.target \in Nat \cup {-1}
    BY <1>4 DEF Typed
  <2>3. e \in BOOLEAN
    OBVIOUS
  <2>4. Goal(f) + n \in Nat
    BY <2>1
  <2> HIDE DEF o, t, e
  <2>5. o \in Nat \cup {-1} /\ t \in Nat \cup {-1}
    <3>1. CASE r.ret = n /\ f.mode.append
      BY <1>10, <3>1
    <3>2. CASE r.ret = n /\ ~f.mode.append
      BY <1>10, <2>1, <2>4, <3>2
    <3>3. CASE r.ret = -1
      BY <1>11, <2>2, <3>3
    <3> QED
      BY <1>5, <3>1, <3>2, <3>3
  <2> QED
    BY <2>3, <2>5
<1> HIDE DEF o, t, e
<1>13. /\ Typed(w) /\ SameBuffer(w, r) /\ w.bufp = 0 /\ w.file = r.file
       /\ w.kpos = r.kpos /\ w.offset = o /\ w.target = t /\ w.error = e
  <2>1. w.file = r.file /\ w.bufp = 0 /\ w.kpos = r.kpos /\ w.offset = o /\ w.target = t
        /\ w.error = e
    BY <1>5, <1>8 DEF Typed
  <2>2. SameBuffer(w, r)
    BY <1>5, <1>8 DEF Typed, SameBuffer
  <2>3. 0 \in 0 .. BufSize
    BY StreamAssumption
  <2>4. Typed(w)
    BY <1>5, <1>8, <1>12, <2>1, <2>3, ZenonT(60) DEF Typed
  <2> QED
    BY <2>1, <2>2, <2>4
<1>14. SameBuffer(w, f)
  BY <1>9, <1>13 DEF SameBuffer
<1>15. CASE r.ret = n
  <2>1. f.mode.append => Len(f.file) + f.bufp <= Len(w.file)
    <3>1. Len(f.file) \in Nat /\ f.bufp \in Nat /\ Len(r.file) \in Nat /\ n \in Nat
      BY <1>0, <1>1, <1>5, StreamAssumption, SMTT(30) DEF Typed
    <3> QED
      BY <1>1, <1>5, <1>6, <1>13, <1>15, <3>1
  <2> QED
    BY <1>4, <1>5, <1>6, <1>10, <1>13, <1>14, <1>15, <2>1 DEF n
<1>16. CASE r.ret = -1
  <2>1. p.mode = f.mode
    BY <1>4 DEF SameBuffer
  <2> QED
    BY <1>4, <1>5, <1>6, <1>11, <1>13, <1>14, <1>16, <2>1 DEF n
<1> QED
  BY <1>5, <1>15, <1>16

\* g is f after Settled(f, tw, n).
IsSettled(g, f, tw, n) ==
  /\ Typed(g)
  /\ g = [f EXCEPT !.target = g.target, !.getl = g.getl, !.bufp = g.bufp]
  /\ tw => g.target = f.target /\ g.getl = f.getl
  /\ ~tw => /\ g.target = IF f.target = -1 THEN -1 ELSE f.target + n
            /\ g.getl = 0
  /\ ~f.eof /\ ~f.error => g.bufp = f.bufp
  /\ f.eof \/ f.error => g.bufp = f.putl

LEMMA SettledDoes ==
  ASSUME NEW f, Typed(f), NEW tw \in BOOLEAN, NEW n \in 0 .. BufSize
  PROVE  IsSettled(Settled(f, tw, n), f, tw, n)
<1> DEFINE x == IF f.target = -1 THEN -1 ELSE f.target + n
           t == IF tw THEN f ELSE [f EXCEPT !.target = x, !.getl = 0]
           g == Settled(f, tw, n)
<1>1. x \in Nat \cup {-1} /\ 0 \in 0 .. BufSize
  BY StreamAssumption DEF Typed
<1>2. [f EXCEPT !.target = IF f.target = -1 THEN f.target ELSE f.target + n, !.getl = 0]
        = [f EXCEPT !.target = x, !.getl = 0]
  BY DEF Typed
<1>3. g = IF t.eof \/ t.error THEN [t EXCEPT !.bufp = t.putl] ELSE t
  BY <1>2 DEF Settled
<1> HIDE DEF x
<1>4. /\ Typed(t) /\ t.eof = f.eof /\ t.error = f.error /\ t.putl = f.putl
      /\ t.bufp = f.bufp
      /\ t = [f EXCEPT !.target = t.target, !.getl = t.getl]
      /\ tw => t.target = f.target /\ t.getl = f.getl
      /\ ~tw => t.target = x /\ t.getl = 0
  <2>1. CASE tw
    <3>1. t = f
      BY <2>1
    <3>2. f = [f EXCEPT !.target = f.target, !.getl = f.getl]
      BY DEF Typed
    <3> HIDE DEF t
    <3> QED
      BY <2>1, <3>1, <3>2
  <2>2. CASE ~tw
    BY <1>1, <2>2 DEF Typed
  <2> QED
    BY <2>1, <2>2
<1> HIDE DEF t
<1>5. CASE t.eof \/ t.error
  <2>1. g = [t EXCEPT !.bufp = t.putl]
    BY <1>3, <1>5
  <2>2. t.putl \in 0 .. BufSize
    BY <1>4, StreamAssumption DEF Typed
  <2>3. Typed(g) /\ g.target = t.target /\ g.getl = t.getl /\ g.bufp = f.putl
    BY <1>4, <2>1, <2>2 DEF Typed
  <2>4. g = [f EXCEPT !.target = g.target, !.getl = g.getl, !.bufp = g.bufp]
    BY <1>4, <2>1, <2>3 DEF Typed
  <2> QED
    BY <1>4, <1>5, <2>3, <2>4 DEF g, x, IsSettled
<1>6. CASE ~(t.eof \/ t.error)
  <2>1. g = t
    BY <1>3, <1>6
  <2>4. g = [f EXCEPT !.target = g.target, !.getl = g.getl, !.bufp = g.bufp]
    BY <1>4, <2>1 DEF Typed
  <2> QED
    BY <1>4, <1>6, <2>1, <2>4 DEF g, x, IsSettled
<1> QED
  BY <1>5, <1>6

LEMMA SettledFrame ==
  ASSUME NEW f, Typed(f), NEW g, NEW tw, NEW n, IsSettled(g, f, tw, n)
  PROVE  /\ g.mode = f.mode /\ g.putl = f.putl /\ g.active = f.active
         /\ g.pushed = f.pushed /\ g.eof = f.eof /\ g.error = f.error
         /\ g.file = f.file /\ g.kpos = f.kpos /\ g.offset = f.offset
         /\ g.buf = f.buf /\ g.pushbufp = f.pushbufp
<1>1. g = [f EXCEPT !.target = g.target, !.getl = g.getl, !.bufp = g.bufp]
  BY DEF IsSettled
<1> QED
  BY <1>1 DEF Typed

LEMMA WriteDataStuck ==
  ASSUME NEW f, Stuck(f), Buffered(f), NEW w, w = WriteData(f, Slice(f, 0, ToWrite(f)))
  PROVE  /\ Typed(w) /\ SameBuffer(w, f) /\ w.bufp = 0 /\ w.error /\ w.file = f.file
         /\ f.bufp = 0 \/ f.mode.append => w.target = f.target /\ w.offset = f.offset
                                            /\ w.kpos = f.kpos
         /\ f.bufp # 0 /\ ~f.mode.append => /\ w.target = f.target /\ w.offset = f.target
                                            /\ MaxFile <= w.kpos
<1>0. Typed(f) /\ f.mode.write /\ f.error = TRUE
  BY DEF Stuck, Shape, Typed
<1>1. CASE f.bufp = 0
  <2>1. w = f
    BY <1>0, <1>1, WriteDataNone
  <2> QED
    BY <1>0, <1>1, <2>1 DEF SameBuffer
<1>2. CASE f.bufp # 0
  <2> DEFINE n == ToWrite(f)
             d == Slice(f, 0, n)
             p == IF f.mode.append THEN f ELSE SeekToTarget(f)
  <2>1. n \in 1 .. BufSize
    BY <1>0, <1>2, ToWriteDoes, StreamAssumption
  <2>2. d \in Seq(Byte \cup {Junk}) /\ Len(d) = n
    <3> HIDE DEF n
    <3> QED
      BY <1>0, <2>1, SliceTyped
  <2>3. d # <<>>
    BY <2>1, <2>2
  <2> HIDE DEF n, d
  <2>4. /\ Typed(p) /\ SameBuffer(p, f) /\ p.file = f.file /\ p.error = TRUE
        /\ MaxFile <= At(p)
        /\ f.mode.append => p = f
        /\ ~f.mode.append => /\ p.target = f.target /\ p.offset = f.target
                             /\ MaxFile <= p.kpos
    <3>1. CASE f.mode.append
      <4>1. Len(f.file) = MaxFile
        BY <3>1 DEF Stuck
      <4> QED
        BY <1>0, <3>1, <4>1, StreamAssumption DEF SameBuffer, At
    <3>2. CASE ~f.mode.append
      <4> DEFINE o == IF f.offset = -1 THEN f.kpos ELSE f.offset
                 t == IF f.target = -1 THEN o ELSE f.target
                 k == IF o = t THEN f.kpos ELSE t
      <4>1. /\ p = [f EXCEPT !.offset = t, !.target = t, !.seen = TRUE, !.kpos = k]
            /\ t \in Nat /\ k \in Nat /\ Typed(p)
        BY <1>0, <3>2, SeekToTargetDoes
      <4>2. t = f.target /\ MaxFile <= k
        BY <1>0, <3>2 DEF Stuck, Typed
      <4> HIDE DEF t, k, o
      <4> QED
        BY <1>0, <3>2, <4>1, <4>2, ZenonT(60) DEF SameBuffer, Typed, At
    <3> QED
      BY <3>1, <3>2
  <2> HIDE DEF p
  <2>5. w = [p EXCEPT !.bufp = 0]
    <3>1. w = IF p.error THEN [p EXCEPT !.bufp = 0] ELSE Wrote(SysWrite(p, d), Len(d))
      BY <2>3 DEF WriteData, n, d, p
    <3> QED
      BY <2>4, <3>1
  <2>6. 0 \in 0 .. BufSize
    BY StreamAssumption
  <2>7. w.file = p.file /\ w.bufp = 0 /\ w.kpos = p.kpos /\ w.offset = p.offset
        /\ w.target = p.target /\ w.error = TRUE
    BY <2>4, <2>5 DEF Typed
  <2>8. SameBuffer(w, p)
    BY <2>4, <2>5 DEF Typed, SameBuffer
  <2>9. Typed(w)
    BY <2>4, <2>5, <2>6, <2>7, ZenonT(60) DEF Typed
  <2>10. SameBuffer(w, f)
    BY <2>4, <2>8 DEF SameBuffer
  <2> QED
    BY <1>2, <2>4, <2>7, <2>9, <2>10
<1> QED
  BY <1>1, <1>2

\* A flush of a buffer that is written: what is left is sound, and what was in
\* the buffer is in the file, or else the disk is full.
LEMMA WriteOutDoes ==
  ASSUME NEW f, Safe(f), f.mode.write, Buffered(f), ~f.pushed, ~f.eof,
         f.putl = BufSize, NEW tw \in BOOLEAN,
         tw => ~f.mode.append /\ f.bufp <= f.getl + 1,
         NEW g, g = WriteOut(f, EOF, tw)
  PROVE  /\ Safe(g) \/ Stuck(g)
         /\ g.mode = f.mode /\ g.putl = f.putl /\ g.active = f.active
         /\ ~g.pushed /\ ~g.eof /\ Len(f.file) <= Len(g.file)
         /\ ~tw => g.getl = 0
         /\ g.error => f.bufp > 0 /\ (~f.mode.append => f.bufp > f.getl)
         /\ f.bufp = 0 => /\ g.file = f.file /\ g.kpos = f.kpos
                          /\ g.target = f.target /\ g.offset = f.offset
         /\ ~g.error =>
              /\ g.bufp = 0
              /\ tw => g.getl = f.getl
              /\ f.mode.append => Len(f.file) + f.bufp <= Len(g.file)
              /\ ~f.mode.append /\ f.bufp > 0 => /\ Goal(f) + f.bufp <= Len(g.file)
                                                 /\ Goal(f) + f.getl <= g.offset
              /\ ~f.mode.append /\ ~tw => Goal(g) = Goal(f) + f.bufp
<1> DEFINE w == WriteData(f, Slice(f, 0, ToWrite(f)))
<1>0. Typed(f) /\ Shape(f) /\ Clean(f) /\ Known(f) /\ f.error = FALSE /\ f.eof = FALSE
      /\ f.putl = BufSize /\ BufSize \in Nat \ {0} /\ f.pushed = FALSE
      /\ f.bufp \in 0 .. BufSize
  BY StreamAssumption DEF Safe, Shape, Typed
<1>1. g = Settled(w, tw, f.bufp)
  BY DEF WriteOut, WriteChar
<1>2. /\ Typed(w) /\ SameBuffer(w, f) /\ w.bufp = 0 /\ w.eof = FALSE
      /\ w.bufp \in 0 .. BufSize
  <2>1. CASE f.bufp = 0
    <3>1. w = f
      BY <1>0, <2>1, WriteDataNone
    <3>2. 0 \in 0 .. BufSize
      BY <1>0
    <3> HIDE DEF w
    <3> QED
      BY <1>0, <2>1, <3>1, <3>2 DEF SameBuffer
  <2>2. CASE f.bufp > 0
    <3>1. Typed(w) /\ SameBuffer(w, f) /\ w.bufp = 0
      BY <2>2, WriteDataDoes
    <3>2. 0 \in 0 .. BufSize
      BY <1>0
    <3> HIDE DEF w
    <3> QED
      BY <1>0, <3>1, <3>2 DEF SameBuffer
  <2>3. f.bufp = 0 \/ f.bufp > 0
    BY <1>0
  <2> HIDE DEF w
  <2> QED
    BY <2>1, <2>2, <2>3
<1> HIDE DEF w
<1>3. /\ Typed(g)
      /\ g = [w EXCEPT !.target = g.target, !.getl = g.getl, !.bufp = g.bufp]
      /\ tw => g.target = w.target /\ g.getl = w.getl
      /\ ~tw => /\ g.target = IF w.target = -1 THEN -1 ELSE w.target + f.bufp
                /\ g.getl = 0
      /\ ~w.eof /\ ~w.error => g.bufp = w.bufp
      /\ w.eof \/ w.error => g.bufp = w.putl
  <2>1. Typed(w) /\ f.bufp \in 0 .. BufSize
    BY <1>0, <1>2
  <2>2. IsSettled(g, w, tw, f.bufp)
    BY <1>1, <2>1, SettledDoes
  <2> QED
    BY <2>2 DEF IsSettled
<1>4. /\ g.mode = f.mode /\ g.putl = f.putl /\ g.active = f.active /\ g.pushed = FALSE
      /\ g.eof = FALSE /\ g.error = w.error /\ g.file = w.file /\ g.kpos = w.kpos
      /\ g.offset = w.offset /\ g.buf = f.buf /\ g.pushbufp = f.pushbufp
  <2>1. /\ g.mode = w.mode /\ g.putl = w.putl /\ g.active = w.active
        /\ g.pushed = w.pushed /\ g.eof = w.eof /\ g.error = w.error
        /\ g.file = w.file /\ g.kpos = w.kpos /\ g.offset = w.offset
        /\ g.buf = w.buf /\ g.pushbufp = w.pushbufp
    <3> DEFINE t == g.target
               l == g.getl
               b == g.bufp
    <3>1. g = [w EXCEPT !.target = t, !.getl = l, !.bufp = b]
      BY <1>3
    <3>2. Typed(w)
      BY <1>2
    <3> HIDE DEF t, l, b
    <3> QED
      BY ONLY <3>1, <3>2 DEF Typed
  <2> QED
    BY <1>0, <1>2, <2>1 DEF SameBuffer
<1>5. Shape(g)
  BY <1>0, <1>3, <1>4 DEF Shape, Buffered, Linebuf
<1>6. g.getl \in {0, f.getl} /\ (~tw => g.getl = 0) /\ (tw => g.getl = f.getl)
      /\ f.getl \in 0 .. BufSize /\ f.kpos \in Nat /\ Len(f.file) \in Nat
      /\ Len(f.file) <= MaxFile /\ MaxFile \in Nat
  BY <1>0, <1>2, <1>3, StreamAssumption DEF SameBuffer, Typed
<1>7. g.bufp = 0 => Clean(g)
  BY <1>0, <1>4, <1>6 DEF Clean
<1>8. CASE f.bufp = 0
  <2>1. w = f
    BY <1>0, <1>8, WriteDataNone DEF w
  <2>2. g.bufp = 0 /\ g.error = FALSE /\ g.target = f.target
    BY <1>0, <1>3, <1>4, <1>8, <2>1 DEF Typed
  <2>3. Known(g)
    BY <1>0, <1>4, <1>6, <2>1, <2>2 DEF Known, Typed
  <2>4. Safe(g)
    BY <1>5, <1>7, <2>2, <2>3 DEF Safe
  <2>5. Goal(g) = Goal(f)
    BY <1>4, <2>1, <2>2 DEF Goal
  <2>6. Goal(f) \in Nat
    BY <1>0 DEF Goal, Typed
  <2> HIDE DEF w
  <2> QED
    BY <1>4, <1>6, <1>8, <2>1, <2>2, <2>4, <2>5, <2>6
<1>9. CASE f.bufp > 0 /\ ~w.error
  <2>0. f.bufp > 0 /\ w.error = FALSE
    BY <1>2, <1>9 DEF Typed
  <2>1. /\ Len(f.file) <= Len(w.file) /\ w.kpos <= Len(w.file)
        /\ f.mode.append => /\ w.target = -1 /\ w.offset = -1
                            /\ Len(f.file) + f.bufp <= Len(w.file)
        /\ ~f.mode.append => /\ w.target = Goal(f) /\ w.offset = Goal(f) + ToWrite(f)
                             /\ w.offset = w.kpos
    BY <2>0, WriteDataDoes DEF w
  <2>2. g.bufp = 0 /\ g.error = FALSE
    BY <1>2, <1>3, <1>4, <2>0
  <2>3. /\ ToWrite(f) \in 0 .. BufSize /\ f.bufp <= ToWrite(f) /\ f.getl <= ToWrite(f)
        /\ Goal(f) \in Nat
    BY <1>0, <2>0, ToWriteDoes DEF Goal, Typed
  <2>4. CASE f.mode.append
    <3>1. ~tw /\ g.target = -1 /\ g.getl = 0
      BY <1>3, <2>1, <2>4
    <3>2. Known(g)
      BY <1>4, <2>1, <2>4, <3>1 DEF Known
    <3>3. Safe(g)
      BY <1>5, <1>7, <2>2, <3>2 DEF Safe
    <3> QED
      BY <1>4, <1>6, <2>0, <2>1, <2>2, <2>4, <3>1, <3>3
  <2>5. CASE ~f.mode.append
    <3>1. g.target = IF tw THEN Goal(f) ELSE Goal(f) + f.bufp
      BY <1>0, <1>3, <2>1, <2>3, <2>5
    <3>2. g.target + g.getl <= g.offset /\ g.target \in Nat /\ g.offset \in Nat
      BY <1>0, <1>4, <1>6, <2>1, <2>3, <2>5, <3>1, SMTT(30)
    <3>3. Known(g)
      BY <1>4, <2>1, <2>5, <3>2 DEF Known
    <3>4. Safe(g)
      BY <1>5, <1>7, <2>2, <3>3 DEF Safe
    <3>5. Goal(f) + f.bufp <= Len(g.file)
      BY <1>0, <1>2, <1>4, <2>1, <2>3, <2>5 DEF Typed
    <3>6. ~tw => Goal(g) = Goal(f) + f.bufp
      BY <3>1, <3>2 DEF Goal
    <3>7. Goal(f) + f.getl <= g.offset
      BY <1>0, <1>4, <1>6, <2>1, <2>3, <2>5
    <3> QED
      BY <1>4, <1>6, <2>0, <2>1, <2>2, <2>5, <3>4, <3>5, <3>6, <3>7
  <2> QED
    BY <2>4, <2>5
<1>10. CASE f.bufp > 0 /\ w.error
  <2>0. f.bufp > 0 /\ w.error = TRUE
    BY <1>2, <1>10 DEF Typed
  <2>1. /\ Len(f.file) <= Len(w.file)
        /\ f.mode.append => Len(w.file) = MaxFile
        /\ ~f.mode.append => /\ w.target = Goal(f) /\ w.offset = Goal(f)
                             /\ MaxFile <= w.kpos /\ Goal(f) + ToWrite(f) > MaxFile
    BY <2>0, WriteDataDoes DEF w
  <2>2. g.bufp = BufSize /\ g.error = TRUE /\ g.getl <= g.bufp
    BY <1>0, <1>2, <1>3, <1>4, <1>6, <2>0 DEF SameBuffer
  <2>3. /\ ToWrite(f) \in {f.bufp, f.getl} /\ ToWrite(f) \in Nat
        /\ Goal(f) \in Nat
    BY <1>0, <2>0, ToWriteDoes, SMTT(30) DEF Goal, Typed
  <2>4. CASE f.mode.append
    BY <1>0, <1>4, <1>5, <1>6, <2>0, <2>1, <2>2, <2>4 DEF Stuck
  <2>5. CASE ~f.mode.append
    <3>1. Goal(f) + f.getl <= MaxFile
      BY <1>0, <1>6, <2>5 DEF Known, Goal, Typed
    <3>2. ToWrite(f) = f.bufp /\ Goal(f) + f.bufp > MaxFile /\ f.bufp > f.getl
      BY <1>0, <1>6, <2>1, <2>3, <2>5, <3>1
    <3>3. /\ g.offset = Goal(f) /\ MaxFile <= g.kpos
          /\ g.target = IF tw THEN Goal(f) ELSE Goal(f) + f.bufp
          /\ g.target # -1
      BY <1>0, <1>3, <1>4, <2>1, <2>3, <2>5
    <3>4. g.offset # g.target => MaxFile <= g.target
      BY <1>0, <1>6, <2>3, <3>2, <3>3
    <3>5. g.getl > 0 => MaxFile <= g.target + g.getl
      BY <1>0, <1>6, <2>3, <3>2, <3>3
    <3> QED
      BY <1>0, <1>4, <1>5, <1>6, <2>0, <2>1, <2>2, <2>5, <3>2, <3>3, <3>4, <3>5 DEF Stuck
  <2> QED
    BY <2>4, <2>5
<1> QED
  BY <1>0, <1>8, <1>9, <1>10

LEMMA StuckWriteOut ==
  ASSUME NEW f, Stuck(f), Buffered(f), f.putl = BufSize,
         NEW tw \in BOOLEAN, ~tw, NEW g, g = WriteOut(f, EOF, tw)
  PROVE  /\ Typed(g) /\ g.file = f.file
         /\ Stuck([g EXCEPT !.target = f.target + f.getl])
<1> DEFINE w == WriteData(f, Slice(f, 0, ToWrite(f)))
           x == f.target + f.getl
           h == [g EXCEPT !.target = x]
<1>0. /\ Typed(f) /\ Shape(f) /\ f.bufp \in 0 .. BufSize /\ f.getl \in 0 .. BufSize
      /\ f.getl <= f.bufp /\ f.target \in Nat \cup {-1} /\ f.kpos \in Nat
      /\ f.offset \in Nat \cup {-1} /\ MaxFile \in Nat /\ BufSize \in Nat \ {0}
  BY StreamAssumption DEF Stuck, Shape, Typed
<1>1. g = Settled(w, tw, f.bufp)
  BY DEF WriteOut, WriteChar
<1>2. /\ Typed(w) /\ SameBuffer(w, f) /\ w.bufp = 0 /\ w.error /\ w.file = f.file
      /\ f.bufp = 0 \/ f.mode.append => w.target = f.target /\ w.offset = f.offset
                                         /\ w.kpos = f.kpos
      /\ f.bufp # 0 /\ ~f.mode.append => /\ w.target = f.target /\ w.offset = f.target
                                         /\ MaxFile <= w.kpos
  BY WriteDataStuck
<1> HIDE DEF w
<1>3. IsSettled(g, w, tw, f.bufp)
  BY <1>0, <1>1, <1>2, SettledDoes
<1>4. Typed(g) /\ g.getl = 0 /\ g.bufp = w.putl
      /\ g = [w EXCEPT !.target = g.target, !.getl = g.getl, !.bufp = g.bufp]
  BY <1>2, <1>3 DEF IsSettled
<1>5. x \in Nat \cup {-1} /\ (f.getl = 0 => x = f.target)
  BY <1>0
<1>6. Typed(h)
  <2>1. Typed(g)
    BY <1>4
  <2>2. h.file = g.file
    BY <2>1 DEF Typed
  <2> HIDE DEF x
  <2> QED
    BY <1>5, <2>1, <2>2, SMTT(30) DEF Typed
<1>7. /\ h.mode = w.mode /\ h.putl = w.putl /\ h.active = w.active
      /\ h.pushed = w.pushed /\ h.eof = w.eof /\ h.error = w.error
      /\ h.file = w.file /\ h.kpos = w.kpos /\ h.offset = w.offset
      /\ h.buf = w.buf /\ h.pushbufp = w.pushbufp /\ h.getl = 0 /\ h.bufp = w.putl
      /\ h.target = x /\ g.file = w.file
  <2>1. /\ h.mode = g.mode /\ h.putl = g.putl /\ h.active = g.active
        /\ h.pushed = g.pushed /\ h.eof = g.eof /\ h.error = g.error
        /\ h.file = g.file /\ h.kpos = g.kpos /\ h.offset = g.offset
        /\ h.buf = g.buf /\ h.pushbufp = g.pushbufp /\ h.getl = g.getl
        /\ h.bufp = g.bufp /\ h.target = x
    <3> HIDE DEF x
    <3>1. Typed(g)
      BY <1>4
    <3> QED
      BY <3>1 DEF Typed
  <2>2. /\ g.mode = w.mode /\ g.putl = w.putl /\ g.active = w.active
        /\ g.pushed = w.pushed /\ g.eof = w.eof /\ g.error = w.error
        /\ g.file = w.file /\ g.kpos = w.kpos /\ g.offset = w.offset
        /\ g.buf = w.buf /\ g.pushbufp = w.pushbufp
    BY <1>2, <1>3, SettledFrame, ZenonT(60)
  <2> HIDE DEF x, h
  <2> QED
    BY <1>4, <2>1, <2>2
<1> HIDE DEF h
<1>8. Shape(h)
  BY <1>0, <1>2, <1>6, <1>7 DEF Shape, Buffered, Linebuf, SameBuffer
<1>9. /\ h.mode = f.mode /\ ~h.pushed /\ h.error /\ ~h.eof /\ h.mode.write
      /\ h.getl = 0 /\ h.bufp = BufSize /\ h.file = f.file
      /\ h.getl <= h.bufp /\ ~(h.getl > 0)
  <2>1. ~f.pushed /\ f.mode.write /\ ~f.eof
    BY DEF Stuck
  <2>2. h.mode = f.mode /\ ~h.pushed /\ h.error /\ ~h.eof
    BY <1>2, <1>7, <2>1 DEF SameBuffer
  <2>3. h.getl = 0 /\ h.bufp = BufSize /\ h.file = f.file
    BY <1>2, <1>7 DEF SameBuffer
  <2>4. h.getl <= h.bufp /\ ~(h.getl > 0)
    BY <1>0, <2>3
  <2> QED
    BY <2>1, <2>2, <2>3, <2>4
<1>10. ASSUME f.mode.append PROVE Stuck(h)
  <2>1. Len(h.file) = MaxFile
    <3>1. Buffered(f) /\ f.mode.append => Len(f.file) = MaxFile
      BY DEF Stuck
    <3> QED
      BY <1>9, <1>10, <3>1
  <2>2. h.mode.append
    BY <1>9, <1>10
  <2> QED
    BY <1>8, <1>9, <2>1, <2>2 DEF Stuck
<1>11. ASSUME ~f.mode.append PROVE Stuck(h)
  <2>1. /\ f.target # -1 /\ MaxFile <= f.kpos
        /\ (f.offset # f.target => MaxFile <= f.target)
        /\ (f.getl > 0 => MaxFile <= f.target + f.getl)
    BY <1>11 DEF Stuck
  <2>2. /\ h.target # -1 /\ MaxFile <= h.kpos
        /\ h.offset # h.target => MaxFile <= h.target
    <3>1. CASE f.bufp = 0
      BY <1>0, <1>2, <1>5, <1>7, <2>1, <3>1
    <3>2. CASE f.bufp # 0
      BY <1>0, <1>2, <1>5, <1>7, <1>11, <2>1, <3>2
    <3> QED
      BY <3>1, <3>2
  <2>3. ~h.mode.append
    BY <1>9, <1>11
  <2> QED
    BY <1>8, <1>9, <2>2, <2>3 DEF Stuck
<1> QED
  BY <1>2, <1>4, <1>7, <1>10, <1>11 DEF h

\* A character that goes straight to the file.
IsWroteChar(v, w) ==
  /\ Typed(v) /\ SameBuffer(v, w) /\ v.bufp = w.bufp
  /\ Len(w.file) <= Len(v.file)
  /\ w.kpos <= Len(w.file) => v.kpos <= Len(v.file)
  /\ v.error => /\ v.target = w.target /\ v.offset = w.offset
                /\ w.mode.append => Len(v.file) = MaxFile
                /\ ~w.mode.append => MaxFile <= v.kpos
  /\ ~v.error => /\ v.kpos = At(w) + 1
                 /\ w.offset = -1 => v.offset = -1 /\ v.target = w.target
                 /\ w.offset # -1 => /\ v.offset = w.offset + 1
                                     /\ v.target = w.target + 1

LEMMA WroteCharDoes ==
  ASSUME NEW w, Typed(w), ~w.error, NEW c \in Char
  PROVE  IsWroteChar(WroteChar(SysWrite(w, <<c>>)), w)
<1> DEFINE d == <<c>>
           r == SysWrite(w, d)
           v == WroteChar(r)
<1>1. d \in Seq(Byte) /\ Len(d) = 1 /\ d # <<>>
  BY DEF Byte
<1> HIDE DEF d
<1>2. /\ Typed(r)
      /\ r = [w EXCEPT !.file = r.file, !.kpos = r.kpos, !.ret = r.ret]
      /\ r.ret \in {-1, 1} /\ Len(w.file) <= Len(r.file)
      /\ r.ret = 1 => r.kpos = At(w) + 1
      /\ r.ret = -1 => /\ w.mode.append => Len(r.file) = MaxFile
                       /\ ~w.mode.append => MaxFile <= r.kpos
      /\ w.kpos <= Len(w.file) => r.kpos <= Len(r.file)
  <2>1. /\ Typed(r)
        /\ r = [w EXCEPT !.file = r.file, !.kpos = r.kpos, !.ret = r.ret]
        /\ r.ret \in {-1, Len(d)} /\ Len(w.file) <= Len(r.file)
        /\ r.ret = Len(d) => r.kpos = At(w) + Len(d)
        /\ r.ret = -1 => /\ w.mode.append => Len(r.file) = MaxFile
                         /\ ~w.mode.append => MaxFile <= r.kpos
        /\ w.kpos <= Len(w.file) => r.kpos <= Len(r.file)
    BY <1>1, SysWriteDoes
  <2> HIDE DEF r
  <2> QED
    BY <1>1, <2>1
<1> HIDE DEF r
<1>3. SameBuffer(r, w) /\ r.bufp = w.bufp /\ r.target = w.target /\ r.offset = w.offset
      /\ r.error = FALSE
  BY <1>2 DEF SameBuffer, Typed
<1>4. CASE r.ret = -1
  <2>1. v = [r EXCEPT !.error = TRUE]
    BY <1>4 DEF WroteChar
  <2>2. /\ v.file = r.file /\ v.kpos = r.kpos /\ v.target = r.target
        /\ v.offset = r.offset /\ v.error /\ v.bufp = r.bufp /\ SameBuffer(v, r)
    BY <1>2, <2>1 DEF Typed, SameBuffer
  <2>3. Typed(v)
    BY <1>2, <2>1, <2>2 DEF Typed
  <2> QED
    BY <1>2, <1>3, <1>4, <2>2, <2>3 DEF IsWroteChar, SameBuffer, v, r, d
<1>5. CASE r.ret = 1 /\ r.offset = -1
  <2>1. v = r
    BY <1>5 DEF WroteChar
  <2> QED
    BY <1>2, <1>3, <1>5, <2>1 DEF IsWroteChar, SameBuffer, v, r, d
<1>6. CASE r.ret = 1 /\ r.offset # -1
  <2>1. v = [r EXCEPT !.offset = r.offset + 1, !.target = r.target + 1]
    BY <1>6 DEF WroteChar
  <2>2. r.offset + 1 \in Nat /\ r.target + 1 \in Nat
    BY <1>2, SMTT(30) DEF Typed
  <2>3. /\ v.file = r.file /\ v.kpos = r.kpos /\ v.target = r.target + 1
        /\ v.offset = r.offset + 1 /\ v.error = r.error /\ v.bufp = r.bufp
        /\ SameBuffer(v, r)
    BY <1>2, <2>1 DEF Typed, SameBuffer
  <2>4. Typed(v)
    BY <1>2, <2>1, <2>2, <2>3, ZenonT(60) DEF Typed
  <2> QED
    BY <1>2, <1>3, <1>6, <2>3, <2>4 DEF IsWroteChar, SameBuffer, v, r, d
<1> QED
  BY <1>2, <1>4, <1>5, <1>6

\* One more character after the buffer was written.
LEMMA WriteOutChar ==
  ASSUME NEW f, Safe(f), f.mode.write, ~f.pushed, ~f.eof, NEW c \in Char,
         Buffered(f) => f.putl = BufSize /\ f.bufp = BufSize,
         NEW tw \in BOOLEAN, ~tw, NEW g, g = WriteOut(f, c, tw)
  PROVE  /\ Safe(g) \/ Stuck(g)
         /\ g.mode = f.mode /\ g.putl = f.putl /\ g.active = f.active
         /\ ~g.pushed /\ ~g.eof /\ Len(f.file) <= Len(g.file)
         /\ g.getl = 0
         /\ ~Buffered(f) /\ f.offset = f.target => g.offset = g.target
<1> DEFINE w == WriteData(f, Slice(f, 0, ToWrite(f)))
           v == WriteChar(w, c)
<1>0. Typed(f) /\ Shape(f) /\ Clean(f) /\ f.error = FALSE /\ f.eof = FALSE
      /\ BufSize \in Nat \ {0} /\ f.pushed = FALSE /\ f.bufp \in 0 .. BufSize
      /\ c # EOF
  BY StreamAssumption DEF Safe, Shape, Typed
<1>1. g = Settled(v, tw, f.bufp)
  BY DEF WriteOut
<1>2. CASE ~Buffered(f)
  <2>1. f.bufp = 0 /\ f.getl = 0 /\ f.putl = 0 /\ f.pushbufp = 0
    BY <1>0, <1>2 DEF Shape
  <2>2. w = f
    BY <1>0, <2>1, WriteDataNone
  <2>3. v = WroteChar(SysWrite(f, <<c>>))
    BY <1>0, <1>2, <2>2 DEF WriteChar
  <2>4. IsWroteChar(v, f)
    BY <1>0, <2>3, WroteCharDoes
  <2> HIDE DEF w, v
  <2>5. Typed(v) /\ SameBuffer(v, f) /\ v.bufp = 0 /\ Len(f.file) <= Len(v.file)
    BY <2>1, <2>4 DEF IsWroteChar
  <2>6. IsSettled(g, v, tw, f.bufp)
    BY <1>0, <1>1, <2>5, SettledDoes
  <2>7. /\ g.mode = v.mode /\ g.putl = v.putl /\ g.active = v.active
        /\ g.pushed = v.pushed /\ g.eof = v.eof /\ g.error = v.error
        /\ g.file = v.file /\ g.pushbufp = v.pushbufp
    BY <2>5, <2>6, SettledFrame
  <2>8. Typed(g) /\ g.getl = 0 /\ g.bufp \in {v.bufp, v.putl}
    BY <2>6 DEF IsSettled
  <2>9. /\ g.mode = f.mode /\ g.putl = f.putl /\ g.active = f.active
        /\ ~g.pushed /\ ~g.eof /\ g.pushbufp = 0
    BY <1>0, <2>1, <2>5, <2>7 DEF SameBuffer
  <2>10. g.bufp = 0
    BY <2>1, <2>5, <2>8 DEF SameBuffer
  <2>11. Shape(g)
    BY <1>0, <2>1, <2>8, <2>9, <2>10 DEF Shape, Buffered, Linebuf
  <2>12. Clean(g)
    BY <2>8, <2>9, <2>10 DEF Clean
  <2>13. ~Buffered(g) /\ g.mode.write
    BY <1>2, <2>9 DEF Buffered
  <2>14. g.getl <= g.bufp
    <3>1. g.getl = 0 /\ g.bufp = 0
      BY <2>8, <2>10
    <3> QED
      BY <3>1
  <2>15. ASSUME g.error PROVE Stuck(g)
    BY <2>5, <2>7, <2>8, <2>9, <2>11, <2>13, <2>14, <2>15 DEF Stuck
  <2>16. ASSUME ~g.error PROVE Safe(g)
    BY <2>5, <2>7, <2>8, <2>9, <2>11, <2>12, <2>13, <2>16 DEF Safe
  <2>17. ASSUME f.offset = f.target PROVE g.offset = g.target
    <3>1. v.offset = v.target
      BY <1>0, <2>4, <2>17 DEF IsWroteChar
    <3>2. g.offset = v.offset
      BY <2>5, <2>6, SettledFrame
    <3>3. g.target = IF v.target = -1 THEN -1 ELSE v.target + 0
      BY <2>1, <2>6 DEF IsSettled
    <3> QED
      BY <2>5, <3>1, <3>2, <3>3 DEF Typed
  <2> QED
    BY <2>5, <2>7, <2>8, <2>9, <2>15, <2>16, <2>17
<1>3. CASE Buffered(f) /\ w.error
  <2>1. v = w
    BY <1>3 DEF WriteChar
  <2>2. g = WriteOut(f, EOF, tw)
    BY <1>1, <2>1 DEF WriteOut, WriteChar
  <2>3. f.putl = BufSize /\ Buffered(f)
    BY <1>3
  <2> HIDE DEF w, v
  <2> QED
    BY <2>2, <2>3, WriteOutDoes
<1>4. CASE Buffered(f) /\ ~w.error
  <2>0. f.bufp = BufSize /\ f.putl = BufSize /\ f.bufp > 0 /\ f.getl \in 0 .. BufSize
    BY <1>0, <1>4 DEF Typed
  <2>1. /\ Typed(w) /\ SameBuffer(w, f) /\ w.bufp = 0
        /\ Len(f.file) <= Len(w.file) /\ w.kpos <= Len(w.file)
        /\ ~w.error /\ f.mode.append => /\ w.target = -1 /\ w.offset = -1
        /\ ~w.error /\ ~f.mode.append =>
              /\ w.target = Goal(f) /\ w.offset = Goal(f) + ToWrite(f)
              /\ w.offset = w.kpos
    BY <1>4, <2>0, WriteDataDoes
  <2>2. ToWrite(f) = BufSize /\ Goal(f) \in Nat
    <3>1. ToWrite(f) \in 0 .. BufSize /\ ToWrite(f) >= f.bufp
      BY <1>0, <2>0, ToWriteDoes
    <3>2. Goal(f) \in Nat
      BY <1>0 DEF Goal, Typed
    <3> QED
      BY <1>0, <2>0, <3>1, <3>2
  <2> HIDE DEF w
  <2>3. w.error = FALSE /\ w.mode = f.mode
    BY <1>4, <2>1 DEF Typed, SameBuffer
  <2>4. /\ Typed(v) /\ v.mode = f.mode /\ v.putl = f.putl /\ v.active = f.active
        /\ v.pushed = f.pushed /\ v.eof = f.eof /\ v.pushbufp = f.pushbufp
        /\ Len(f.file) <= Len(v.file) /\ v.kpos <= Len(v.file) /\ v.bufp \in {0, 1}
        /\ v.bufp = 1 => v.buf[0] \in Byte
        /\ ~v.error /\ f.mode.append => v.target = -1 /\ v.offset = -1
        /\ ~v.error /\ ~f.mode.append => /\ v.target \in Nat /\ v.offset = v.kpos
                                         /\ v.target + BufSize <= v.offset
        /\ v.error /\ f.mode.append => Len(v.file) = MaxFile
        /\ v.error /\ ~f.mode.append =>
              /\ v.target = Goal(f) /\ v.offset = Goal(f) + BufSize /\ MaxFile <= v.kpos
    <3>1. CASE Linebuf(f) /\ c = Newline
      <4>1. v = WroteChar(SysWrite(w, <<c>>))
        BY <1>0, <2>3, <3>1 DEF WriteChar, Linebuf
      <4>2. IsWroteChar(v, w)
        BY <2>1, <2>3, <4>1, WroteCharDoes
      <4> HIDE DEF v
      <4>3. /\ Typed(v) /\ v.mode = f.mode /\ v.putl = f.putl /\ v.active = f.active
            /\ v.pushed = f.pushed /\ v.eof = f.eof /\ v.pushbufp = f.pushbufp
            /\ v.bufp = 0 /\ v.kpos <= Len(v.file) /\ Len(w.file) <= Len(v.file)
        BY <2>1, <4>2 DEF IsWroteChar, SameBuffer
      <4>4. Len(f.file) <= Len(v.file)
        BY <1>0, <2>1, <4>3 DEF Typed
      <4>5. CASE v.error
        <5>1. f.mode.append => Len(v.file) = MaxFile
          BY <2>3, <4>2, <4>5 DEF IsWroteChar
        <5>2. ~f.mode.append =>
                /\ v.target = Goal(f) /\ v.offset = Goal(f) + BufSize
                /\ MaxFile <= v.kpos
          BY <2>1, <2>2, <2>3, <4>2, <4>5 DEF IsWroteChar
        <5> QED
          BY <4>3, <4>4, <4>5, <5>1, <5>2
      <4>6. CASE ~v.error
        <5>1. f.mode.append => v.target = -1 /\ v.offset = -1
          BY <2>1, <2>3, <4>2, <4>6 DEF IsWroteChar
        <5>2. ASSUME ~f.mode.append
              PROVE  /\ v.target \in Nat /\ v.offset = v.kpos
                     /\ v.target + BufSize <= v.offset
          <6>1. w.target = Goal(f) /\ w.offset = Goal(f) + BufSize /\ w.offset = w.kpos
            BY <2>1, <2>2, <2>3, <5>2
          <6>2. w.offset # -1
            BY <1>0, <2>2, <6>1
          <6>3. v.offset = w.offset + 1 /\ v.target = w.target + 1 /\ v.kpos = w.kpos + 1
            BY <2>3, <4>2, <4>6, <5>2, <6>2 DEF IsWroteChar, At
          <6> QED
            BY <1>0, <2>2, <6>1, <6>3
        <5> QED
          BY <4>3, <4>4, <4>6, <5>1, <5>2
      <4> QED
        BY <4>5, <4>6
    <3>2. CASE ~(Linebuf(f) /\ c = Newline)
      <4>1. v = Put(w, c)
        BY <1>0, <1>4, <2>3, <3>2 DEF WriteChar, Linebuf, Buffered
      <4>2. w.bufp < BufSize
        BY <1>0, <2>1
      <4> DEFINE q == Put(w, c)
      <4>9. /\ Typed(q) /\ q.bufp = w.bufp + 1
            /\ q = [w EXCEPT !.buf = q.buf, !.bufp = w.bufp + 1, !.ret = c]
            /\ q.buf[w.bufp] = c
        <5>1. Typed(w)
          BY <2>1
        <5>2. IsPut(q, w, c)
          BY <4>2, <5>1, PutDoes
        <5> QED
          BY <5>2 DEF IsPut
      <4> HIDE DEF q
      <4>3. /\ Typed(v) /\ v.bufp = w.bufp + 1
            /\ v = [w EXCEPT !.buf = v.buf, !.bufp = w.bufp + 1, !.ret = c]
            /\ v.buf[w.bufp] = c
        BY <4>1, <4>9 DEF q
      <4> HIDE DEF v
      <4>4. /\ v.mode = w.mode /\ v.putl = w.putl /\ v.active = w.active
            /\ v.pushed = w.pushed /\ v.eof = w.eof /\ v.pushbufp = w.pushbufp
            /\ v.file = w.file /\ v.kpos = w.kpos /\ v.target = w.target
            /\ v.offset = w.offset /\ v.error = w.error
        BY <2>1, <4>3, ZenonT(60) DEF Typed
      <4>5. /\ v.mode = f.mode /\ v.putl = f.putl /\ v.active = f.active
            /\ v.pushed = f.pushed /\ v.eof = f.eof /\ v.pushbufp = f.pushbufp
        BY <2>1, <4>4 DEF SameBuffer
      <4>6. v.bufp = 1 /\ v.buf[0] \in Byte
        BY <2>1, <4>3 DEF Byte
      <4>7. CASE f.mode.append
        BY <2>1, <2>3, <4>3, <4>4, <4>5, <4>6, <4>7
      <4>8. CASE ~f.mode.append
        <5>1. v.target = Goal(f) /\ v.offset = Goal(f) + BufSize /\ v.offset = v.kpos
          BY <2>1, <2>2, <2>3, <4>4, <4>8
        <5>2. v.target + BufSize <= v.offset
          BY <1>0, <2>2, <5>1
        <5> QED
          BY <2>1, <2>2, <2>3, <4>3, <4>4, <4>5, <4>6, <4>8, <5>1, <5>2
      <4> QED
        BY <4>7, <4>8
    <3> QED
      BY <3>1, <3>2
  <2> HIDE DEF v
  <2>5. IsSettled(g, v, tw, f.bufp)
    BY <1>0, <1>1, <2>4, SettledDoes
  <2>6. /\ g.mode = v.mode /\ g.putl = v.putl /\ g.active = v.active
        /\ g.pushed = v.pushed /\ g.eof = v.eof /\ g.error = v.error
        /\ g.file = v.file /\ g.kpos = v.kpos /\ g.offset = v.offset
        /\ g.buf = v.buf /\ g.pushbufp = v.pushbufp
    BY <2>4, <2>5, SettledFrame
  <2>7. /\ Typed(g) /\ g.getl = 0
        /\ g.target = IF v.target = -1 THEN -1 ELSE v.target + BufSize
        /\ ~v.eof /\ ~v.error => g.bufp = v.bufp
        /\ v.eof \/ v.error => g.bufp = v.putl
    BY <2>0, <2>5 DEF IsSettled
  <2>8. /\ g.mode = f.mode /\ g.putl = f.putl /\ g.active = f.active
        /\ ~g.pushed /\ ~g.eof /\ Len(f.file) <= Len(g.file)
    BY <1>0, <2>4, <2>6
  <2>9. Shape(g)
    BY <1>0, <1>4, <2>7, <2>8 DEF Shape, Buffered, Linebuf
  <2>10. CASE v.error
    <3>1. g.bufp = BufSize /\ g.getl <= g.bufp /\ ~(g.getl > 0) /\ g.error /\ g.mode.write
      BY <1>0, <2>0, <2>4, <2>6, <2>7, <2>8, <2>10
    <3>2. CASE f.mode.append
      <4>1. Len(g.file) = MaxFile /\ g.mode.append
        BY <2>4, <2>6, <2>8, <2>10, <3>2
      <4>2. Stuck(g)
        BY <2>8, <2>9, <3>1, <4>1 DEF Stuck
      <4> QED
        BY <1>4, <2>7, <2>8, <4>2
    <3>3. CASE ~f.mode.append
      <4>1. g.target = Goal(f) + BufSize /\ g.offset = g.target /\ MaxFile <= g.kpos
            /\ g.target # -1
        BY <1>0, <2>2, <2>4, <2>6, <2>7, <2>10, <3>3
      <4>2. ~g.mode.append
        BY <2>8, <3>3
      <4>3. Stuck(g)
        BY <2>8, <2>9, <3>1, <4>1, <4>2 DEF Stuck
      <4> QED
        BY <1>4, <2>7, <2>8, <4>3
    <3> QED
      BY <3>2, <3>3
  <2>11. CASE ~v.error
    <3>1. g.bufp = v.bufp /\ ~g.error
      BY <1>0, <2>4, <2>6, <2>7, <2>11
    <3>2. Clean(g)
      BY <1>0, <2>4, <2>6, <2>7, <2>8, <3>1 DEF Clean
    <3>3. Known(g)
      <4>1. CASE f.mode.append
        <5>1. g.target = -1 /\ g.offset = -1 /\ g.kpos <= Len(g.file)
          BY <2>4, <2>6, <2>7, <2>11, <4>1
        <5> QED
          BY <2>7, <5>1 DEF Known
      <4>2. CASE ~f.mode.append
        <5>1. /\ v.target \in Nat /\ v.offset = v.kpos
              /\ v.target + BufSize <= v.offset /\ v.kpos \in Nat
          BY <2>4, <2>11, <4>2 DEF Typed
        <5>2. /\ g.target \in Nat /\ g.offset = g.kpos /\ g.target + g.getl <= g.offset
              /\ g.kpos <= Len(g.file) /\ g.offset \in Nat
          BY <1>0, <2>4, <2>6, <2>7, <5>1
        <5>3. g.mode.write
          BY <2>8
        <5> QED
          BY <2>7, <5>2, <5>3 DEF Known
      <4> QED
        BY <4>1, <4>2
    <3>4. Safe(g)
      BY <2>9, <3>1, <3>2, <3>3 DEF Safe
    <3> QED
      BY <1>4, <2>7, <2>8, <3>4
  <2> QED
    BY <2>10, <2>11
<1> QED
  BY <1>2, <1>3, <1>4

-----------------------------------------------------------------------------
(* Reading.                                                                *)

\* From b on the buffer has what the file has.
Match(f, b) ==
  \A i \in 0 .. BufSize - 1 :
    b <= i /\ i < f.getl => /\ f.target \in Nat /\ f.target + i < Len(f.file)
                            /\ f.buf[i] = f.file[f.target + i + 1]

\* A stream without a buffer is where the kernel is.
Bare(f) ==
  ~Buffered(f) => /\ f.target = -1 <=> f.offset = -1
                  /\ f.target # -1 /\ ~f.eof => f.target = f.offset
                  /\ f.target # -1 => f.offset = f.kpos
                  /\ f.mode.write => f.kpos <= Len(f.file)

\* A stream that holds input was asked for it.
Touched(f) == f.getl > 0 => f.seen

\* g is f after ReadBlock(f, skip), which read n bytes.
IsRead(g, f, skip, n) ==
  /\ Typed(g) /\ g.file = f.file /\ g.mode = f.mode /\ g.target = f.target
  /\ g.pushed = f.pushed /\ g.pushbufp = f.pushbufp /\ g.error = f.error
  /\ g.active = f.active
  /\ n \in Nat /\ g.kpos = f.kpos + n /\ g.offset = f.offset + n
  /\ f.kpos <= Len(f.file) => g.kpos <= Len(f.file)
  /\ g.eof => g.ret = EOF /\ Len(f.file) <= f.kpos + skip
  /\ ~g.eof => f.kpos + skip < Len(f.file) /\ g.ret = f.file[f.kpos + skip + 1]
  /\ g.eof /\ skip = 0 => n = 0
  /\ g.seen = f.seen
  /\ ~Buffered(f) /\ ~g.eof => n = 1
  /\ ~Buffered(f) => g.buf = f.buf /\ g.bufp = f.bufp /\ g.getl = f.getl /\ g.putl = f.putl
  /\ Buffered(f) =>
       /\ g.putl = 0 /\ (\A i \in 0 .. BufSize - 1 : i < n => g.buf[i] \in Byte)
       /\ \A i \in 0 .. BufSize - 1 : i < n => /\ f.kpos + i < Len(f.file)
                                             /\ g.buf[i] = f.file[f.kpos + i + 1]
       /\ g.eof => g.getl = 0 /\ g.bufp = skip
       /\ ~g.eof => /\ g.getl = n /\ g.bufp = skip + 1 /\ skip + 1 <= n
                    /\ n = BufSize \/ g.kpos = Len(f.file)

LEMMA ReadBlockDoes ==
  ASSUME NEW f, Typed(f), f.offset \in Nat, NEW skip \in 0 .. BufSize - 1,
         ~Buffered(f) => skip = 0
  PROVE  \E n \in Nat : IsRead(ReadBlock(f, skip), f, skip, n)
<1> DEFINE avail == Most(0, Len(f.file) - f.kpos)
           m     == IF Buffered(f) THEN BufSize ELSE 1
           n     == Least(avail, m)
           e     == avail <= skip
           rt    == IF e THEN EOF ELSE f.file[f.kpos + skip + 1]
           b     == [i \in DOMAIN f.buf |-> IF i < n THEN f.file[f.kpos + i + 1]
                                            ELSE f.buf[i]]
           bp    == IF e THEN skip ELSE skip + 1
           gl    == IF e THEN 0 ELSE n
           k     == f.kpos + n
           o     == f.offset + n
           g     == ReadBlock(f, skip)
           r     == [f EXCEPT !.kpos = k, !.offset = o, !.eof = e, !.ret = rt]
<1>1. /\ Len(f.file) \in Nat /\ f.kpos \in Nat /\ BufSize \in Nat \ {0} /\ f.offset \in Nat
      /\ f.file \in Seq(Byte)
  BY StreamAssumption DEF Typed
<1>2. /\ avail \in Nat
      /\ f.kpos <= Len(f.file) => avail = Len(f.file) - f.kpos
      /\ Len(f.file) <= f.kpos => avail = 0
  BY <1>1 DEF Most
<1>3. /\ m \in Nat \ {0} /\ n \in Nat /\ n <= avail /\ n <= m /\ (n = avail \/ n = m)
      /\ Buffered(f) => m = BufSize
  <2>1. m \in Nat \ {0} /\ (Buffered(f) => m = BufSize)
    BY <1>1
  <2> HIDE DEF m, avail
  <2> QED
    BY <1>2, <2>1 DEF Least
<1>4. /\ e \in BOOLEAN /\ (e => avail <= skip) /\ (~e => avail > skip)
      /\ (e => rt = EOF /\ bp = skip /\ gl = 0) /\ (~e => bp = skip + 1 /\ gl = n)
      /\ (~e => rt = f.file[f.kpos + skip + 1])
  BY <1>1, <1>2
<1>5. g = IF ~Buffered(f) THEN r
          ELSE [r EXCEPT !.buf = [i \in DOMAIN @ |-> IF i < n THEN f.file[f.kpos + i + 1]
                                                    ELSE @[i]],
                         !.bufp = bp, !.getl = gl, !.putl = 0]
  BY DEF ReadBlock
<1>6. /\ b \in [0 .. BufSize - 1 -> Byte \cup {Junk}]
      /\ \A i \in 0 .. BufSize - 1 : i < n => b[i] \in Byte
      /\ \A i \in 0 .. BufSize - 1 : i < n => /\ f.kpos + i < Len(f.file)
                                            /\ b[i] = f.file[f.kpos + i + 1]
  <2>1. DOMAIN f.buf = 0 .. BufSize - 1 /\ f.buf \in [0 .. BufSize - 1 -> Byte \cup {Junk}]
    BY DEF Typed
  <2>2. \A i \in 0 .. BufSize - 1 : i < n => /\ f.file[f.kpos + i + 1] \in Byte
                                            /\ f.kpos + i < Len(f.file)
    <3> HIDE DEF n, avail
    <3> QED
      BY <1>1, <1>2, <1>3
  <2> HIDE DEF n
  <2> QED
    BY <2>1, <2>2
<1>7. k \in Nat /\ o \in Nat /\ (f.kpos <= Len(f.file) => k <= Len(f.file))
  <2> HIDE DEF n, avail
  <2> QED
    BY <1>1, <1>2, <1>3, SMTT(30)
<1>8. /\ bp \in 0 .. BufSize
      /\ Buffered(f) => gl \in 0 .. BufSize
      /\ ~e /\ Buffered(f) => skip + 1 <= n /\ (n = BufSize \/ k = Len(f.file))
      /\ e => Len(f.file) <= f.kpos + skip
      /\ ~e => f.kpos + skip < Len(f.file)
      /\ e /\ skip = 0 => n = 0
      /\ ~Buffered(f) /\ ~e => n = 1
  <2>1. ~Buffered(f) => m = 1 /\ skip = 0
    OBVIOUS
  <2> HIDE DEF n, avail, e, m, bp, gl
  <2> QED
    BY <1>1, <1>2, <1>3, <1>4, <2>1
<1> HIDE DEF avail, m, n, e, rt, bp, gl, k, o, g
<1>9. CASE ~Buffered(f)
  <2>1. g = [f EXCEPT !.kpos = k, !.offset = o, !.eof = e, !.ret = rt]
    BY <1>5, <1>9
  <2>2. Typed(g)
    <3>1. g.file = f.file
      BY <2>1 DEF Typed
    <3> QED
      BY <1>4, <1>7, <2>1, <3>1 DEF Typed
  <2>3. /\ g.file = f.file /\ g.mode = f.mode /\ g.target = f.target
        /\ g.pushed = f.pushed /\ g.pushbufp = f.pushbufp /\ g.error = f.error
        /\ g.active = f.active /\ g.kpos = k /\ g.offset = o /\ g.eof = e /\ g.ret = rt
        /\ g.seen = f.seen
        /\ g.buf = f.buf /\ g.bufp = f.bufp /\ g.getl = f.getl /\ g.putl = f.putl
    BY <2>1 DEF Typed
  <2>4. IsRead(g, f, skip, n)
    BY <1>3, <1>4, <1>7, <1>8, <1>9, <2>2, <2>3 DEF IsRead, k, o
  <2> QED
    BY <1>3, <2>4 DEF g
<1>10. CASE Buffered(f)
  <2>1. r.buf = f.buf
    BY DEF Typed
  <2>2. g = [r EXCEPT !.buf = b, !.bufp = bp, !.getl = gl, !.putl = 0]
    BY <1>5, <1>10, <2>1
  <2> HIDE DEF b
  <2>3. g = [f EXCEPT !.kpos = k, !.offset = o, !.eof = e, !.ret = rt, !.buf = b,
                      !.bufp = bp, !.getl = gl, !.putl = 0]
    BY <2>2 DEF Typed
  <2>6. r.file = f.file
    BY DEF Typed
  <2>7. Typed(r)
    BY <1>4, <1>7, <2>6 DEF Typed
  <2> HIDE DEF r
  <2>4. /\ g.file = f.file /\ g.mode = f.mode /\ g.target = f.target
        /\ g.pushed = f.pushed /\ g.pushbufp = f.pushbufp /\ g.error = f.error
        /\ g.active = f.active /\ g.kpos = k /\ g.offset = o /\ g.eof = e /\ g.ret = rt
        /\ g.seen = f.seen
        /\ g.buf = b /\ g.bufp = bp /\ g.getl = gl /\ g.putl = 0
    BY <2>3 DEF Typed
  <2>5. Typed(g)
    BY <1>6, <1>8, <1>10, <2>2, <2>4, <2>6, <2>7 DEF Typed
  <2>8. IsRead(g, f, skip, n)
    BY <1>3, <1>4, <1>6, <1>7, <1>8, <1>10, <2>4, <2>5 DEF IsRead, k, o
  <2> QED
    BY <1>3, <2>8 DEF g
<1> QED
  BY <1>9, <1>10

LEMMA ModRange ==
  ASSUME NEW t \in Nat
  PROVE  /\ t % BufSize \in 0 .. BufSize - 1 /\ t % BufSize <= t
         /\ t - (t % BufSize) \in Nat /\ (t - (t % BufSize)) % BufSize = 0
<1> DEFINE B == BufSize
           q == t \div B
           m == t % B
<1>1. B \in Nat \ {0}
  BY StreamAssumption
<1> HIDE DEF B
<1>2. q \in Nat /\ m \in 0 .. B - 1 /\ t = B * q + m
  BY <1>1
<1> HIDE DEF q, m
<1>3. t - m = q * B /\ m <= t /\ q * B \in Nat
  BY <1>1, <1>2
<1>4. (q * B) % B = 0
  BY <1>1, <1>2
<1>5. (t - m) % B = 0
  BY <1>3, <1>4
<1> QED
  BY <1>1, <1>2, <1>3, <1>5 DEF B, m

\* g is f after a block was read for the target of f.
IsFilled(g, f) ==
  /\ Typed(g) /\ g.file = f.file /\ g.mode = f.mode /\ g.pushed = f.pushed
  /\ g.pushbufp = f.pushbufp /\ g.error = f.error /\ g.active = f.active
  /\ g.putl = 0 /\ g.target \in Nat /\ g.offset = g.kpos /\ g.target + g.getl = g.kpos
  /\ f.kpos <= Len(f.file) => g.kpos <= Len(f.file)
  /\ \A i \in 0 .. BufSize - 1 : i < g.getl => g.buf[i] \in Byte
  /\ g.eof => g.ret = EOF /\ g.getl = 0 /\ g.bufp = 0 /\ Len(g.file) <= g.kpos
  /\ ~g.eof => /\ 1 <= g.bufp /\ g.bufp <= g.getl
               /\ g.getl = BufSize \/ g.kpos = Len(g.file)
  /\ f.target # f.offset => ~g.eof /\ g.target = f.target - (f.target % BufSize)
  /\ Match(g, 0) /\ (f.seen => g.seen)
  /\ g.eof => g.target = f.target /\ Len(g.file) <= f.target
  /\ ~g.eof => /\ f.target < Len(g.file) /\ g.ret = g.file[f.target + 1]
               /\ g.target + g.bufp = f.target + 1

LEMMA FillKnownDoes ==
  ASSUME NEW f, Typed(f), Buffered(f), f.target \in Nat, f.offset = f.kpos,
         f.target <= f.offset, f.target # f.offset => f.target < Len(f.file)
  PROVE  IsFilled(FillKnown(f), f)
<1> DEFINE g == FillKnown(f)
<1>0. f.kpos \in Nat /\ f.offset \in Nat /\ BufSize \in Nat \ {0} /\ Len(f.file) \in Nat
  BY StreamAssumption DEF Typed
<1>1. CASE f.target = f.offset
  <2>1. g = ReadBlock(f, 0)
    BY <1>1 DEF FillKnown, Away
  <2>2. 0 \in 0 .. BufSize - 1
    BY <1>0
  <2>3. PICK n \in Nat : IsRead(g, f, 0, n)
    BY <1>0, <2>1, <2>2, ReadBlockDoes
  <2> HIDE DEF g
  <2>4. /\ Typed(g) /\ g.file = f.file /\ g.mode = f.mode /\ g.target = f.target
        /\ g.pushed = f.pushed /\ g.pushbufp = f.pushbufp /\ g.error = f.error
        /\ g.active = f.active /\ g.kpos = f.kpos + n /\ g.offset = f.offset + n
        /\ f.kpos <= Len(f.file) => g.kpos <= Len(f.file)
        /\ g.eof => g.ret = EOF /\ Len(f.file) <= f.kpos + 0 /\ n = 0
        /\ g.putl = 0 /\ (\A i \in 0 .. BufSize - 1 : i < n => g.buf[i] \in Byte)
        /\ g.eof => g.getl = 0 /\ g.bufp = 0
        /\ ~g.eof => /\ g.getl = n /\ g.bufp = 0 + 1 /\ 0 + 1 <= n
                     /\ n = BufSize \/ g.kpos = Len(f.file)
    BY <2>3 DEF IsRead
  <2>11. /\ g.seen = f.seen
         /\ ~g.eof => f.kpos + 0 < Len(f.file) /\ g.ret = f.file[f.kpos + 0 + 1]
         /\ \A i \in 0 .. BufSize - 1 : i < n => /\ f.kpos + i < Len(f.file)
                                               /\ g.buf[i] = f.file[f.kpos + i + 1]
    BY <2>3 DEF IsRead
  <2>5. g.getl <= n /\ g.target + g.getl = g.kpos
    BY <1>0, <1>1, <2>4
  <2>6. \A i \in 0 .. BufSize - 1 : i < g.getl => g.buf[i] \in Byte
    <3>1. g.getl \in Nat
      BY <1>0, <2>4 DEF Typed
    <3> QED
      BY <1>0, <2>4, <2>5, <3>1
  <2>7. g.eof => Len(g.file) <= g.kpos
    BY <1>0, <2>4
  <2>8. ~g.eof => /\ 1 <= g.bufp /\ g.bufp <= g.getl
                  /\ g.getl = BufSize \/ g.kpos = Len(g.file)
    BY <1>0, <2>4
  <2>9. g.offset = g.kpos
    BY <2>4
  <2>12. Match(g, 0)
    <3>1. g.getl \in Nat
      BY <1>0, <2>4 DEF Typed
    <3>2. f.target = f.kpos /\ g.target = f.kpos /\ g.file = f.file
      BY <1>1, <2>4
    <3> QED
      BY <1>0, <2>5, <2>11, <3>1, <3>2 DEF Match
  <2>13. ~g.eof => /\ f.target < Len(g.file) /\ g.ret = g.file[f.target + 1]
                   /\ g.target + g.bufp = f.target + 1
    BY <1>0, <1>1, <2>4, <2>11
  <2>14. g.eof => g.target = f.target /\ Len(g.file) <= f.target
    BY <1>0, <1>1, <2>4
  <2>10. IsFilled(g, f)
    BY <1>0, <1>1, <2>4, <2>5, <2>6, <2>7, <2>8, <2>9, <2>11, <2>12, <2>13, <2>14 DEF IsFilled
  <2> QED
    BY <2>10 DEF g
<1>2. CASE f.target # f.offset
  <2> DEFINE skip == f.target % BufSize
             t    == f.target - skip
             p    == [f EXCEPT !.target = t]
             h    == SeekToTarget(p)
  <2>1. skip \in 0 .. BufSize - 1 /\ t \in Nat /\ t + skip = f.target /\ t < f.offset
        /\ t + skip < Len(f.file)
    <3>1. skip \in 0 .. BufSize - 1 /\ skip <= f.target /\ t \in Nat
      BY ModRange
    <3> HIDE DEF skip
    <3> QED
      BY <1>0, <1>2, <3>1
  <2>2. g = ReadBlock(h, skip)
    BY <1>2 DEF FillKnown, Away
  <2> HIDE DEF skip, t
  <2>3. p.file = f.file /\ p.offset = f.offset /\ p.target = t /\ p.kpos = f.kpos
    BY DEF Typed
  <2>4. Typed(p)
    BY <2>1, <2>3 DEF Typed
  <2>5. h = [p EXCEPT !.offset = t, !.target = t, !.seen = TRUE, !.kpos = t] /\ Typed(h)
    <3> HIDE DEF p, h
    <3> DEFINE o  == IF p.offset = -1 THEN p.kpos ELSE p.offset
               t2 == IF p.target = -1 THEN o ELSE p.target
               k  == IF o = t2 THEN p.kpos ELSE t2
    <3>1. /\ h = [p EXCEPT !.offset = t2, !.target = t2, !.seen = TRUE, !.kpos = k]
          /\ Typed(h)
      BY <2>4, SeekToTargetDoes DEF h
    <3>2. t2 = t /\ k = t
      BY <1>0, <2>1, <2>3
    <3> HIDE DEF t2, k
    <3> QED
      BY <3>1, <3>2
  <2>6. /\ h.offset = t /\ h.target = t /\ h.kpos = t /\ h.file = f.file
        /\ h.mode = f.mode /\ h.pushed = f.pushed /\ h.pushbufp = f.pushbufp
        /\ h.error = f.error /\ h.active = f.active /\ h.seen
    <3>1. /\ p.mode = f.mode /\ p.pushed = f.pushed /\ p.pushbufp = f.pushbufp
          /\ p.error = f.error /\ p.active = f.active
      BY DEF Typed
    <3> HIDE DEF p, h
    <3> QED
      BY <2>3, <2>4, <2>5, <3>1 DEF Typed
  <2> HIDE DEF p, h
  <2>7. Buffered(h)
    BY <2>6 DEF Buffered
  <2>18. Typed(h) /\ h.offset \in Nat /\ skip \in 0 .. BufSize - 1
    BY <2>1, <2>5, <2>6
  <2>8. PICK n \in Nat : IsRead(g, h, skip, n)
    BY <2>2, <2>7, <2>18, ReadBlockDoes
  <2> HIDE DEF g
  <2>9. /\ Typed(g) /\ g.file = f.file /\ g.mode = f.mode /\ g.target = t
        /\ g.pushed = f.pushed /\ g.pushbufp = f.pushbufp /\ g.error = f.error
        /\ g.active = f.active /\ g.kpos = t + n /\ g.offset = t + n
        /\ t <= Len(f.file) => g.kpos <= Len(f.file)
        /\ g.eof => Len(f.file) <= t + skip
        /\ g.putl = 0 /\ (\A i \in 0 .. BufSize - 1 : i < n => g.buf[i] \in Byte)
        /\ ~g.eof => /\ g.getl = n /\ g.bufp = skip + 1 /\ skip + 1 <= n
                     /\ n = BufSize \/ g.kpos = Len(f.file)
    BY <2>6, <2>7, <2>8 DEF IsRead
  <2>15. /\ g.seen
         /\ ~g.eof => g.ret = f.file[t + skip + 1]
         /\ \A i \in 0 .. BufSize - 1 : i < n => /\ t + i < Len(f.file)
                                               /\ g.buf[i] = f.file[t + i + 1]
    BY <2>6, <2>7, <2>8 DEF IsRead
  <2>10. ~g.eof
    BY <1>0, <2>1, <2>9
  <2>11. /\ g.target + g.getl = g.kpos /\ g.offset = g.kpos
         /\ (f.kpos <= Len(f.file) => g.kpos <= Len(f.file))
         /\ 1 <= g.bufp /\ g.bufp <= g.getl
    BY <1>0, <2>1, <2>9, <2>10, SMTT(30)
  <2>12. g.target = f.target - (f.target % BufSize)
    <3>1. g.target = t
      BY <2>9
    <3> QED
      BY <3>1 DEF skip, t
  <2>13. \A i \in 0 .. BufSize - 1 : i < g.getl => g.buf[i] \in Byte
    BY <2>9, <2>10
  <2>16. Match(g, 0)
    BY <2>1, <2>9, <2>10, <2>15 DEF Match
  <2>17. /\ f.target < Len(g.file) /\ g.ret = g.file[f.target + 1]
         /\ g.target + g.bufp = f.target + 1
    <3>1. /\ g.target = t /\ g.bufp = skip + 1 /\ g.file = f.file
          /\ g.ret = f.file[t + skip + 1]
      BY <2>9, <2>10, <2>15
    <3>2. t + skip = f.target /\ t + (skip + 1) = f.target + 1 /\ f.target < Len(f.file)
      BY <1>0, <2>1
    <3> QED
      BY <3>1, <3>2
  <2>14. IsFilled(g, f)
    BY <1>2, <2>1, <2>9, <2>10, <2>11, <2>12, <2>13, <2>15, <2>16, <2>17 DEF IsFilled
  <2> QED
    BY <2>14 DEF g
<1> QED
  BY <1>1, <1>2

\* What a flush leaves alone whatever it does.
SameStream(g, f) ==
  /\ g.mode = f.mode /\ g.file = f.file /\ g.pushed = f.pushed
  /\ g.pushbufp = f.pushbufp /\ g.error = f.error /\ g.active = f.active

\* p is f after Prime(f): the target is where the program is.
IsPrimed(p, f) ==
  /\ Typed(p) /\ SameStream(p, f)
  /\ p.kpos = f.kpos /\ p.buf = f.buf /\ p.bufp = f.bufp /\ p.putl = f.putl
  /\ p.eof = f.eof /\ p.getl \in {0, f.getl}
  /\ p.target = -1 <=> p.offset = -1
  /\ p.target # -1 => /\ p.target <= p.offset /\ p.offset <= p.kpos
                      /\ ~p.mode.append => p.offset = p.kpos
  /\ Updates(p) => p.target # -1
  /\ Goal(p) = Goal(f) + f.bufp
  /\ f.mode.append => p.offset = f.offset

LEMMA PrimeDoes ==
  ASSUME NEW f, Typed(f), Known(f), f.bufp <= f.getl
  PROVE  IsPrimed(Prime(f), f)
<1> DEFINE t == IF f.target = -1 THEN -1 ELSE f.target + f.bufp
           l == IF f.target = -1 THEN 0 ELSE f.getl
           m == [f EXCEPT !.target = t, !.getl = l]
           p == Prime(f)
<1>0. /\ f.bufp \in Nat /\ f.getl \in 0 .. BufSize /\ f.kpos \in Nat /\ BufSize \in Nat \ {0}
      /\ f.target \in Nat \cup {-1} /\ f.offset \in Nat \cup {-1}
      /\ f.target = -1 => f.offset = -1 /\ f.getl = 0 /\ f.bufp = 0
      /\ f.target # -1 => /\ f.offset \in Nat /\ f.target + f.bufp <= f.offset
                          /\ f.offset <= f.kpos
                          /\ ~f.mode.append => f.offset = f.kpos
  BY StreamAssumption DEF Typed, Known
<1>1. /\ t \in Nat \cup {-1} /\ l \in 0 .. BufSize /\ l \in {0, f.getl}
      /\ t = -1 <=> f.offset = -1
      /\ t # -1 => t <= f.offset /\ f.offset <= f.kpos
      /\ (IF t = -1 THEN f.kpos ELSE t) = Goal(f) + f.bufp
  BY <1>0 DEF Goal
<1>2. p = IF Updates(f) THEN CheckOffset(m) ELSE m
  <2>1. CASE f.target = -1
    <3>1. f = [f EXCEPT !.target = f.target]
      BY DEF Typed
    <3>2. [f EXCEPT !.getl = 0] = m
      BY <2>1, <3>1 DEF Typed
    <3> HIDE DEF m
    <3> QED
      BY <2>1, <3>2 DEF Prime
  <2>2. CASE f.target # -1
    <3>1. [f EXCEPT !.target = f.target + f.bufp] = m
      BY <2>2 DEF Typed
    <3> HIDE DEF m
    <3> QED
      BY <2>2, <3>1 DEF Prime
  <2> QED
    BY <2>1, <2>2
<1> HIDE DEF t, l, p
<1>3. m.file = f.file
  BY DEF Typed
<1>4. Typed(m)
  BY <1>1, <1>3 DEF Typed
<1>5. /\ m.target = t /\ m.getl = l /\ m.offset = f.offset /\ SameStream(m, f)
      /\ m.kpos = f.kpos /\ m.buf = f.buf /\ m.bufp = f.bufp /\ m.putl = f.putl
      /\ m.eof = f.eof
  BY DEF Typed, SameStream
<1> HIDE DEF m
<1>6. CASE ~Updates(f)
  <2>1. p = m
    BY <1>2, <1>6
  <2>2. ~Updates(p)
    BY <1>5, <1>6, <2>1 DEF Updates, Buffered, SameStream
  <2>3. Goal(m) = Goal(f) + f.bufp
    BY <1>1, <1>5 DEF Goal
  <2>4. m.target # -1 => /\ m.target <= m.offset /\ m.offset <= m.kpos
                         /\ ~m.mode.append => m.offset = m.kpos
    BY <1>0, <1>1, <1>5 DEF SameStream
  <2>5. IsPrimed(m, f)
    BY <1>1, <1>4, <1>5, <2>1, <2>2, <2>3, <2>4 DEF IsPrimed
  <2> QED
    BY <2>1, <2>5 DEF p
<1>7. CASE Updates(f)
  <2> DEFINE o == IF m.offset = -1 THEN m.kpos ELSE m.offset
             u == IF m.target = -1 THEN o ELSE m.target
  <2>1. /\ p = [m EXCEPT !.offset = o, !.target = u, !.seen = TRUE]
        /\ o \in Nat /\ u \in Nat /\ Typed(p)
    BY <1>2, <1>4, <1>7, CheckDoes
  <2>2. ~f.mode.append
    BY <1>7 DEF Updates
  <2>3. o = f.kpos /\ u = Goal(f) + f.bufp /\ u <= f.kpos
    BY <1>0, <1>1, <1>5, <2>2
  <2> HIDE DEF o, u
  <2>4. /\ p.target = u /\ p.offset = o /\ p.getl = l /\ SameStream(p, f)
        /\ p.kpos = f.kpos /\ p.buf = f.buf /\ p.bufp = f.bufp /\ p.putl = f.putl
        /\ p.eof = f.eof
    <3>1. /\ p.target = u /\ p.offset = o /\ p.getl = m.getl /\ SameStream(p, m)
          /\ p.kpos = m.kpos /\ p.buf = m.buf /\ p.bufp = m.bufp /\ p.putl = m.putl
          /\ p.eof = m.eof
      BY <1>4, <2>1 DEF Typed, SameStream
    <3> QED
      BY <1>5, <3>1 DEF SameStream
  <2>5. Goal(p) = Goal(f) + f.bufp
    BY <2>1, <2>3, <2>4 DEF Goal
  <2>6. /\ p.target # -1 /\ p.offset # -1
        /\ p.target <= p.offset /\ p.offset <= p.kpos /\ p.offset = p.kpos
    BY <1>0, <2>1, <2>3, <2>4
  <2>7. IsPrimed(p, f)
    BY <1>1, <2>1, <2>2, <2>4, <2>5, <2>6 DEF IsPrimed
  <2> QED
    BY <2>7 DEF p
<1> QED
  BY <1>6, <1>7

\* How much of its block an update stream has behind it.
Skip(f) == IF Updates(f) THEN f.target % BufSize ELSE 0

\* q is p after Ready(p, Skip(p)): with room, and its block read around it.
IsReady(q, p) ==
  /\ Typed(q) /\ SameStream(q, p) /\ q.putl = BufSize /\ q.bufp = Skip(p)
  /\ Skip(p) = 0 => /\ q.kpos = p.kpos /\ q.buf = p.buf /\ q.getl = p.getl
                    /\ q.target = p.target /\ q.offset = p.offset /\ q.eof = p.eof
  /\ Skip(p) # 0 => /\ ~q.eof /\ q.bufp <= q.getl /\ q.target \in Nat
                    /\ q.offset = q.kpos /\ q.target + q.getl = q.kpos
                    /\ q.kpos <= Len(q.file) /\ q.target + q.bufp = p.target
                    /\ \A i \in 0 .. BufSize - 1 : i < q.getl => q.buf[i] \in Byte
                    /\ Match(q, 0) /\ q.seen

LEMMA ReadyDoes ==
  ASSUME NEW f, NEW p, IsPrimed(p, f), Buffered(p), p.kpos <= Len(p.file)
  PROVE  IsReady(Ready(p, Skip(p)), p) /\ Skip(p) \in 0 .. BufSize - 1
<1> DEFINE q == Ready(p, Skip(p))
<1>0. /\ Typed(p) /\ p.kpos \in Nat /\ p.offset \in Nat \cup {-1}
      /\ p.target \in Nat \cup {-1} /\ BufSize \in Nat \ {0} /\ Len(p.file) \in Nat
  BY StreamAssumption DEF IsPrimed, Typed
<1>1. Skip(p) \in 0 .. BufSize - 1 /\ (Skip(p) # 0 => Updates(p))
  <2>1. CASE Updates(p)
    <3>1. p.target \in Nat
      BY <1>0, <2>1 DEF IsPrimed
    <3>2. Skip(p) = p.target % BufSize
      BY <2>1 DEF Skip
    <3> QED
      BY <2>1, <3>1, <3>2, ModRange
  <2>2. CASE ~Updates(p)
    BY <1>0, <2>2 DEF Skip
  <2> QED
    BY <2>1, <2>2
<1>2. CASE Skip(p) = 0
  <2>1. q = [[p EXCEPT !.bufp = 0] EXCEPT !.putl = BufSize]
    BY <1>2 DEF Ready
  <2>2. q = [p EXCEPT !.bufp = 0, !.putl = BufSize]
    BY <2>1 DEF Typed
  <2> HIDE DEF q
  <2>3. /\ q.bufp = 0 /\ q.putl = BufSize /\ SameStream(q, p)
        /\ q.kpos = p.kpos /\ q.buf = p.buf /\ q.getl = p.getl
        /\ q.target = p.target /\ q.offset = p.offset /\ q.eof = p.eof
    BY <1>0, <2>2 DEF Typed, SameStream
  <2>4. q.file = p.file /\ 0 \in 0 .. BufSize
    BY <1>0, <2>3 DEF SameStream
  <2>5. Typed(q)
    BY <1>0, <2>2, <2>4 DEF Typed
  <2>6. IsReady(q, p)
    BY <1>2, <2>3, <2>5 DEF IsReady
  <2> QED
    BY <1>1, <2>6 DEF q
<1>3. CASE Skip(p) # 0
  <2> DEFINE k == Skip(p)
             t == p.target - k
             a == [p EXCEPT !.target = t]
             b == [a EXCEPT !.eof = FALSE]
             c == [p EXCEPT !.target = t, !.eof = FALSE, !.seen = TRUE]
             h == FillKnown(c)
             i == [h EXCEPT !.eof = FALSE]
  <2>0. ~p.mode.append /\ p.target \in Nat /\ k = p.target % BufSize
    BY <1>0, <1>1, <1>3 DEF IsPrimed, Updates, Skip
  <2>1. /\ k \in 1 .. BufSize - 1 /\ t \in Nat /\ t % BufSize = 0 /\ t + k = p.target
        /\ t < p.target
    <3>1. k \in 0 .. BufSize - 1 /\ k <= p.target /\ t \in Nat /\ t % BufSize = 0
      BY <2>0, ModRange
    <3> HIDE DEF k
    <3>2. k # 0
      BY <1>3 DEF k
    <3>3. p.target \in Nat
      BY <2>0
    <3>4. k \in 0 .. BufSize - 1 /\ t \in Nat /\ t % BufSize = 0
      BY <3>1
    <3>5. k \in Nat /\ k # 0
      BY <1>0, <3>2, <3>4
    <3>6. t + k = p.target /\ t < p.target
      BY <3>3, <3>5
    <3> HIDE DEF t
    <3> QED
      BY <1>0, <3>4, <3>5, <3>6
  <2>2. /\ p.offset = p.kpos /\ p.target <= p.kpos
        /\ p.target <= Len(p.file)
    BY <1>0, <2>0 DEF IsPrimed
  <2> HIDE DEF k, t
  <2>3. Fillbuf(a) = h
    <3>1. b = [p EXCEPT !.target = t, !.eof = FALSE]
      BY DEF Typed
    <3>2. b.offset = p.offset /\ b.target = t /\ b.file = p.file
      BY <3>1 DEF Typed
    <3>3. Typed(b)
      BY <1>0, <2>1, <3>1, <3>2, ZenonT(60) DEF Typed
    <3> HIDE DEF b
    <3> DEFINE o == IF b.offset = -1 THEN b.kpos ELSE b.offset
               u == IF b.target = -1 THEN o ELSE b.target
    <3>4. CheckOffset(b) = [b EXCEPT !.offset = o, !.target = u, !.seen = TRUE]
      BY <3>3, CheckDoes
    <3>5. o = b.offset /\ u = b.target
      BY <1>0, <2>1, <2>2, <3>2
    <3> HIDE DEF o, u
    <3>6. CheckOffset(b) = [b EXCEPT !.seen = TRUE]
      BY <3>3, <3>4, <3>5 DEF Typed
    <3>7. CheckOffset(b) = c
      BY <1>0, <3>1, <3>6 DEF Typed
    <3>8. Fillbuf(a) = FillKnown(CheckOffset(b))
      BY DEF Fillbuf, b
    <3> HIDE DEF c
    <3> QED
      BY <3>7, <3>8
  <2>4. /\ c.file = p.file /\ c.target = t /\ c.offset = p.kpos /\ c.kpos = p.kpos
        /\ c.mode = p.mode /\ SameStream(c, p) /\ c.seen
    BY <1>0, <2>2 DEF Typed, SameStream
  <2>5. Typed(c)
    BY <1>0, <2>1, <2>4, ZenonT(60) DEF Typed
  <2> HIDE DEF c
  <2>6. Buffered(c) /\ c.target \in Nat /\ c.offset = c.kpos
        /\ c.target <= c.offset /\ c.target # c.offset /\ c.target < Len(c.file)
        /\ c.kpos <= Len(c.file)
    <3>1. Buffered(c)
      BY <2>4 DEF Buffered
    <3> QED
      BY <1>0, <2>1, <2>2, <2>4, <3>1
  <2>7. IsFilled(h, c)
    BY <2>5, <2>6, FillKnownDoes
  <2> HIDE DEF h
  <2>8. /\ Typed(h) /\ SameStream(h, p) /\ ~h.eof /\ h.target = t
        /\ h.offset = h.kpos /\ h.target + h.getl = h.kpos /\ h.kpos <= Len(h.file)
        /\ h.getl = BufSize \/ h.kpos = Len(h.file)
        /\ \A j \in 0 .. BufSize - 1 : j < h.getl => h.buf[j] \in Byte
        /\ Match(h, 0) /\ h.seen
    <3>1. /\ Typed(h) /\ SameStream(h, c) /\ ~h.eof /\ Match(h, 0) /\ h.seen
          /\ h.target = c.target - (c.target % BufSize)
          /\ h.offset = h.kpos /\ h.target + h.getl = h.kpos /\ h.kpos <= Len(h.file)
          /\ h.getl = BufSize \/ h.kpos = Len(h.file)
          /\ \A j \in 0 .. BufSize - 1 : j < h.getl => h.buf[j] \in Byte
      BY <2>4, <2>6, <2>7 DEF IsFilled, SameStream
    <3>2. c.target - (c.target % BufSize) = t
      BY <2>1, <2>4
    <3> QED
      BY <2>4, <3>1, <3>2 DEF SameStream
  <2>9. h.getl >= k /\ h.getl \in 0 .. BufSize
    <3>1. h.getl \in 0 .. BufSize /\ h.file = p.file
      BY <2>8 DEF Typed, SameStream
    <3> QED
      BY <1>0, <2>1, <2>2, <2>8, <3>1
  <2>10. i.getl = h.getl
    BY <2>8 DEF Typed
  <2>11. q = [[i EXCEPT !.bufp = k] EXCEPT !.putl = BufSize]
    <3>1. q = [Around([Fillbuf([p EXCEPT !.target = p.target - k]) EXCEPT !.eof = FALSE], k)
               EXCEPT !.putl = BufSize]
      BY <1>3 DEF Ready, k
    <3>2. q = [Around(i, k) EXCEPT !.putl = BufSize]
      BY <2>3, <3>1 DEF t
    <3> HIDE DEF i
    <3>3. Around(i, k) = [i EXCEPT !.bufp = k]
      BY <2>9, <2>10 DEF Around
    <3> QED
      BY <3>2, <3>3
  <2>12. q = [h EXCEPT !.eof = FALSE, !.bufp = k, !.putl = BufSize]
    BY <2>8, <2>11 DEF Typed
  <2> HIDE DEF q, i
  <2>13. /\ q.bufp = k /\ q.putl = BufSize /\ SameStream(q, h) /\ q.eof = FALSE
         /\ q.kpos = h.kpos /\ q.buf = h.buf /\ q.getl = h.getl
         /\ q.target = h.target /\ q.offset = h.offset /\ q.file = h.file
        /\ q.seen = h.seen
    BY <2>8, <2>12 DEF Typed, SameStream
  <2>14. k \in 0 .. BufSize
    BY <1>0, <2>1
  <2>15. Typed(q)
    BY <2>8, <2>12, <2>13, <2>14 DEF Typed
  <2>16. SameStream(q, p)
    BY <2>8, <2>13 DEF SameStream
  <2>17. q.target + q.bufp = p.target
    BY <2>1, <2>8, <2>13
  <2>18. /\ ~q.eof /\ q.bufp <= q.getl /\ q.target \in Nat
         /\ q.offset = q.kpos /\ q.target + q.getl = q.kpos /\ q.kpos <= Len(q.file)
         /\ \A j \in 0 .. BufSize - 1 : j < q.getl => q.buf[j] \in Byte
    BY <2>1, <2>8, <2>9, <2>13
  <2>20. Match(q, 0) /\ q.seen
    BY <2>8, <2>13 DEF Match
  <2>19. IsReady(q, p)
    BY <1>3, <2>13, <2>15, <2>16, <2>17, <2>18, <2>20 DEF IsReady, k
  <2> QED
    BY <1>1, <2>19 DEF q
<1> QED
  BY <1>2, <1>3

-----------------------------------------------------------------------------
(* What holds of a stream between two calls.                               *)

\* At the end of the file the buffer stands for nothing.
Ended(f) ==
  /\ ~f.pushed /\ Len(f.file) <= f.kpos /\ f.bufp = 0 /\ f.getl = 0
  /\ Buffered(f) => f.target = f.offset /\ (f.target # -1 => f.offset = f.kpos)

\* Nothing after the data of the buffer is used but by output.
Even(f) ==
  Buffered(f) => /\ f.bufp <= f.getl
                 /\ f.mode.append /\ (f.putl > 0 \/ f.active) => f.bufp = 0 /\ f.getl = 0

\* The kernel stands where the library thinks, an appending stream included.
Standing(f) == Buffered(f) /\ f.target # -1 => f.offset = f.kpos

\* The stream has room for output, which an active one hides.
Roomy(f) == Buffered(f) => f.putl > 0 \/ f.active

\* A stream that is not writing has nothing in its buffer.
Rested(f) == Buffered(f) /\ ~(f.putl > 0 \/ f.active) => f.bufp = 0 /\ f.getl = 0

Reads(f) ==
  /\ Safe(f) /\ Even(f) /\ Standing(f)
  /\ f.eof => Ended(f)
  /\ f.pushed => f.bufp = f.getl /\ f.pushbufp <= f.getl

Writes(f) == Safe(f) /\ f.mode.write /\ ~f.pushed /\ ~f.eof

\* What holds in each direction: nothing was done or a seek, input, output, and
\* output that was flushed.
Sound(f, d) ==
  \/ Stuck(f)
  \/ d = "none" /\ Reads(f) /\ ~f.pushed /\ (f.mode.write => Rested(f))
  \/ d = "in" /\ Reads(f)
  \/ d = "sync" /\ Writes(f) /\ Roomy(f) /\ Even(f)
  \/ d = "out" /\ Writes(f) /\ Roomy(f)

-----------------------------------------------------------------------------
(* Fields that do not matter.                                              *)

\* All that matters of g is as in f.
Alike(g, f) ==
  /\ Typed(g) /\ g.file = f.file /\ g.kpos = f.kpos /\ g.buf = f.buf /\ g.bufp = f.bufp
  /\ g.getl = f.getl /\ g.putl = f.putl /\ g.target = f.target /\ g.offset = f.offset
  /\ g.pushed = f.pushed /\ g.pushbufp = f.pushbufp /\ g.eof = f.eof
  /\ g.error = f.error /\ g.active = f.active /\ g.mode = f.mode

LEMMA AlikeKeeps ==
  ASSUME NEW f, NEW g, Alike(g, f)
  PROVE  /\ Shape(f) => Shape(g)
         /\ Safe(f) => Safe(g)
         /\ Stuck(f) => Stuck(g)
         /\ Even(f) => Even(g)
         /\ Standing(f) => Standing(g)
         /\ Roomy(f) => Roomy(g)
         /\ Rested(f) => Rested(g)
         /\ Ended(f) => Ended(g)
         /\ Reads(f) => Reads(g)
         /\ Writes(f) => Writes(g)
         /\ Goal(g) = Goal(f)
<1>1. Shape(f) => Shape(g)
  BY DEF Alike, Shape, Buffered, Linebuf
<1>2. Safe(f) => Safe(g)
  <2>1. Clean(f) => Clean(g)
    BY DEF Alike, Clean
  <2>2. Known(f) => Known(g)
    BY DEF Alike, Known
  <2> QED
    BY <1>1, <2>1, <2>2 DEF Alike, Safe, Buffered
<1>3. Stuck(f) => Stuck(g)
  BY <1>1 DEF Alike, Stuck, Buffered
<1>4. /\ Even(f) => Even(g)
      /\ Standing(f) => Standing(g)
      /\ Roomy(f) => Roomy(g)
      /\ Rested(f) => Rested(g)
      /\ Goal(g) = Goal(f)
  BY DEF Alike, Even, Standing, Roomy, Rested, Buffered, Goal
<1>5. Ended(f) => Ended(g)
  BY DEF Alike, Ended, Buffered
<1>6. Reads(f) => Reads(g)
  BY <1>2, <1>4, <1>5 DEF Alike, Reads
<1>7. Writes(f) => Writes(g)
  BY <1>2 DEF Alike, Writes
<1> QED
  BY <1>1, <1>2, <1>3, <1>4, <1>5, <1>6, <1>7

LEMMA RetAlike ==
  ASSUME NEW f, Typed(f), NEW v
  PROVE  Alike([f EXCEPT !.ret = v], f)
<1> DEFINE g == [f EXCEPT !.ret = v]
<1>1. /\ g.file = f.file /\ g.kpos = f.kpos /\ g.buf = f.buf /\ g.bufp = f.bufp
      /\ g.getl = f.getl /\ g.putl = f.putl /\ g.target = f.target
      /\ g.offset = f.offset /\ g.pushed = f.pushed /\ g.pushbufp = f.pushbufp
      /\ g.eof = f.eof /\ g.error = f.error /\ g.active = f.active /\ g.mode = f.mode
  BY DEF Typed
<1>2. Typed(g)
  BY <1>1 DEF Typed
<1> HIDE DEF g
<1>3. Alike(g, f)
  BY <1>1, <1>2 DEF Alike
<1> QED
  BY <1>3 DEF g

LEMMA SeenAlike ==
  ASSUME NEW f, Typed(f)
  PROVE  Alike([f EXCEPT !.seen = TRUE], f)
<1> DEFINE g == [f EXCEPT !.seen = TRUE]
<1>1. /\ g.file = f.file /\ g.kpos = f.kpos /\ g.buf = f.buf /\ g.bufp = f.bufp
      /\ g.getl = f.getl /\ g.putl = f.putl /\ g.target = f.target
      /\ g.offset = f.offset /\ g.pushed = f.pushed /\ g.pushbufp = f.pushbufp
      /\ g.eof = f.eof /\ g.error = f.error /\ g.active = f.active /\ g.mode = f.mode
  BY DEF Typed
<1>2. Typed(g)
  BY <1>1 DEF Typed
<1> HIDE DEF g
<1>3. Alike(g, f)
  BY <1>1, <1>2 DEF Alike
<1> QED
  BY <1>3 DEF g

\* The library asks the kernel where it is.
IsChecked(g, f) ==
  /\ Typed(g) /\ SameStream(g, f) /\ g.kpos = f.kpos /\ g.buf = f.buf /\ g.bufp = f.bufp
  /\ g.getl = f.getl /\ g.putl = f.putl /\ g.eof = f.eof
  /\ g.target \in Nat /\ g.offset \in Nat
  /\ (f.target = -1 => f.offset = -1) => Goal(g) = Goal(f)
  /\ f.offset # -1 => g.offset = f.offset
  /\ f.offset = -1 => g.offset = f.kpos
  /\ f.target # -1 => g.target = f.target
  /\ f.target = -1 => g.target = g.offset
  /\ f.offset = f.target => g.offset = g.target
  /\ Safe(f) => Safe(g)
  /\ Stuck(f) => Stuck(g)
  /\ Reads(f) => Reads(g)
  /\ Writes(f) => Writes(g)
  /\ Even(f) => Even(g)
  /\ Roomy(f) => Roomy(g)
  /\ Rested(f) => Rested(g)

LEMMA CheckKeeps ==
  ASSUME NEW f, Typed(f), NEW g, g = CheckOffset(f)
  PROVE  IsChecked(g, f)
<1> DEFINE o == IF f.offset = -1 THEN f.kpos ELSE f.offset
           t == IF f.target = -1 THEN o ELSE f.target
<1>1. /\ g = [f EXCEPT !.offset = o, !.target = t, !.seen = TRUE]
      /\ o \in Nat /\ t \in Nat /\ Typed(g)
  BY CheckDoes
<1>2. /\ f.offset # -1 => o = f.offset
      /\ f.offset = -1 => o = f.kpos
      /\ f.target # -1 => t = f.target
      /\ f.target = -1 => t = o
  OBVIOUS
<1> HIDE DEF o, t
<1>3. /\ g.file = f.file /\ g.kpos = f.kpos /\ g.buf = f.buf /\ g.bufp = f.bufp
      /\ g.getl = f.getl /\ g.putl = f.putl /\ g.target = t /\ g.offset = o
      /\ g.pushed = f.pushed /\ g.pushbufp = f.pushbufp /\ g.eof = f.eof
      /\ g.error = f.error /\ g.active = f.active /\ g.mode = f.mode
  BY <1>1 DEF Typed
<1>4. (Buffered(g) <=> Buffered(f)) /\ (Linebuf(g) <=> Linebuf(f)) /\ SameStream(g, f)
  BY <1>3 DEF Buffered, Linebuf, SameStream
<1>5. Shape(f) => Shape(g)
  BY <1>1, <1>3, <1>4 DEF Shape
<1>6. Clean(f) => Clean(g)
  BY <1>3 DEF Clean
<1>7. Known(f) => Known(g)
  <2>1. f.kpos \in Nat /\ f.getl \in Nat
    BY StreamAssumption DEF Typed
  <2> QED
    BY <1>1, <1>2, <1>3, <2>1 DEF Known
<1>8. Safe(f) => Safe(g)
  BY <1>3, <1>4, <1>5, <1>6, <1>7 DEF Safe
<1>9. Stuck(f) => Stuck(g)
  <2> SUFFICES ASSUME Stuck(f) PROVE Stuck(g)
    OBVIOUS
  <2>1. Buffered(f) /\ f.mode.append => Len(f.file) = MaxFile
    BY DEF Stuck
  <2>2. ASSUME Buffered(f), ~f.mode.append
        PROVE  /\ g.target # -1 /\ MaxFile <= g.kpos
               /\ g.offset # g.target => MaxFile <= g.target
               /\ g.getl > 0 => MaxFile <= g.target + g.getl
    <3>1. /\ f.target # -1 /\ MaxFile <= f.kpos
          /\ f.offset # f.target => MaxFile <= f.target
          /\ f.getl > 0 => MaxFile <= f.target + f.getl
      BY <2>2 DEF Stuck
    <3>2. g.target = f.target /\ f.target \in Nat
      BY <1>1, <1>2, <1>3, <3>1
    <3>3. g.offset # g.target => f.offset # f.target
      BY <1>2, <1>3, <3>2
    <3> QED
      BY <1>3, <3>1, <3>2, <3>3
  <2> QED
    BY <1>3, <1>4, <1>5, <2>1, <2>2 DEF Stuck
<1>10. Even(f) => Even(g)
  BY <1>3, <1>4 DEF Even
<1>11. Roomy(f) => Roomy(g)
  BY <1>3, <1>4 DEF Roomy
<1>12. Rested(f) => Rested(g)
  BY <1>3, <1>4 DEF Rested
<1>13. f.offset = f.target => g.offset = g.target
  BY <1>2, <1>3
<1>14. Reads(f) => Reads(g)
  <2> SUFFICES ASSUME Reads(f) PROVE Reads(g)
    OBVIOUS
  <2>1. Safe(g) /\ Even(g)
    BY <1>8, <1>10 DEF Reads
  <2>2. Standing(g)
    <3>1. ASSUME Buffered(f) PROVE g.offset = g.kpos
      <4>1. Known(f) /\ (f.target # -1 => f.offset = f.kpos)
        BY <3>1 DEF Reads, Safe, Standing
      <4> QED
        BY <1>2, <1>3, <4>1 DEF Known
    <3> QED
      BY <1>4, <3>1 DEF Standing
  <2>3. ASSUME g.eof PROVE Ended(g)
    <3>1. Ended(f)
      BY <1>3, <2>3 DEF Reads
    <3>2. Buffered(f) => g.target = g.offset /\ g.offset = g.kpos
      BY <1>2, <1>3, <3>1 DEF Ended
    <3> QED
      BY <1>3, <1>4, <3>1, <3>2 DEF Ended
  <2> QED
    BY <1>3, <2>1, <2>2, <2>3 DEF Reads
<1>15. Writes(f) => Writes(g)
  BY <1>3, <1>8 DEF Writes
<1>16. (f.target = -1 => f.offset = -1) => Goal(g) = Goal(f)
  <2>1. Goal(g) = t
    BY <1>1, <1>3 DEF Goal
  <2> QED
    BY <1>2, <2>1 DEF Goal
<1> QED
  BY <1>1, <1>2, <1>3, <1>4, <1>8, <1>9, <1>10, <1>11, <1>12, <1>13, <1>14, <1>15, <1>16
     DEF IsChecked

-----------------------------------------------------------------------------
(* A flush of a stream that was not writing.                               *)

\* q is f with its target where the program is and with room, and n
\* bytes into the block read around it, if n is not zero.
IsBlock(q, f, n) ==
  /\ Typed(q) /\ SameStream(q, f) /\ q.putl = BufSize
  /\ q.bufp = n /\ n \in 0 .. BufSize - 1
  /\ q.eof => f.eof
  /\ Goal(q) + q.bufp = Goal(f) + f.bufp
  /\ q.kpos <= Len(q.file)
  /\ q.target = -1 <=> q.offset = -1
  /\ q.target # -1 => /\ q.target <= q.offset /\ q.offset <= q.kpos
                      /\ ~q.mode.append => q.offset = q.kpos
  /\ n = 0 => q.kpos = f.kpos /\ q.getl \in {0, f.getl}
  /\ n # 0 => /\ ~q.mode.append /\ ~q.eof /\ q.bufp <= q.getl /\ q.target \in Nat
              /\ q.target + q.getl = q.kpos
              /\ \A i \in 0 .. BufSize - 1 : i < q.getl => q.buf[i] \in Byte
              /\ Match(q, 0) /\ q.seen
  /\ f.mode.append => n = 0 /\ q.offset = f.offset

LEMMA BlockDoes ==
  ASSUME NEW f, Safe(f), f.mode.write, Buffered(f), ~f.pushed, f.bufp <= f.getl,
         NEW p, p = Prime(f)
  PROVE  IsBlock(Ready(p, Skip(p)), f, Skip(p))
<1> DEFINE q  == Ready(p, Skip(p))
           n  == Skip(p)
<1>0. Typed(f) /\ Known(f) /\ BufSize \in Nat \ {0} /\ f.kpos <= Len(f.file)
  BY StreamAssumption DEF Safe, Shape, Known
<1>1. IsPrimed(p, f)
  BY <1>0, PrimeDoes
<1>2. p.mode = f.mode /\ p.kpos = f.kpos /\ p.file = f.file /\ p.eof = f.eof
      /\ Typed(p) /\ p.getl \in {0, f.getl} /\ SameStream(p, f)
      /\ Goal(p) = Goal(f) + f.bufp
  BY <1>1 DEF IsPrimed, SameStream
<1>3. Buffered(p)
  BY <1>2 DEF Buffered
<1>4. IsReady(q, p) /\ Skip(p) \in 0 .. BufSize - 1
  BY <1>0, <1>1, <1>2, <1>3, ReadyDoes
<1> HIDE DEF q
<1>5. SameStream(q, f) /\ Typed(q) /\ q.putl = BufSize /\ q.bufp \in 0 .. BufSize - 1
      /\ q.bufp = Skip(p)
  BY <1>2, <1>4 DEF IsReady, SameStream
<1>6. Goal(f) \in Nat /\ f.bufp \in Nat
  BY <1>0 DEF Goal, Typed
<1>7. CASE Skip(p) = 0
  <2>1. /\ q.kpos = p.kpos /\ q.getl = p.getl
        /\ q.target = p.target /\ q.offset = p.offset /\ q.eof = p.eof
    BY <1>4, <1>7 DEF IsReady
  <2>2. Goal(q) = Goal(p) /\ Goal(q) + q.bufp = Goal(f) + f.bufp
    BY <1>2, <1>5, <1>6, <1>7, <2>1 DEF Goal
  <2>3. q.file = f.file /\ q.mode = f.mode
    BY <1>5 DEF SameStream
  <2>4. q.kpos <= Len(q.file)
    BY <1>0, <1>2, <2>1, <2>3
  <2>5. /\ q.target = -1 <=> q.offset = -1
        /\ q.target # -1 => /\ q.target <= q.offset /\ q.offset <= q.kpos
                            /\ ~q.mode.append => q.offset = q.kpos
        /\ f.mode.append => q.offset = f.offset
    BY <1>1, <1>2, <2>1, <2>3 DEF IsPrimed
  <2>6. n = 0 /\ q.bufp = 0 /\ q.kpos = f.kpos /\ q.getl \in {0, f.getl}
    BY <1>2, <1>5, <1>7, <2>1
  <2>7. q.eof => f.eof
    BY <1>2, <2>1
  <2> HIDE DEF n
  <2>8. IsBlock(q, f, n)
    BY <1>5, <2>2, <2>4, <2>5, <2>6, <2>7 DEF IsBlock
  <2> QED
    BY <2>8 DEF q, n
<1>8. CASE Skip(p) # 0
  <2>1. /\ ~q.eof /\ q.bufp <= q.getl /\ q.target \in Nat
        /\ q.offset = q.kpos /\ q.target + q.getl = q.kpos
        /\ q.kpos <= Len(q.file) /\ q.target + q.bufp = p.target
        /\ \A i \in 0 .. BufSize - 1 : i < q.getl => q.buf[i] \in Byte
    BY <1>4, <1>8 DEF IsReady
  <2>9. Match(q, 0) /\ q.seen
    BY <1>4, <1>8 DEF IsReady
  <2>2. n # 0 /\ Updates(p)
    BY <1>0, <1>4, <1>8 DEF Skip
  <2>3. ~f.mode.append /\ p.target # -1
    BY <1>1, <1>2, <2>2 DEF Updates, IsPrimed
  <2>4. Goal(q) + q.bufp = Goal(f) + f.bufp
    <3>1. q.target # -1
      BY <2>1
    <3>2. Goal(q) = q.target /\ Goal(p) = p.target
      BY <2>3, <3>1 DEF Goal
    <3> QED
      BY <1>2, <2>1, <3>2
  <2>5. ~q.mode.append
    BY <1>5, <2>3 DEF SameStream
  <2>8. n # 0 /\ q.bufp = n /\ n \in 0 .. BufSize - 1
    BY <1>4, <1>5, <1>8
  <2>6. q.getl \in Nat /\ q.target # -1 /\ q.offset # -1 /\ q.target <= q.offset
        /\ q.offset <= q.kpos
    BY <1>0, <1>5, <2>1, SMTT(30) DEF Typed
  <2> HIDE DEF n
  <2>7. IsBlock(q, f, n)
    BY <1>5, <2>1, <2>2, <2>3, <2>4, <2>5, <2>6, <2>8, <2>9 DEF IsBlock
  <2> QED
    BY <2>7 DEF q, n
<1> QED
  BY <1>7, <1>8

\* Such a stream is safe once it does not keep what it read before.
LEMMA BlockSafe ==
  ASSUME NEW f, Safe(f), f.mode.write, Buffered(f), ~f.pushed,
         NEW n, NEW q, IsBlock(q, f, n), n = 0 => q.getl = 0
  PROVE  Safe(q)
<1>0. Typed(q) /\ BufSize \in Nat \ {0} /\ q.getl \in 0 .. BufSize /\ q.bufp \in 0 .. BufSize
      /\ q.mode = f.mode /\ ~q.error /\ ~q.pushed /\ q.active = f.active
      /\ (f.active => Linebuf(f))
  BY StreamAssumption DEF IsBlock, SameStream, Typed, Safe, Shape
<1>1. Buffered(q) /\ (Linebuf(q) <=> Linebuf(f)) /\ q.mode.write
  BY <1>0 DEF Buffered, Linebuf
<1>2. Shape(q)
  BY <1>0, <1>1 DEF Shape
<1>3. Clean(q)
  <2>1. ASSUME NEW i \in 0 .. BufSize - 1, i < q.bufp \/ i < q.getl
        PROVE  q.buf[i] \in Byte
    <3>1. CASE n # 0
      <4>1. i < q.getl
        BY <1>0, <2>1, <3>1 DEF IsBlock
      <4> QED
        BY <3>1, <4>1 DEF IsBlock
    <3>2. CASE n = 0
      <4>1. q.bufp = 0 /\ q.getl = 0
        BY <3>2 DEF IsBlock
      <4> QED
        BY <2>1, <4>1
    <3> QED
      BY <3>1, <3>2
  <2> QED
    BY <1>0, <2>1 DEF Clean
<1>4. Known(q)
  <2>1. /\ q.target = -1 <=> q.offset = -1
        /\ q.target # -1 => /\ q.target <= q.offset /\ q.offset <= q.kpos
                            /\ ~q.mode.append => q.offset = q.kpos
        /\ q.kpos <= Len(q.file)
    BY DEF IsBlock
  <2>2. CASE n # 0
    <3>1. q.target \in Nat /\ q.target + q.getl = q.kpos /\ ~q.mode.append
      BY <2>2 DEF IsBlock
    <3>2. q.target # -1 /\ q.target + q.getl <= q.offset
      BY <1>0, <2>1, <3>1
    <3> QED
      BY <1>1, <2>1, <3>2 DEF Known
  <2>3. CASE n = 0
    <3>1. q.getl = 0 /\ q.target \in Nat \cup {-1}
      BY <1>0, <2>3 DEF Typed
    <3>2. q.target # -1 => q.target + q.getl <= q.offset
      BY <2>1, <3>1
    <3> QED
      BY <1>1, <2>1, <3>1, <3>2 DEF Known
  <2> QED
    BY <2>2, <2>3
<1> QED
  BY <1>0, <1>1, <1>2, <1>3, <1>4 DEF Safe

\* A stream without a buffer has nothing to prime or to make ready.
LEMMA BareReady ==
  ASSUME NEW f, Shape(f), ~Buffered(f)
  PROVE  Prime(f) = f /\ Skip(f) = 0 /\ Ready(f, Skip(f)) = f
<1>1. Typed(f) /\ f.bufp = 0 /\ f.getl = 0
  BY DEF Shape
<1>2. ~Updates(f)
  BY DEF Updates
<1>3. [f EXCEPT !.getl = 0] = f /\ [f EXCEPT !.target = f.target + f.bufp] = f
  BY <1>1 DEF Typed
<1>4. Prime(f) = f
  BY <1>1, <1>2, <1>3 DEF Prime
<1> QED
  BY <1>2, <1>4 DEF Skip, Ready

\* g is f after an empty buffer was flushed.
IsEmptied(g, f) ==
  /\ Typed(g) /\ SameStream(g, f)
  /\ ~Buffered(f) => Alike(g, f)
  /\ Buffered(f) => g.putl = BufSize
  /\ Buffered(f) /\ ~f.eof =>
       /\ Safe(g) /\ ~g.eof /\ g.bufp <= g.getl /\ Match(g, 0) /\ Touched(g)
       /\ g.bufp < BufSize
       /\ Goal(g) + g.bufp = Goal(f) + f.bufp
       /\ f.mode.append => /\ g.bufp = 0 /\ g.getl = 0 /\ g.offset = f.offset
                           /\ g.kpos = f.kpos

LEMMA EmptyFlush ==
  ASSUME NEW f, Safe(f), f.mode.write, ~f.pushed, f.putl = 0,
         Buffered(f) => f.bufp <= f.getl, NEW g, g = Flushbuf(f, EOF)
  PROVE  IsEmptied(g, f)
<1> DEFINE p  == Prime(f)
           n  == Skip(p)
           q  == Ready(p, n)
           tw == n > 0
<1>0. Typed(f) /\ Shape(f) /\ BufSize \in Nat \ {0} /\ 0 \in 0 .. BufSize /\ f.error = FALSE
  BY StreamAssumption DEF Safe, Shape, Typed
<1>1. g = Settled(q, tw, 0)
  <2>1. g = FlushPrimed(p, EOF)
    BY DEF Flushbuf
  <2> HIDE DEF p
  <2>2. FlushPrimed(p, EOF) = FlushReady(q, EOF, tw)
    BY DEF FlushPrimed, Skip
  <2> HIDE DEF q, tw
  <2> QED
    BY <2>1, <2>2 DEF FlushReady
<1>2. CASE ~Buffered(f)
  <2>1. q = f /\ n = 0
    BY <1>0, <1>2, BareReady
  <2>2. tw \in BOOLEAN /\ ~tw
    BY <2>1
  <2> HIDE DEF q, n, tw
  <2>3. IsSettled(g, f, tw, 0)
    BY <1>0, <1>1, <2>1, <2>2, SettledDoes
  <2>4. /\ g.mode = f.mode /\ g.putl = f.putl /\ g.active = f.active
        /\ g.pushed = f.pushed /\ g.eof = f.eof /\ g.error = f.error
        /\ g.file = f.file /\ g.kpos = f.kpos /\ g.offset = f.offset
        /\ g.buf = f.buf /\ g.pushbufp = f.pushbufp
    BY <1>0, <2>3, SettledFrame
  <2>5. f.bufp = 0 /\ f.getl = 0 /\ f.putl = 0 /\ f.target \in Nat \cup {-1}
    BY <1>0, <1>2 DEF Shape, Typed
  <2>6. Typed(g) /\ g.target = f.target /\ g.getl = 0 /\ g.bufp = 0
    BY <2>2, <2>3, <2>5 DEF IsSettled
  <2>7. Alike(g, f)
    BY <2>4, <2>5, <2>6 DEF Alike
  <2>8. SameStream(g, f)
    BY <2>4 DEF SameStream
  <2> QED
    BY <1>2, <2>6, <2>7, <2>8 DEF IsEmptied
<1>3. CASE Buffered(f)
  <2>1. IsBlock(q, f, n)
    BY <1>3, BlockDoes
  <2>2. tw \in BOOLEAN /\ (tw <=> n # 0)
    <3>1. n \in Nat
      BY <1>0, <2>1 DEF IsBlock
    <3> HIDE DEF n
    <3> QED
      BY <3>1
  <2> HIDE DEF p, n, q, tw
  <2>3. Typed(q) /\ SameStream(q, f) /\ q.putl = BufSize /\ q.error = FALSE
    BY <1>0, <2>1 DEF IsBlock, SameStream
  <2>4. IsSettled(g, q, tw, 0)
    BY <1>0, <1>1, <2>2, <2>3, SettledDoes
  <2>5. /\ g.mode = q.mode /\ g.putl = q.putl /\ g.active = q.active
        /\ g.pushed = q.pushed /\ g.eof = q.eof /\ g.error = q.error
        /\ g.file = q.file /\ g.kpos = q.kpos /\ g.offset = q.offset
        /\ g.buf = q.buf /\ g.pushbufp = q.pushbufp
    BY <2>3, <2>4, SettledFrame
  <2>8. g.seen = q.seen
    BY <2>3, <2>4 DEF IsSettled, Typed
  <2>6. Typed(g) /\ SameStream(g, f) /\ g.putl = BufSize
    BY <2>3, <2>4, <2>5 DEF IsSettled, SameStream
  <2>7. ASSUME ~f.eof
        PROVE  /\ Safe(g) /\ ~g.eof /\ g.bufp <= g.getl /\ Match(g, 0) /\ Touched(g)
               /\ g.bufp < BufSize
               /\ Goal(g) + g.bufp = Goal(f) + f.bufp
               /\ f.mode.append => /\ g.bufp = 0 /\ g.getl = 0 /\ g.offset = f.offset
                                   /\ g.kpos = f.kpos
    <3>1. ~q.eof
      BY <2>1, <2>7 DEF IsBlock
    <3>2. /\ g.bufp = q.bufp /\ g.target = q.target
          /\ n # 0 => g.getl = q.getl
          /\ n = 0 => g.getl = 0
      <4>1. q.target \in Nat \cup {-1}
        BY <2>3 DEF Typed
      <4>2. g.bufp = q.bufp
        BY <2>3, <2>4, <3>1 DEF IsSettled
      <4>3. CASE tw
        BY <2>2, <2>4, <4>2, <4>3 DEF IsSettled
      <4>4. CASE ~tw
        <5>1. g.getl = 0 /\ g.target = IF q.target = -1 THEN -1 ELSE q.target + 0
          BY <2>4, <4>4 DEF IsSettled
        <5>2. n = 0
          BY <2>2, <4>4
        <5> QED
          BY <4>1, <4>2, <5>1, <5>2
      <4> QED
        BY <4>3, <4>4
    <3>3. Goal(g) = Goal(q)
      BY <2>5, <3>2 DEF Goal
    <3>4. IsBlock(g, f, n)
      <4>1. n # 0 => Match(g, 0) /\ g.seen
        <5>1. HAVE n # 0
        <5>2. Match(q, 0) /\ q.seen
          BY <2>1, <5>1 DEF IsBlock
        <5>3. g.seen
          BY <2>8, <5>2
        <5>4. Match(g, 0)
          BY <2>5, <3>2, <5>1, <5>2 DEF Match
        <5> QED
          BY <5>3, <5>4
      <4> QED
        BY <2>1, <2>5, <2>6, <3>2, <3>3, <4>1 DEF IsBlock
    <3>5. Safe(g)
      BY <1>3, <3>2, <3>4, BlockSafe
    <3>6. g.bufp <= g.getl
      <4>1. CASE n = 0
        BY <3>2, <3>4, <4>1 DEF IsBlock
      <4>2. CASE n # 0
        BY <3>4, <4>2 DEF IsBlock
      <4> QED
        BY <4>1, <4>2
    <3>7. ASSUME f.mode.append
          PROVE  g.bufp = 0 /\ g.getl = 0 /\ g.offset = f.offset /\ g.kpos = f.kpos
      <4>1. n = 0
        BY <3>4, <3>7 DEF IsBlock
      <4> QED
        BY <3>2, <3>4, <3>7, <4>1 DEF IsBlock
    <3>8. ~g.eof /\ Goal(g) + g.bufp = Goal(f) + f.bufp
      BY <2>5, <3>1, <3>4 DEF IsBlock
    <3>9. Match(g, 0) /\ Touched(g)
      <4>1. CASE n # 0
        BY <3>4, <4>1 DEF IsBlock, Touched
      <4>2. CASE n = 0
        <5>1. g.getl = 0
          BY <3>2, <4>2
        <5> QED
          BY <5>1 DEF Match, Touched
      <4> QED
        BY <4>1, <4>2
    <3>10. g.bufp < BufSize
      <4>1. g.bufp \in 0 .. BufSize - 1
        BY <3>4 DEF IsBlock
      <4> QED
        BY <1>0, <4>1
    <3> QED
      BY <3>5, <3>6, <3>7, <3>8, <3>9, <3>10
  <2> QED
    BY <1>3, <2>6, <2>7 DEF IsEmptied
<1> QED
  BY <1>2, <1>3

-----------------------------------------------------------------------------
(* A flush of a stream.                                                    *)

\* g is x but for the room, which may be hidden, and for the value returned.
IsHidden(g, x) ==
  /\ Typed(g) /\ g.file = x.file /\ g.kpos = x.kpos /\ g.buf = x.buf /\ g.bufp = x.bufp
  /\ g.getl = x.getl /\ g.target = x.target /\ g.offset = x.offset
  /\ g.pushed = x.pushed /\ g.pushbufp = x.pushbufp /\ g.eof = x.eof
  /\ g.error = x.error /\ g.mode = x.mode

LEMMA HiddenKeeps ==
  ASSUME NEW x, NEW g, IsHidden(g, x), x.mode.write, g.active => Linebuf(x),
         ~Buffered(x) => g.putl = 0
  PROVE  /\ Safe(x) => Safe(g)
         /\ Stuck(x) => Stuck(g)
         /\ Writes(x) => Writes(g)
         /\ Standing(x) => Standing(g)
         /\ Goal(g) = Goal(x) /\ (Buffered(g) <=> Buffered(x))
         /\ (Linebuf(g) <=> Linebuf(x))
<1>1. (Buffered(g) <=> Buffered(x)) /\ (Linebuf(g) <=> Linebuf(x)) /\ Goal(g) = Goal(x)
  BY DEF IsHidden, Buffered, Linebuf, Goal
<1>2. Shape(x) => Shape(g)
  BY <1>1 DEF IsHidden, Shape
<1>3. (Clean(x) => Clean(g)) /\ (Known(x) => Known(g)) /\ (Standing(x) => Standing(g))
  BY <1>1 DEF IsHidden, Clean, Known, Standing
<1>4. Safe(x) => Safe(g)
  BY <1>1, <1>2, <1>3 DEF IsHidden, Safe
<1>5. Stuck(x) => Stuck(g)
  BY <1>1, <1>2 DEF IsHidden, Stuck
<1>6. Writes(x) => Writes(g)
  BY <1>4 DEF IsHidden, Writes
<1> QED
  BY <1>1, <1>3, <1>4, <1>5, <1>6

\* Flushing, an active stream shows its room ...
LEMMA ShownDoes ==
  ASSUME NEW f, Shape(f),
         NEW h, h = [f EXCEPT !.putl = IF f.active THEN BufSize ELSE f.putl]
  PROVE  /\ IsHidden(h, f) /\ h.active = f.active
         /\ h.putl = IF f.active THEN BufSize ELSE f.putl
         /\ Buffered(f) => h.putl \in {0, BufSize}
         /\ ~Buffered(f) => h.putl = 0
<1> DEFINE n == IF f.active THEN BufSize ELSE f.putl
<1>1. n \in {0, BufSize} /\ Typed(f)
  BY DEF Shape, Typed
<1>2. ~Buffered(f) => n = 0
  BY DEF Shape, Buffered, Linebuf
<1> HIDE DEF n
<1>3. h = [f EXCEPT !.putl = n]
  BY DEF n
<1>4. /\ h.file = f.file /\ h.kpos = f.kpos /\ h.buf = f.buf /\ h.bufp = f.bufp
      /\ h.getl = f.getl /\ h.target = f.target /\ h.offset = f.offset
      /\ h.pushed = f.pushed /\ h.pushbufp = f.pushbufp /\ h.eof = f.eof
      /\ h.error = f.error /\ h.mode = f.mode /\ h.active = f.active /\ h.putl = n
  BY <1>1, <1>3 DEF Typed
<1>5. Typed(h)
  BY <1>1, <1>3, <1>4 DEF Typed
<1>6. IsHidden(h, f)
  BY <1>4, <1>5 DEF IsHidden
<1> QED
  BY <1>1, <1>2, <1>4, <1>6 DEF n

\* ... and hides it again at the end.
LEMMA FlushedDoes ==
  ASSUME NEW x, Typed(x), NEW v, NEW g, g = Flushed(x, v)
  PROVE  /\ IsHidden(g, x)
         /\ g.ret = IF x.error THEN EOF ELSE v
         /\ g.seen = x.seen
         /\ Linebuf(x) => g.putl = 0 /\ g.active
         /\ ~Linebuf(x) => g.putl = x.putl /\ g.active = x.active
<1> DEFINE n == IF Linebuf(x) THEN 0 ELSE x.putl
           a == x.active \/ Linebuf(x)
           r == IF x.error THEN EOF ELSE v
<1>1. n \in {0, BufSize} /\ a \in BOOLEAN
  BY DEF Typed
<1>2. /\ Linebuf(x) => n = 0 /\ a
      /\ ~Linebuf(x) => n = x.putl /\ a = x.active
  BY DEF Typed
<1>3. g = [x EXCEPT !.ret = r, !.putl = n, !.active = a]
  BY DEF Flushed
<1>9. r = IF x.error THEN EOF ELSE v
  OBVIOUS
<1> HIDE DEF n, a, r
<1>4. /\ g.file = x.file /\ g.kpos = x.kpos /\ g.buf = x.buf /\ g.bufp = x.bufp
      /\ g.getl = x.getl /\ g.target = x.target /\ g.offset = x.offset
      /\ g.pushed = x.pushed /\ g.pushbufp = x.pushbufp /\ g.eof = x.eof
      /\ g.error = x.error /\ g.mode = x.mode /\ g.active = a /\ g.putl = n
      /\ g.ret = r /\ g.seen = x.seen
  BY <1>3 DEF Typed
<1>5. Typed(g)
  BY <1>1, <1>3, <1>4 DEF Typed
<1>6. IsHidden(g, x)
  BY <1>4, <1>5 DEF IsHidden
<1> QED
  BY <1>2, <1>4, <1>6, <1>9

\* g is f after Flshfp(f, EOF).
IsFlush(g, f) ==
  /\ Typed(g) /\ g.mode = f.mode /\ Len(f.file) <= Len(g.file)
  /\ ~Buffered(f) \/ ~Roomy(f) => g.file = f.file
  /\ \/ Stuck(g) /\ g.ret = EOF /\ ~Even(f)
     \/ /\ Writes(g) /\ Roomy(g) /\ Even(g) /\ g.ret = 0
        /\ Match(g, 0) /\ Touched(g) /\ (Bare(f) => Bare(g))
        /\ Buffered(f) => g.bufp < BufSize
        /\ Roomy(f) => g.bufp = 0
        /\ Even(f) /\ Standing(f) => Standing(g)
        /\ Even(f) \/ ~f.mode.append => Goal(g) + g.bufp = Goal(f) + f.bufp
        /\ Roomy(f) /\ f.bufp > 0 =>
             (IF f.mode.append THEN Len(f.file) ELSE Goal(f)) + f.bufp <= Len(g.file)
        /\ Roomy(f) /\ f.bufp > 0 /\ ~f.mode.append => g.offset # -1

\* The part of it that knows whether the buffer has room.
LEMMA FlushbufDoes ==
  ASSUME NEW h, Writes(h), Buffered(h) /\ h.putl = 0 => h.bufp <= h.getl,
         NEW x, x = Flushbuf(h, EOF)
  PROVE  /\ Typed(x) /\ x.mode = h.mode /\ x.active = h.active
         /\ Len(h.file) <= Len(x.file) /\ (~Buffered(h) => x.putl = h.putl)
         /\ h.putl = 0 => x.file = h.file
         /\ Buffered(h) => x.putl = BufSize
         /\ \/ /\ Stuck(x) /\ h.putl # 0 /\ h.bufp > 0
               /\ ~h.mode.append => h.bufp > h.getl
            \/ /\ Writes(x)
               /\ Buffered(h) =>
                    /\ x.bufp <= x.getl /\ Match(x, 0) /\ Touched(x)
                    /\ x.bufp < BufSize
                    /\ h.mode.append => x.bufp = 0 /\ x.getl = 0
                    /\ h.putl # 0 => x.bufp = 0
                    /\ h.putl = 0 \/ ~h.mode.append \/ h.bufp = 0 =>
                         Goal(x) + x.bufp = Goal(h) + h.bufp
                    /\ h.mode.append /\ (h.putl = 0 \/ h.bufp = 0) =>
                         x.offset = h.offset /\ x.kpos = h.kpos
                    /\ h.putl # 0 /\ h.bufp > 0 =>
                         (IF h.mode.append THEN Len(h.file) ELSE Goal(h)) + h.bufp
                           <= Len(x.file)
                    /\ h.putl # 0 /\ h.bufp > 0 /\ ~h.mode.append => x.offset # -1
               /\ ~Buffered(h) => Alike(x, h)
<1>0. /\ Safe(h) /\ h.mode.write /\ ~h.pushed /\ ~h.eof /\ Typed(h) /\ ~h.error
      /\ Shape(h) /\ BufSize \in Nat \ {0} /\ h.putl \in {0, BufSize}
      /\ h.bufp \in 0 .. BufSize /\ h.getl \in 0 .. BufSize /\ Len(h.file) \in Nat
  BY StreamAssumption DEF Writes, Safe, Shape, Typed
<1>1. CASE h.putl = 0
  <2>1. IsEmptied(x, h)
    BY <1>0, <1>1, EmptyFlush
  <2>2. /\ Typed(x) /\ x.mode = h.mode /\ x.active = h.active /\ x.file = h.file
        /\ x.pushed = h.pushed
    BY <2>1 DEF IsEmptied, SameStream
  <2>3. CASE Buffered(h)
    <3>1. /\ x.putl = BufSize /\ Safe(x) /\ ~x.eof /\ x.bufp <= x.getl
          /\ Match(x, 0) /\ Touched(x) /\ x.bufp < BufSize
          /\ Goal(x) + x.bufp = Goal(h) + h.bufp
          /\ h.mode.append => /\ x.bufp = 0 /\ x.getl = 0 /\ x.offset = h.offset
                              /\ x.kpos = h.kpos
      BY <1>0, <2>1, <2>3 DEF IsEmptied
    <3>2. Writes(x)
      BY <1>0, <2>2, <3>1 DEF Writes
    <3> QED
      BY <1>0, <1>1, <2>2, <2>3, <3>1, <3>2
  <2>4. CASE ~Buffered(h)
    <3>1. Alike(x, h)
      BY <2>1, <2>4 DEF IsEmptied
    <3>2. Writes(x) /\ x.putl = h.putl
      BY <3>1, AlikeKeeps DEF Alike
    <3> QED
      BY <1>0, <2>2, <2>4, <3>1, <3>2
  <2> QED
    BY <2>3, <2>4
<1>2. CASE h.putl # 0
  <2>1. h.putl = BufSize /\ h.putl > 0 /\ Buffered(h)
    BY <1>0, <1>2 DEF Shape
  <2> DEFINE tw == FALSE
  <2>2. x = WriteOut(h, EOF, tw)
    BY <2>1 DEF Flushbuf
  <2>3. tw \in BOOLEAN /\ ~tw
    OBVIOUS
  <2> HIDE DEF tw
  <2>4. /\ Safe(x) \/ Stuck(x)
        /\ x.mode = h.mode /\ x.putl = h.putl /\ x.active = h.active
        /\ ~x.pushed /\ ~x.eof /\ Len(h.file) <= Len(x.file)
        /\ x.getl = 0
        /\ x.error => h.bufp > 0 /\ (~h.mode.append => h.bufp > h.getl)
        /\ h.bufp = 0 => /\ x.file = h.file /\ x.kpos = h.kpos
                         /\ x.target = h.target /\ x.offset = h.offset
        /\ ~x.error =>
             /\ x.bufp = 0
             /\ h.mode.append => Len(h.file) + h.bufp <= Len(x.file)
             /\ ~h.mode.append /\ h.bufp > 0 => /\ Goal(h) + h.bufp <= Len(x.file)
                                                /\ Goal(h) + h.getl <= x.offset
             /\ ~h.mode.append => Goal(x) = Goal(h) + h.bufp
    BY <1>0, <2>1, <2>2, <2>3, WriteOutDoes
  <2>5. Typed(x)
    BY <2>4 DEF Safe, Stuck, Shape
  <2>6. CASE Stuck(x)
    <3>1. x.error
      BY <2>6 DEF Stuck
    <3> QED
      BY <1>2, <2>1, <2>4, <2>5, <2>6, <3>1
  <2>7. CASE Safe(x)
    <3>1. ~x.error /\ Writes(x)
      BY <1>0, <2>4, <2>7 DEF Safe, Writes
    <3>2. x.bufp = 0 /\ x.bufp <= x.getl /\ Match(x, 0) /\ Touched(x) /\ x.bufp < BufSize
      <4>1. x.bufp = 0 /\ x.bufp <= x.getl /\ Match(x, 0) /\ Touched(x)
        BY <2>4, <3>1 DEF Match, Touched
      <4> QED
        BY <1>0, <4>1
    <3>3. h.bufp = 0 => Goal(x) = Goal(h)
      BY <2>4 DEF Goal
    <3>4. Goal(h) \in Nat /\ Goal(x) \in Nat
      BY <1>0, <2>5 DEF Goal, Typed
    <3>5. ~h.mode.append \/ h.bufp = 0 => Goal(x) + x.bufp = Goal(h) + h.bufp
      BY <2>4, <3>1, <3>2, <3>3, <3>4
    <3>6. h.bufp > 0 => (IF h.mode.append THEN Len(h.file) ELSE Goal(h)) + h.bufp
                          <= Len(x.file)
      BY <2>4, <3>1
    <3>7. h.mode.append /\ h.bufp = 0 => x.offset = h.offset /\ x.kpos = h.kpos
      BY <2>4
    <3>8. h.bufp > 0 /\ ~h.mode.append => x.offset # -1
      BY <1>0, <2>4, <3>1, <3>4
    <3> QED
      BY <1>2, <2>1, <2>4, <2>5, <3>1, <3>2, <3>5, <3>6, <3>7, <3>8
  <2> QED
    BY <2>4, <2>6, <2>7
<1> QED
  BY <1>1, <1>2

LEMMA FlushDoes ==
  ASSUME NEW f, Writes(f), Roomy(f) \/ Even(f), NEW g, g = Flshfp(f, EOF)
  PROVE  IsFlush(g, f)
<1> DEFINE u == [f EXCEPT !.seen = TRUE]
           h == [u EXCEPT !.putl = IF u.active THEN BufSize ELSE u.putl]
           x == Flushbuf(h, EOF)
<1>0. Safe(f) /\ Typed(f) /\ Shape(f) /\ f.error = FALSE /\ f.pushed = FALSE
  BY DEF Writes, Safe, Shape, Typed
<1>1. g = Flushed(x, 0)
  <2>1. Unpush(f) = f
    BY <1>0 DEF Unpush
  <2>2. g = FlushOrPut(u, EOF)
    BY <1>0, <2>1 DEF Flshfp
  <2> HIDE DEF u
  <2> QED
    BY <2>2 DEF FlushOrPut
<1>2. Alike(u, f)
  BY <1>0, SeenAlike
<1> HIDE DEF u
<1>3. Writes(u) /\ Shape(u) /\ Goal(u) = Goal(f)
  BY <1>0, <1>2, AlikeKeeps
<1>4. /\ IsHidden(h, u) /\ h.active = u.active
      /\ h.putl = IF u.active THEN BufSize ELSE u.putl
      /\ Buffered(u) => h.putl \in {0, BufSize}
      /\ ~Buffered(u) => h.putl = 0
  BY <1>3, ShownDoes
<1> HIDE DEF h
<1>5. u.mode.write /\ (u.active => Linebuf(u))
  BY <1>3 DEF Writes, Shape
<1>6. Writes(h) /\ Goal(h) = Goal(u) /\ (Buffered(h) <=> Buffered(u))
      /\ (Linebuf(h) <=> Linebuf(u)) /\ (Standing(u) => Standing(h))
  BY <1>3, <1>4, <1>5, HiddenKeeps
<1>7. /\ h.file = f.file /\ h.kpos = f.kpos /\ h.bufp = f.bufp /\ h.getl = f.getl
      /\ h.offset = f.offset /\ h.target = f.target /\ h.mode = f.mode /\ Goal(h) = Goal(f)
      /\ u.active = f.active /\ u.putl = f.putl
  BY <1>2, <1>3, <1>4, <1>6 DEF Alike, IsHidden
<1>8. (Buffered(h) <=> Buffered(f)) /\ (Linebuf(h) <=> Linebuf(f))
  BY <1>7 DEF Buffered, Linebuf
<1>9. BufSize \in Nat \ {0} /\ f.putl \in {0, BufSize}
  BY <1>0, StreamAssumption DEF Typed
<1>10. Buffered(f) => (h.putl = 0 <=> ~Roomy(f))
  BY <1>4, <1>7, <1>9 DEF Roomy
<1>11. Buffered(h) /\ h.putl = 0 => h.bufp <= h.getl
  BY <1>7, <1>8, <1>10 DEF Even
<1>12. /\ Typed(x) /\ x.mode = h.mode /\ x.active = h.active
       /\ Len(h.file) <= Len(x.file) /\ (~Buffered(h) => x.putl = h.putl)
       /\ h.putl = 0 => x.file = h.file
       /\ Buffered(h) => x.putl = BufSize
       /\ \/ /\ Stuck(x) /\ h.putl # 0 /\ h.bufp > 0
             /\ ~h.mode.append => h.bufp > h.getl
          \/ /\ Writes(x)
             /\ Buffered(h) =>
                  /\ x.bufp <= x.getl /\ Match(x, 0) /\ Touched(x)
                  /\ x.bufp < BufSize
                  /\ h.mode.append => x.bufp = 0 /\ x.getl = 0
                  /\ h.putl # 0 => x.bufp = 0
                  /\ h.putl = 0 \/ ~h.mode.append \/ h.bufp = 0 =>
                       Goal(x) + x.bufp = Goal(h) + h.bufp
                  /\ h.mode.append /\ (h.putl = 0 \/ h.bufp = 0) =>
                       x.offset = h.offset /\ x.kpos = h.kpos
                  /\ h.putl # 0 /\ h.bufp > 0 =>
                       (IF h.mode.append THEN Len(h.file) ELSE Goal(h)) + h.bufp
                         <= Len(x.file)
                  /\ h.putl # 0 /\ h.bufp > 0 /\ ~h.mode.append => x.offset # -1
             /\ ~Buffered(h) => Alike(x, h)
  BY <1>6, <1>11, FlushbufDoes
<1> HIDE DEF x
<1>13. /\ IsHidden(g, x)
       /\ g.ret = IF x.error THEN EOF ELSE 0
       /\ g.seen = x.seen
       /\ Linebuf(x) => g.putl = 0 /\ g.active
       /\ ~Linebuf(x) => g.putl = x.putl /\ g.active = x.active
  BY <1>1, <1>12, FlushedDoes
<1>14. (Buffered(x) <=> Buffered(f)) /\ (Linebuf(x) <=> Linebuf(f)) /\ x.mode = f.mode
       /\ x.mode.write
  BY <1>5, <1>7, <1>8, <1>12 DEF Buffered, Linebuf, Writes, Stuck
<1>15. (g.active => Linebuf(x)) /\ (~Buffered(x) => g.putl = 0)
  <2>1. h.active => Linebuf(h)
    BY <1>4, <1>5, <1>6
  <2>2. ~Buffered(x) => ~Linebuf(x)
    BY DEF Buffered, Linebuf
  <2>3. ~Buffered(x) => x.putl = 0
    BY <1>4, <1>6, <1>8, <1>12, <1>14
  <2> QED
    BY <1>8, <1>12, <1>13, <1>14, <2>1, <2>2, <2>3
<1>16. /\ Stuck(x) => Stuck(g)
       /\ Writes(x) => Writes(g)
       /\ Standing(x) => Standing(g)
       /\ Goal(g) = Goal(x) /\ (Buffered(g) <=> Buffered(x))
       /\ (Linebuf(g) <=> Linebuf(x))
  BY <1>13, <1>14, <1>15, HiddenKeeps
<1>17. Typed(g) /\ g.mode = f.mode /\ Len(f.file) <= Len(g.file) /\ g.bufp = x.bufp
       /\ g.getl = x.getl /\ g.file = x.file /\ g.target = x.target /\ g.buf = x.buf
       /\ g.seen = x.seen
  BY <1>7, <1>12, <1>13, <1>14 DEF IsHidden
<1>18. CASE Stuck(x) /\ h.putl # 0 /\ h.bufp > 0 /\ (~h.mode.append => h.bufp > h.getl)
  <2>1. x.error /\ g.ret = EOF
    BY <1>13, <1>18 DEF Stuck
  <2>2. Buffered(f)
    BY <1>4, <1>6, <1>8, <1>18
  <2>3. f.bufp > 0 /\ (~f.mode.append => f.bufp > f.getl) /\ (f.putl > 0 \/ f.active)
    BY <1>7, <1>10, <1>18, <2>2 DEF Roomy
  <2>5. Roomy(f)
    BY <2>3 DEF Roomy
  <2>4. ~Even(f)
    <3>1. f.bufp \in Nat /\ f.getl \in Nat
      BY <1>0, <1>9 DEF Typed
    <3> QED
      BY <2>2, <2>3, <3>1 DEF Even
  <2> QED
    BY <1>16, <1>17, <1>18, <2>1, <2>2, <2>4, <2>5 DEF IsFlush
<1>19. CASE Writes(x) /\ Buffered(f)
  <2>0. ~x.error /\ g.ret = 0 /\ Writes(g)
    BY <1>13, <1>16, <1>19 DEF Writes, Safe
  <2>1. /\ x.bufp <= x.getl /\ Match(x, 0) /\ Touched(x) /\ x.bufp < BufSize
        /\ ~Roomy(f) => x.file = f.file
        /\ f.mode.append => x.bufp = 0 /\ x.getl = 0
        /\ Roomy(f) => x.bufp = 0
        /\ ~Roomy(f) \/ ~f.mode.append \/ f.bufp = 0 =>
             Goal(x) + x.bufp = Goal(f) + f.bufp
        /\ f.mode.append /\ (~Roomy(f) \/ f.bufp = 0) =>
             x.offset = f.offset /\ x.kpos = f.kpos
        /\ Roomy(f) /\ f.bufp > 0 =>
             (IF f.mode.append THEN Len(f.file) ELSE Goal(f)) + f.bufp <= Len(x.file)
        /\ Roomy(f) /\ f.bufp > 0 /\ ~f.mode.append => x.offset # -1
    <3>1. ~Stuck(x)
      BY <2>0 DEF Stuck
    <3> QED
      BY <1>7, <1>8, <1>10, <1>12, <1>19, <3>1
  <2>2. Even(f) /\ f.mode.append => ~Roomy(f) \/ f.bufp = 0
    BY <1>19 DEF Even, Roomy
  <2>3. Roomy(g)
    <3>1. x.putl = BufSize
      BY <1>8, <1>12, <1>19
    <3>2. x.putl > 0
      BY <1>9, <3>1
    <3> QED
      BY <1>13, <3>2 DEF Roomy
  <2>4. Even(g)
    BY <1>14, <1>17, <2>1 DEF Even
  <2>5. ASSUME Even(f), Standing(f) PROVE Standing(g)
    <3>1. Known(x) /\ Known(f)
      BY <1>0, <1>14, <1>19 DEF Writes, Safe
    <3>2. Standing(x)
      <4>1. CASE f.mode.append
        <5>1. x.offset = f.offset /\ x.kpos = f.kpos
          BY <2>1, <2>2, <2>5, <4>1
        <5> QED
          BY <1>19, <2>5, <3>1, <5>1 DEF Standing, Known
      <4>2. CASE ~f.mode.append
        BY <1>14, <3>1, <4>2 DEF Standing, Known
      <4> QED
        BY <4>1, <4>2
    <3> QED
      BY <1>16, <3>2
  <2>6. Even(f) \/ ~f.mode.append => Goal(g) + g.bufp = Goal(f) + f.bufp
    BY <1>16, <1>17, <2>1, <2>2
  <2>7. Match(g, 0) /\ Touched(g)
    BY <1>17, <2>1 DEF Match, Touched
  <2>8. Bare(g)
    BY <1>14, <1>16, <1>19 DEF Bare
  <2> QED
    BY <1>13, <1>17, <1>19, <2>0, <2>1, <2>3, <2>4, <2>5, <2>6, <2>7, <2>8 DEF IsFlush, IsHidden
<1>20. CASE Writes(x) /\ ~Buffered(f)
  <2>0. ~x.error /\ g.ret = 0 /\ Writes(g) /\ ~Buffered(g)
    BY <1>13, <1>14, <1>16, <1>20 DEF Writes, Safe
  <2>1. Alike(x, h)
    <3>1. ~Stuck(x)
      BY <2>0 DEF Stuck
    <3> QED
      BY <1>8, <1>12, <1>20, <3>1
  <2>2. Goal(x) = Goal(f) /\ x.bufp = 0 /\ f.bufp = 0
    <3>1. f.bufp = 0
      BY <1>0, <1>20 DEF Shape
    <3> QED
      BY <1>7, <2>1, <3>1 DEF Alike, Goal
  <2>3. Roomy(g) /\ Even(g) /\ Standing(g)
    BY <2>0 DEF Roomy, Even, Standing
  <2>4. Goal(g) + g.bufp = Goal(f) + f.bufp /\ g.bufp = 0 /\ ~(f.bufp > 0)
    BY <1>16, <1>17, <2>2
  <2>5. g.file = f.file /\ g.getl = 0
    <3>1. h.getl = 0
      BY <1>0, <1>7, <1>20 DEF Shape
    <3> QED
      BY <1>7, <1>17, <2>1, <3>1 DEF Alike
  <2>6. Match(g, 0) /\ Touched(g)
    BY <2>5 DEF Match, Touched
  <2>7. Bare(f) => Bare(g)
    <3>1. g.target = f.target /\ g.offset = f.offset /\ g.kpos = f.kpos /\ g.eof = f.eof
      BY <1>2, <1>4, <1>7, <1>13, <2>1 DEF Alike, IsHidden
    <3> QED
      BY <1>17, <1>20, <2>5, <3>1 DEF Bare
  <2> QED
    BY <1>17, <1>20, <2>0, <2>3, <2>4, <2>5, <2>6, <2>7 DEF IsFlush
<1> QED
  BY <1>12, <1>18, <1>19, <1>20

\* A stream that met an error is not flushed.
LEMMA FlushError ==
  ASSUME NEW f, Typed(f), f.error, NEW c, NEW g, g = Flshfp(f, c)
  PROVE  Alike(g, f) /\ g.ret = EOF
<1>1. g = [f EXCEPT !.ret = EOF]
  BY DEF Flshfp
<1>2. g.ret = EOF
  BY <1>1 DEF Typed
<1> QED
  BY <1>1, <1>2, RetAlike

\* A pushed back character is forgotten.
LEMMA UnpushDoes ==
  ASSUME NEW f, Reads(f), NEW g, g = Unpush(f)
  PROVE  /\ Reads(g) /\ ~g.pushed /\ g.mode = f.mode /\ g.file = f.file
         /\ Goal(g) = Goal(f) /\ g.error = f.error /\ g.putl = f.putl
         /\ g.active = f.active /\ g.eof = f.eof
         /\ ~f.pushed => g = f
         /\ f.pushed => g.bufp = f.pushbufp
<1>0. Typed(f) /\ BufSize \in Nat \ {0}
  BY StreamAssumption DEF Reads, Safe, Shape
<1>1. CASE ~f.pushed
  <2>1. g = f
    BY <1>1 DEF Unpush
  <2> QED
    BY <1>1, <2>1
<1>2. CASE f.pushed
  <2>1. g = [f EXCEPT !.bufp = f.pushbufp, !.pushed = FALSE]
    BY <1>2 DEF Unpush
  <2>2. /\ g.file = f.file /\ g.kpos = f.kpos /\ g.buf = f.buf /\ g.bufp = f.pushbufp
        /\ g.getl = f.getl /\ g.putl = f.putl /\ g.target = f.target
        /\ g.offset = f.offset /\ ~g.pushed /\ g.pushbufp = f.pushbufp
        /\ g.eof = f.eof /\ g.error = f.error /\ g.active = f.active /\ g.mode = f.mode
    BY <1>0, <2>1 DEF Typed
  <2>3. Typed(g)
    BY <1>0, <2>1, <2>2 DEF Typed
  <2>4. (Buffered(g) <=> Buffered(f)) /\ (Linebuf(g) <=> Linebuf(f)) /\ Goal(g) = Goal(f)
    BY <2>2 DEF Buffered, Linebuf, Goal
  <2>5. Shape(g)
    BY <2>2, <2>3, <2>4 DEF Shape, Reads, Safe
  <2>6. f.bufp = f.getl /\ f.pushbufp <= f.getl /\ Safe(f) /\ ~f.eof
    BY <1>2 DEF Reads, Ended
  <2>7. f.mode.write => Clean(g)
    BY <1>2, <2>2, <2>6 DEF Clean, Safe
  <2>8. Buffered(f) => Known(g)
    BY <2>2, <2>6 DEF Known, Safe
  <2>9. Safe(g)
    BY <2>2, <2>4, <2>5, <2>6, <2>7, <2>8 DEF Safe
  <2>10. Standing(g)
    BY <2>2, <2>4 DEF Standing, Reads
  <2>11. Even(g)
    <3>1. f.pushbufp \in Nat
      BY <1>0 DEF Typed
    <3> QED
      BY <2>2, <2>4, <2>6, <3>1 DEF Even, Reads
  <2>12. Reads(g)
    BY <2>2, <2>6, <2>9, <2>10, <2>11 DEF Reads
  <2> QED
    BY <1>2, <2>2, <2>4, <2>12
<1> QED
  BY <1>1, <1>2

LEMMA FlushUnpushed ==
  ASSUME NEW f, Reads(f), NEW c
  PROVE  Flshfp(f, c) = Flshfp(Unpush(f), c)
<1> DEFINE g == Unpush(f)
<1>1. ~f.error /\ ~g.error /\ ~g.pushed
  BY UnpushDoes DEF Reads, Safe
<1>2. Unpush(g) = g
  <2> HIDE DEF g
  <2> QED
    BY <1>1 DEF Unpush
<1>3. Flshfp(f, c) = FlushOrPut([g EXCEPT !.seen = TRUE], c)
  BY <1>1 DEF Flshfp
<1>4. Flshfp(g, c) = FlushOrPut([g EXCEPT !.seen = TRUE], c)
  <2> HIDE DEF g
  <2> QED
    BY <1>1, <1>2 DEF Flshfp
<1> QED
  BY <1>3, <1>4

\* At the end of the file a flush writes nothing.
LEMMA EofFlush ==
  ASSUME NEW f, Reads(f), f.eof, f.mode.write, NEW g, g = Flshfp(f, EOF)
  PROVE  /\ Typed(g) /\ g.file = f.file /\ g.mode = f.mode /\ ~g.error /\ ~g.pushed
         /\ g.ret = 0 /\ g.pushbufp = f.pushbufp
<1> DEFINE u == [f EXCEPT !.seen = TRUE]
           h == [u EXCEPT !.putl = IF u.active THEN BufSize ELSE u.putl]
           x == Flushbuf(h, EOF)
<1>0. /\ Safe(f) /\ Typed(f) /\ Shape(f) /\ f.error = FALSE /\ f.pushed = FALSE /\ Ended(f)
      /\ f.bufp = 0 /\ f.getl = 0 /\ BufSize \in Nat \ {0}
  BY StreamAssumption DEF Reads, Safe, Shape, Typed, Ended
<1>1. g = Flushed(x, 0)
  <2>1. Unpush(f) = f
    BY <1>0 DEF Unpush
  <2>2. g = FlushOrPut(u, EOF)
    BY <1>0, <2>1 DEF Flshfp
  <2> HIDE DEF u
  <2> QED
    BY <2>2 DEF FlushOrPut
<1>2. Alike(u, f)
  BY <1>0, SeenAlike
<1> HIDE DEF u
<1>3. Safe(u) /\ Shape(u)
  BY <1>0, <1>2, AlikeKeeps
<1>4. /\ IsHidden(h, u) /\ h.active = u.active
      /\ Buffered(u) => h.putl \in {0, BufSize}
      /\ ~Buffered(u) => h.putl = 0
  BY <1>3, ShownDoes
<1> HIDE DEF h
<1>5. u.mode.write /\ (u.active => Linebuf(u)) /\ u.mode = f.mode
  BY <1>2, <1>3 DEF Alike, Shape
<1>6. Safe(h) /\ (Buffered(h) <=> Buffered(u))
  BY <1>3, <1>4, <1>5, HiddenKeeps
<1>7. /\ h.file = f.file /\ h.bufp = 0 /\ h.getl = 0 /\ h.mode = f.mode
      /\ h.pushed = FALSE /\ h.error = FALSE /\ h.pushbufp = f.pushbufp /\ Typed(h)
  BY <1>0, <1>2, <1>4 DEF Alike, IsHidden
<1>8. /\ Typed(x) /\ x.file = f.file /\ x.mode = f.mode /\ x.error = FALSE
      /\ x.pushed = FALSE /\ x.pushbufp = f.pushbufp
  <2>1. CASE h.putl = 0
    <3>1. IsEmptied(x, h)
      BY <1>5, <1>6, <1>7, <2>1, EmptyFlush
    <3> QED
      BY <1>7, <3>1 DEF IsEmptied, SameStream
  <2>2. CASE h.putl # 0
    <3> DEFINE tw == FALSE
    <3>1. x = WriteOut(h, EOF, tw)
      <4>1. h.putl > 0
        BY <1>0, <1>4, <1>6, <2>2
      <4> QED
        BY <4>1 DEF Flushbuf
    <3>2. tw \in BOOLEAN
      OBVIOUS
    <3> HIDE DEF tw, x
    <3>3. WriteData(h, Slice(h, 0, ToWrite(h))) = h
      BY <1>7, WriteDataNone
    <3>4. x = Settled(h, tw, 0)
      BY <1>7, <3>1, <3>3 DEF WriteOut, WriteChar
    <3>5. 0 \in 0 .. BufSize
      BY <1>0
    <3>6. IsSettled(x, h, tw, 0)
      BY <1>7, <3>2, <3>4, <3>5, SettledDoes
    <3>7. /\ x.mode = h.mode /\ x.pushed = h.pushed /\ x.error = h.error
          /\ x.file = h.file /\ x.pushbufp = h.pushbufp
      BY <1>7, <3>6, SettledFrame
    <3> QED
      BY <1>7, <3>6, <3>7 DEF IsSettled
  <2> QED
    BY <2>1, <2>2
<1> HIDE DEF x
<1>9. /\ IsHidden(g, x)
      /\ g.ret = IF x.error THEN EOF ELSE 0
  BY <1>1, <1>8, FlushedDoes
<1> QED
  BY <1>8, <1>9 DEF IsHidden

-----------------------------------------------------------------------------
(* A character is written.                                                 *)

LEMMA PutKeeps ==
  ASSUME NEW f, Writes(f), Buffered(f), f.bufp < BufSize, NEW c \in Char,
         NEW g, g = Put(f, c)
  PROVE  /\ Writes(g) /\ g.mode = f.mode /\ g.file = f.file /\ g.putl = f.putl
         /\ g.active = f.active /\ g.bufp = f.bufp + 1 /\ g.getl = f.getl
         /\ g.target = f.target /\ g.offset = f.offset /\ g.seen = f.seen
         /\ Roomy(f) => Roomy(g)
<1>0. /\ Safe(f) /\ Typed(f) /\ Shape(f) /\ Clean(f) /\ Known(f) /\ f.mode.write
      /\ ~f.pushed /\ ~f.eof /\ ~f.error
  BY DEF Writes, Safe, Shape
<1>1. IsPut(g, f, c)
  BY <1>0, PutDoes
<1>2. /\ Typed(g) /\ g.bufp = f.bufp + 1
      /\ g = [f EXCEPT !.buf = g.buf, !.bufp = f.bufp + 1, !.ret = c]
      /\ g.buf[f.bufp] = c
      /\ \A i \in 0 .. BufSize - 1 : i # f.bufp => g.buf[i] = f.buf[i]
  BY <1>1 DEF IsPut
<1>3. /\ g.file = f.file /\ g.kpos = f.kpos /\ g.getl = f.getl /\ g.putl = f.putl
      /\ g.target = f.target /\ g.offset = f.offset /\ g.pushed = f.pushed
      /\ g.pushbufp = f.pushbufp /\ g.eof = f.eof /\ g.error = f.error
      /\ g.active = f.active /\ g.mode = f.mode /\ g.seen = f.seen
  BY <1>0, <1>2, ZenonT(60) DEF Typed
<1>4. Buffered(g) /\ (Linebuf(g) <=> Linebuf(f))
  BY <1>3 DEF Buffered, Linebuf
<1>5. Shape(g)
  BY <1>0, <1>2, <1>3, <1>4 DEF Shape
<1>6. Clean(g)
  <2>1. ASSUME NEW i \in 0 .. BufSize - 1, i < g.bufp \/ i < g.getl
        PROVE  g.buf[i] \in Byte
    <3>1. f.bufp \in Nat /\ f.getl \in Nat
      BY <1>0, StreamAssumption DEF Typed
    <3>2. CASE i = f.bufp
      BY <1>2, <3>2 DEF Byte
    <3>3. CASE i # f.bufp
      <4>1. i < f.bufp \/ i < f.getl
        BY <1>2, <1>3, <2>1, <3>1, <3>3, StreamAssumption
      <4>2. f.buf[i] \in Byte
        BY <1>0, <4>1 DEF Clean
      <4> QED
        BY <1>2, <3>3, <4>2
    <3> QED
      BY <3>2, <3>3
  <2> QED
    BY <1>0, <1>3, <2>1 DEF Clean
<1>7. Known(g)
  BY <1>0, <1>3 DEF Known
<1>8. Safe(g)
  BY <1>0, <1>3, <1>5, <1>6, <1>7 DEF Safe
<1>9. Writes(g)
  BY <1>0, <1>3, <1>8 DEF Writes
<1> QED
  BY <1>2, <1>3, <1>4, <1>9 DEF Roomy

\* The part of __flshfp that knows whether the buffer has room.
LEMMA FlushbufChar ==
  ASSUME NEW h, Writes(h), NEW c \in Char,
         Buffered(h) => IF h.putl = 0 THEN h.bufp = 0 /\ h.getl = 0 ELSE h.bufp = BufSize,
         NEW x, x = Flushbuf(h, c)
  PROVE  /\ Writes(x) \/ Stuck(x)
         /\ Typed(x) /\ x.mode = h.mode /\ x.active = h.active
         /\ Len(h.file) <= Len(x.file)
         /\ x.putl = IF Buffered(h) THEN BufSize ELSE 0
         /\ ~Buffered(h) /\ h.offset = h.target => x.offset = x.target
<1>0. /\ Safe(h) /\ h.mode.write /\ ~h.pushed /\ ~h.eof /\ Typed(h) /\ ~h.error
      /\ Shape(h) /\ BufSize \in Nat \ {0} /\ h.putl \in {0, BufSize}
      /\ h.bufp \in 0 .. BufSize /\ Len(h.file) \in Nat /\ c # EOF
      /\ (~Buffered(h) => h.putl = 0)
  BY StreamAssumption DEF Writes, Safe, Shape, Typed
<1>1. ASSUME NEW tw \in BOOLEAN, ~tw, x = WriteOut(h, c, tw),
             Buffered(h) => h.putl = BufSize /\ h.bufp = BufSize
      PROVE  /\ Writes(x) \/ Stuck(x)
             /\ Typed(x) /\ x.mode = h.mode /\ x.active = h.active
             /\ Len(h.file) <= Len(x.file)
             /\ x.putl = IF Buffered(h) THEN BufSize ELSE 0
             /\ ~Buffered(h) /\ h.offset = h.target => x.offset = x.target
  <2>1. /\ Safe(x) \/ Stuck(x)
        /\ x.mode = h.mode /\ x.putl = h.putl /\ x.active = h.active
        /\ ~x.pushed /\ ~x.eof /\ Len(h.file) <= Len(x.file)
        /\ ~Buffered(h) /\ h.offset = h.target => x.offset = x.target
    BY <1>0, <1>1, WriteOutChar
  <2>2. Writes(x) \/ Stuck(x)
    BY <1>0, <2>1 DEF Writes
  <2>3. Typed(x)
    BY <2>1 DEF Safe, Stuck, Shape
  <2> QED
    BY <1>0, <1>1, <2>1, <2>2, <2>3
<1>2. CASE h.putl # 0
  <2> DEFINE tw == FALSE
  <2>1. h.putl > 0
    BY <1>0, <1>2
  <2>2. x = WriteOut(h, c, tw) /\ tw \in BOOLEAN /\ ~tw
    BY <2>1 DEF Flushbuf
  <2> HIDE DEF tw
  <2> QED
    BY <1>0, <1>1, <1>2, <2>2
<1>3. CASE h.putl = 0 /\ ~Buffered(h)
  <2> DEFINE n  == Skip(h)
             tw == n > 0
  <2>1. Prime(h) = h /\ n = 0 /\ Ready(h, n) = h
    BY <1>0, <1>3, BareReady
  <2>2. tw \in BOOLEAN /\ ~tw
    BY <2>1
  <2>3. x = FlushPrimed(h, c)
    BY <1>3, <2>1 DEF Flushbuf
  <2>4. FlushPrimed(h, c) = FlushReady(h, c, tw)
    BY <2>1 DEF FlushPrimed, Skip
  <2>5. ~Linebuf(h)
    BY <1>3 DEF Linebuf, Buffered
  <2> HIDE DEF tw, n
  <2>6. x = WriteOut(h, c, tw)
    BY <1>0, <1>3, <2>3, <2>4, <2>5 DEF FlushReady
  <2> QED
    BY <1>1, <1>3, <2>2, <2>6
<1>4. CASE h.putl = 0 /\ Buffered(h)
  <2> DEFINE p  == Prime(h)
             n  == Skip(p)
             q  == Ready(p, n)
             v  == Put(q, c)
             tw == n > 0
  <2>1. h.bufp = 0 /\ h.getl = 0 /\ h.bufp <= h.getl
    BY <1>4
  <2>2. IsBlock(q, h, n)
    BY <1>0, <1>4, <2>1, BlockDoes
  <2>3. tw \in BOOLEAN /\ (tw <=> n # 0)
    <3>1. n \in Nat
      BY <1>0, <2>2 DEF IsBlock
    <3> HIDE DEF n
    <3> QED
      BY <3>1
  <2>4. x = FlushPrimed(p, c)
    BY <1>4 DEF Flushbuf
  <2>5. FlushPrimed(p, c) = FlushReady(q, c, tw)
    BY DEF FlushPrimed, Skip
  <2> HIDE DEF p, n, q, tw
  <2>6. /\ Typed(q) /\ q.putl = BufSize /\ ~q.eof /\ q.mode = h.mode /\ q.file = h.file
        /\ ~q.pushed /\ q.active = h.active /\ q.bufp = n /\ n \in 0 .. BufSize - 1
        /\ n = 0 => q.getl = 0
        /\ n # 0 => ~q.mode.append /\ q.bufp <= q.getl
    BY <1>0, <2>1, <2>2 DEF IsBlock, SameStream
  <2>7. Safe(q)
    BY <1>0, <1>4, <2>2, <2>6, BlockSafe
  <2>8. Writes(q) /\ Buffered(q) /\ q.bufp < BufSize /\ (Linebuf(q) <=> Linebuf(h))
    BY <1>0, <1>4, <2>6, <2>7 DEF Writes, Buffered, Linebuf
  <2>9. /\ Writes(v) /\ v.mode = h.mode /\ v.file = h.file /\ v.putl = BufSize
        /\ v.active = h.active /\ v.bufp = q.bufp + 1 /\ v.getl = q.getl
    BY <2>6, <2>8, PutKeeps
  <2> HIDE DEF v
  <2>10. /\ Safe(v) /\ Typed(v) /\ v.mode.write /\ ~v.pushed /\ v.eof = FALSE
         /\ v.error = FALSE /\ Buffered(v)
    BY <1>4, <2>9 DEF Writes, Safe, Shape, Typed, Buffered
  <2>11. CASE Linebuf(h) /\ c = Newline
    <3>1. x = WriteOut(v, EOF, tw)
      BY <1>0, <2>4, <2>5, <2>8, <2>11 DEF FlushReady, v
    <3>2. ASSUME tw PROVE ~v.mode.append /\ v.bufp <= v.getl + 1
      <4>1. n # 0
        BY <2>3, <3>2
      <4>2. q.bufp \in Nat /\ q.getl \in Nat
        BY <1>0, <2>6 DEF Typed
      <4> QED
        BY <2>6, <2>9, <4>1, <4>2
    <3>3. /\ Safe(x) \/ Stuck(x)
          /\ x.mode = v.mode /\ x.putl = v.putl /\ x.active = v.active
          /\ ~x.pushed /\ ~x.eof /\ Len(v.file) <= Len(x.file)
      BY <2>3, <2>9, <2>10, <3>1, <3>2, WriteOutDoes
    <3>4. Typed(x) /\ (Writes(x) \/ Stuck(x))
      BY <2>10, <3>3 DEF Safe, Stuck, Shape, Writes
    <3> QED
      BY <1>4, <2>9, <3>3, <3>4
  <2>12. CASE ~(Linebuf(h) /\ c = Newline)
    <3>1. x = Settled(v, tw, 0)
      BY <1>0, <2>4, <2>5, <2>8, <2>12 DEF FlushReady, v
    <3>2. 0 \in 0 .. BufSize
      BY <1>0
    <3>3. IsSettled(x, v, tw, 0)
      BY <2>3, <2>10, <3>1, <3>2, SettledDoes
    <3>4. x.target = v.target /\ x.getl = v.getl
      <4>1. CASE tw
        BY <3>3, <4>1 DEF IsSettled
      <4>2. CASE ~tw
        <5>1. x.getl = 0 /\ x.target = IF v.target = -1 THEN -1 ELSE v.target + 0
          BY <3>3, <4>2 DEF IsSettled
        <5>2. v.getl = 0
          BY <2>3, <2>6, <2>9, <4>2
        <5>3. v.target \in Nat \cup {-1}
          BY <2>10 DEF Typed
        <5> QED
          BY <5>1, <5>2, <5>3
      <4> QED
        BY <4>1, <4>2
    <3>5. x.bufp = v.bufp /\ x = [v EXCEPT !.target = x.target, !.getl = x.getl,
                                           !.bufp = x.bufp]
      BY <2>10, <3>3 DEF IsSettled
    <3>6. x = v
      <4>1. x = [v EXCEPT !.target = v.target, !.getl = v.getl, !.bufp = v.bufp]
        BY <3>4, <3>5
      <4> QED
        BY <2>10, <4>1 DEF Typed
    <3> QED
      BY <1>0, <1>4, <2>9, <2>10, <3>6
  <2> QED
    BY <2>11, <2>12
<1> QED
  BY <1>2, <1>3, <1>4

\* g is f after something was written.
IsWritten(g, f) ==
  /\ Typed(g) /\ g.mode = f.mode /\ (Stuck(g) \/ (Writes(g) /\ Roomy(g)))
  /\ ~Buffered(f) /\ f.offset = f.target => g.offset = g.target

LEMMA FlushChar ==
  ASSUME NEW f, Writes(f), Rested(f), NEW c \in Char, NEW g, g = Flshfp(f, c)
  PROVE  IsWritten(g, f)
<1> DEFINE u == [f EXCEPT !.seen = TRUE]
           h == [u EXCEPT !.putl = IF u.active THEN BufSize ELSE u.putl]
<1>0. Safe(f) /\ Typed(f) /\ Shape(f) /\ f.error = FALSE /\ f.pushed = FALSE
      /\ BufSize \in Nat \ {0} /\ c # EOF
  BY StreamAssumption DEF Writes, Safe, Shape, Typed
<1>1. g = FlushOrPut(u, c)
  <2>1. Unpush(f) = f
    BY <1>0 DEF Unpush
  <2> QED
    BY <1>0, <2>1 DEF Flshfp
<1>2. Alike(u, f) /\ u.seen = TRUE
  BY <1>0, SeenAlike DEF Typed
<1> HIDE DEF u
<1>3. Writes(u) /\ Shape(u) /\ Typed(u) /\ Rested(u) /\ u.mode = f.mode
      /\ (Buffered(u) <=> Buffered(f)) /\ u.offset = f.offset /\ u.target = f.target
  BY <1>0, <1>2, AlikeKeeps DEF Alike, Buffered
<1>4. /\ u.bufp \in 0 .. BufSize /\ u.putl \in {0, BufSize} /\ (u.active => Linebuf(u))
      /\ (~Buffered(u) => u.putl = 0 /\ u.bufp = 0) /\ u.mode.write
  BY <1>3 DEF Shape, Typed, Writes
<1>5. Linebuf(u) => Buffered(u)
  BY DEF Linebuf, Buffered
<1>6. CASE Room(u)
  <2> DEFINE v == Put(u, c)
  <2>1. u.bufp < BufSize /\ Buffered(u) /\ Roomy(u)
    BY <1>0, <1>4, <1>5, <1>6 DEF Room, Roomy
  <2>2. /\ Writes(v) /\ v.mode = u.mode /\ v.active = u.active /\ v.seen = TRUE
        /\ Roomy(v)
    BY <1>2, <1>3, <2>1, PutKeeps
  <2>3. Typed(v) /\ Unpush(v) = v /\ ~v.error
    BY <2>2 DEF Writes, Safe, Shape, Unpush
  <2>4. CASE ~(Linebuf(u) /\ c = Newline)
    <3>1. g = v
      BY <1>0, <1>1, <1>6, <2>4 DEF FlushOrPut
    <3> HIDE DEF v
    <3> QED
      BY <1>3, <2>1, <2>2, <2>3, <3>1 DEF IsWritten
  <2>5. CASE Linebuf(u) /\ c = Newline
    <3> DEFINE y == [v EXCEPT !.putl = IF v.active THEN BufSize ELSE v.putl]
    <3>1. g = Flushed(Flushbuf([v EXCEPT !.putl = IF u.active THEN BufSize ELSE @], EOF),
                      0)
      BY <1>0, <1>1, <1>6, <2>5 DEF FlushOrPut
    <3> HIDE DEF v
    <3>2. g = Flushed(Flushbuf(y, EOF), 0)
      BY <2>2, <3>1
    <3>3. [v EXCEPT !.seen = TRUE] = v
      BY <2>2, <2>3 DEF Typed
    <3>4. Flshfp(v, EOF) = FlushOrPut(v, EOF)
      BY <2>3, <3>3 DEF Flshfp
    <3>5. FlushOrPut(v, EOF) = Flushed(Flushbuf(y, EOF), 0)
      BY DEF FlushOrPut
    <3>6. IsFlush(g, v)
      BY <2>2, <3>2, <3>4, <3>5, FlushDoes
    <3>7. Stuck(g) \/ (Writes(g) /\ Roomy(g))
      BY <3>6 DEF IsFlush
    <3> QED
      BY <1>3, <2>1, <2>2, <3>6, <3>7 DEF IsFlush, IsWritten
  <2> QED
    BY <2>4, <2>5
<1>7. CASE ~Room(u)
  <2> DEFINE x == Flushbuf(h, c)
  <2>1. g = Flushed(x, c)
    BY <1>0, <1>1, <1>7 DEF FlushOrPut
  <2>2. /\ IsHidden(h, u) /\ h.active = u.active
        /\ h.putl = IF u.active THEN BufSize ELSE u.putl
        /\ Buffered(u) => h.putl \in {0, BufSize}
        /\ ~Buffered(u) => h.putl = 0
    BY <1>3, ShownDoes
  <2> HIDE DEF h
  <2>3. Writes(h) /\ (Buffered(h) <=> Buffered(u)) /\ (Linebuf(h) <=> Linebuf(u))
    BY <1>3, <1>4, <2>2, HiddenKeeps
  <2>4. /\ h.bufp = u.bufp /\ h.getl = u.getl /\ h.mode = u.mode /\ h.offset = f.offset
        /\ h.target = f.target
    BY <1>3, <2>2 DEF IsHidden
  <2>5. ASSUME Buffered(h)
        PROVE  IF h.putl = 0 THEN h.bufp = 0 /\ h.getl = 0 ELSE h.bufp = BufSize
    <3>1. CASE h.putl = 0
      <4>1. ~(u.putl > 0 \/ u.active)
        BY <1>0, <1>4, <2>2, <3>1
      <4> QED
        BY <1>3, <2>3, <2>4, <2>5, <3>1, <4>1 DEF Rested
    <3>2. CASE h.putl # 0
      <4>1. ~(u.bufp < BufSize)
        BY <1>0, <1>4, <1>7, <2>2, <2>3, <2>5, <3>2 DEF Room
      <4> QED
        BY <1>0, <1>4, <2>4, <3>2, <4>1
    <3> QED
      BY <3>1, <3>2
  <2>6. /\ Writes(x) \/ Stuck(x)
        /\ Typed(x) /\ x.mode = h.mode /\ x.active = h.active
        /\ x.putl = IF Buffered(h) THEN BufSize ELSE 0
        /\ ~Buffered(h) /\ h.offset = h.target => x.offset = x.target
    BY <2>3, <2>5, FlushbufChar
  <2> HIDE DEF x
  <2>7. /\ IsHidden(g, x)
        /\ Linebuf(x) => g.putl = 0 /\ g.active
        /\ ~Linebuf(x) => g.putl = x.putl /\ g.active = x.active
    BY <2>1, <2>6, FlushedDoes
  <2>8. /\ (Buffered(x) <=> Buffered(f)) /\ (Linebuf(x) <=> Linebuf(u)) /\ x.mode = f.mode
        /\ x.mode.write /\ (Linebuf(x) => Buffered(x))
    BY <1>3, <1>4, <2>4, <2>6 DEF Buffered, Linebuf
  <2>9. (g.active => Linebuf(x)) /\ (~Buffered(x) => g.putl = 0)
    BY <1>3, <1>4, <2>2, <2>3, <2>6, <2>7, <2>8
  <2>10. /\ Stuck(x) => Stuck(g)
         /\ Writes(x) => Writes(g)
         /\ (Buffered(g) <=> Buffered(x))
    BY <2>7, <2>8, <2>9, HiddenKeeps
  <2>11. Roomy(g)
    <3>1. ASSUME Buffered(g) PROVE g.putl > 0 \/ g.active
      <4>1. x.putl = BufSize /\ BufSize > 0
        BY <1>0, <1>3, <2>3, <2>6, <2>8, <2>10, <3>1
      <4> QED
        BY <2>7, <4>1
    <3> QED
      BY <3>1 DEF Roomy
  <2>12. /\ Typed(g) /\ g.mode = f.mode /\ g.offset = x.offset /\ g.target = x.target
    BY <2>7, <2>8 DEF IsHidden
  <2>13. ~Buffered(f) /\ f.offset = f.target => g.offset = g.target
    BY <1>3, <2>3, <2>4, <2>6, <2>12
  <2> QED
    BY <2>6, <2>10, <2>11, <2>12, <2>13 DEF IsWritten
<1> QED
  BY <1>6, <1>7

\* putc.
LEMMA PutcDoes ==
  ASSUME NEW f, Writes(f), Rested(f), NEW c \in Char, NEW g, g = Putc(f, c)
  PROVE  IsWritten(g, f)
<1>1. CASE f.bufp < f.putl
  <2>1. Typed(f) /\ Shape(f) /\ BufSize \in Nat \ {0}
    BY StreamAssumption DEF Writes, Safe, Shape
  <2>2. Buffered(f) /\ f.bufp < BufSize /\ Roomy(f)
    <3>1. f.bufp \in 0 .. BufSize /\ f.putl \in {0, BufSize}
          /\ (~Buffered(f) => f.putl = 0)
      BY <2>1 DEF Typed, Shape
    <3> QED
      BY <1>1, <2>1, <3>1 DEF Roomy
  <2>3. g = Put(f, c)
    BY <1>1 DEF Putc
  <2>4. Writes(g) /\ g.mode = f.mode /\ Roomy(g)
    BY <2>2, <2>3, PutKeeps
  <2>5. Typed(g)
    BY <2>4 DEF Writes, Safe, Shape
  <2> QED
    BY <2>2, <2>4, <2>5 DEF IsWritten
<1>2. CASE ~(f.bufp < f.putl)
  BY <1>2, FlushChar DEF Putc
<1> QED
  BY <1>1, <1>2

-----------------------------------------------------------------------------
(* A character is read.                                                    *)

\* g is a stream after a character was asked for: it failed, or the end of the
\* file was met, or there was one.
IsGot(g, f) ==
  /\ g.mode = f.mode /\ ~g.pushed
  /\ \/ Stuck(g) /\ g.ret = EOF
     \/ Reads(g) /\ (g.eof => g.ret = EOF)

\* The stream is not at its end, or getc may go on there.
Going(f) == ~(f.eof /\ (f.mode.write \/ ~Buffered(f)))

LEMMA EofCleared ==
  ASSUME NEW y, Typed(y), NEW b, b = [y EXCEPT !.eof = FALSE]
  PROVE  /\ Typed(b) /\ SameStream(b, y) /\ b.kpos = y.kpos /\ b.buf = y.buf
         /\ b.bufp = y.bufp /\ b.getl = y.getl /\ b.putl = y.putl
         /\ b.target = y.target /\ b.offset = y.offset /\ b.eof = FALSE
<1>1. /\ b.file = y.file /\ b.kpos = y.kpos /\ b.buf = y.buf
      /\ b.bufp = y.bufp /\ b.getl = y.getl /\ b.putl = y.putl
      /\ b.target = y.target /\ b.offset = y.offset /\ b.eof = FALSE
      /\ SameStream(b, y)
  BY DEF Typed, SameStream
<1>2. Typed(b)
  BY <1>1 DEF Typed
<1> QED
  BY <1>1, <1>2

\* Where the next character is read, and that it was read at at.
Pos(g) == IF g.eof /\ ~Buffered(g) THEN g.kpos ELSE Goal(g) + g.bufp

IsTaken(g, at) ==
  /\ g.eof => Len(g.file) <= at /\ Pos(g) = at
  /\ ~g.eof => at < Len(g.file) /\ g.ret = g.file[at + 1] /\ Pos(g) = at + 1

LEMMA FillbufDoes ==
  ASSUME NEW y, Typed(y), Buffered(y), ~y.error, ~y.pushed, ~y.active,
         y.target = -1 <=> y.offset = -1,
         y.target # -1 => /\ y.target <= y.offset /\ y.offset = y.kpos
                          /\ y.target # y.offset => y.target < Len(y.file),
         y.mode.write => y.kpos <= Len(y.file),
         NEW z, z = Fillbuf(y)
  PROVE  z.mode = y.mode /\ z.file = y.file /\ Reads(z) /\ ~z.pushed
         /\ (z.eof => z.ret = EOF)
         /\ Match(z, 0) /\ Touched(z) /\ IsTaken(z, Goal(y))
<1> DEFINE b == [y EXCEPT !.eof = FALSE]
           c == CheckOffset(b)
<1>1. /\ Typed(b) /\ SameStream(b, y) /\ b.kpos = y.kpos /\ b.target = y.target
      /\ b.offset = y.offset
  BY EofCleared
<1>2. z = FillKnown(c)
  BY DEF Fillbuf
<1> HIDE DEF b
<1>3. IsChecked(c, b)
  BY <1>1, CheckKeeps
<1> HIDE DEF c
<1>4. /\ Typed(c) /\ SameStream(c, y) /\ c.kpos = y.kpos /\ c.target \in Nat
      /\ b.offset # -1 => c.offset = b.offset
      /\ b.offset = -1 => c.offset = b.kpos
      /\ b.target # -1 => c.target = b.target
      /\ b.target = -1 => c.target = c.offset
  BY <1>1, <1>3 DEF IsChecked, SameStream
<1>5. /\ Typed(c) /\ SameStream(c, y) /\ c.kpos = y.kpos /\ c.target \in Nat
      /\ c.offset = y.kpos
      /\ y.target # -1 => c.target = y.target
      /\ y.target = -1 => c.target = c.offset
  BY <1>1, <1>4
<1>6. Buffered(c) /\ c.file = y.file /\ c.mode = y.mode
  BY <1>5 DEF SameStream, Buffered
<1>7. c.target <= c.offset /\ (c.target # c.offset => c.target < Len(c.file))
  BY <1>5, <1>6
<1>8. IsFilled(z, c)
  BY <1>2, <1>5, <1>6, <1>7, FillKnownDoes
<1>9. /\ Typed(z) /\ z.file = y.file /\ z.mode = y.mode /\ ~z.pushed /\ ~z.error
      /\ ~z.active /\ z.putl = 0 /\ z.target \in Nat /\ z.offset = z.kpos
      /\ z.target + z.getl = z.kpos
      /\ y.kpos <= Len(y.file) => z.kpos <= Len(y.file)
      /\ \A i \in 0 .. BufSize - 1 : i < z.getl => z.buf[i] \in Byte
      /\ z.eof => z.ret = EOF /\ z.getl = 0 /\ z.bufp = 0 /\ Len(z.file) <= z.kpos
      /\ ~z.eof => z.bufp <= z.getl
  BY <1>5, <1>6, <1>8 DEF IsFilled, SameStream
<1>19. /\ Match(z, 0)
       /\ z.eof => z.target = c.target /\ Len(z.file) <= c.target
       /\ ~z.eof => /\ c.target < Len(z.file) /\ z.ret = z.file[c.target + 1]
                    /\ z.target + z.bufp = c.target + 1
  BY <1>8 DEF IsFilled
<1>20. c.seen /\ z.seen
  <2>1. c.seen
    <3>1. b.seen \in BOOLEAN
      BY <1>1 DEF Typed
    <3> QED
      BY <1>1, CheckDoes DEF c, CheckOffset, Typed
  <2> QED
    BY <2>1, <1>8 DEF IsFilled
<1>10. Buffered(z) /\ z.bufp \in 0 .. BufSize /\ z.getl \in 0 .. BufSize
       /\ z.kpos \in Nat /\ BufSize \in Nat
  BY <1>9, StreamAssumption DEF Buffered, Typed
<1>11. z.bufp <= z.getl /\ (z.eof => z.target = z.offset)
  BY <1>9, <1>10
<1>12. Shape(z)
  BY <1>9, <1>10 DEF Shape
<1>13. Clean(z)
  <2>1. ASSUME NEW i \in 0 .. BufSize - 1, i < z.bufp \/ i < z.getl
        PROVE  z.buf[i] \in Byte
    <3>1. i < z.getl
      BY <1>10, <1>11, <2>1
    <3> QED
      BY <1>9, <3>1
  <2> QED
    BY <1>9, <2>1 DEF Clean
<1>14. Known(z)
  <2>1. z.target # -1 /\ z.offset # -1 /\ z.target + z.getl <= z.offset
        /\ z.offset <= z.kpos /\ z.offset = z.target + z.getl
    BY <1>9, <1>10
  <2>2. z.mode.write => z.kpos <= Len(z.file)
    BY <1>9
  <2> QED
    BY <1>9, <2>1, <2>2 DEF Known
<1>15. Safe(z)
  BY <1>9, <1>12, <1>13, <1>14 DEF Safe
<1>16. Even(z) /\ Standing(z)
  BY <1>9, <1>11 DEF Even, Standing
<1>17. z.eof => Ended(z)
  BY <1>9, <1>11 DEF Ended
<1>18. Reads(z)
  BY <1>9, <1>15, <1>16, <1>17 DEF Reads
<1>21. IsTaken(z, Goal(y))
  <2>1. c.target = Goal(y)
    BY <1>5 DEF Goal
  <2>2. Goal(z) = z.target
    BY <1>9, <1>10 DEF Goal
  <2> QED
    BY <1>9, <1>10, <1>19, <2>1, <2>2 DEF IsTaken, Pos
<1> QED
  BY <1>9, <1>18, <1>19, <1>20, <1>21 DEF Touched

\* A stream without a buffer reads one character.
LEMMA FillBare ==
  ASSUME NEW y, Shape(y), ~Buffered(y), ~y.error, ~y.pushed, NEW z, z = FillWritten(y)
  PROVE  z.mode = y.mode /\ z.file = y.file /\ Reads(z) /\ ~z.pushed
         /\ (z.eof => z.ret = EOF)
         /\ (Bare(y) /\ ~y.eof => Bare(z) /\ IsTaken(z, Goal(y)))
<1> DEFINE b == [y EXCEPT !.eof = FALSE]
           c == CheckOffset(b)
           d == IF Away(c) THEN SeekToTarget([c EXCEPT !.target = @ - 0]) ELSE c
           r == ReadBlock(d, 0)
<1>0. Typed(y) /\ BufSize \in Nat \ {0} /\ y.bufp = 0 /\ y.getl = 0 /\ y.putl = 0
      /\ y.pushbufp = 0 /\ y.active = FALSE /\ y.error = FALSE
  BY StreamAssumption DEF Shape, Typed, Linebuf, Buffered
<1>1. /\ Typed(b) /\ SameStream(b, y) /\ b.bufp = 0 /\ b.getl = 0 /\ b.putl = 0
  BY <1>0, EofCleared
<1>2. Buffered(c) <=> Buffered(y)
  <2> HIDE DEF b
  <2>1. IsChecked(c, b)
    BY <1>1, CheckKeeps
  <2> QED
    BY <1>1, <2>1 DEF IsChecked, SameStream, Buffered
<1>3. z = [r EXCEPT !.target = @ + 1]
  <2>1. Fillbuf(y) = FillKnown(c)
    BY DEF Fillbuf
  <2> HIDE DEF c
  <2>2. FillKnown(c) = r
    BY <1>2 DEF FillKnown
  <2> HIDE DEF r
  <2> QED
    BY <1>0, <2>1, <2>2 DEF FillWritten
<1> HIDE DEF b
<1>4. IsChecked(c, b)
  BY <1>1, CheckKeeps
<1> HIDE DEF c
<1>5. /\ Typed(c) /\ SameStream(c, y) /\ c.bufp = 0 /\ c.getl = 0 /\ c.putl = 0
      /\ c.target \in Nat /\ c.offset \in Nat
  BY <1>1, <1>4 DEF IsChecked, SameStream
<1>6. /\ Typed(d) /\ SameStream(d, y) /\ d.bufp = 0 /\ d.getl = 0 /\ d.putl = 0
      /\ d.offset \in Nat /\ d.target \in Nat
      /\ c.target = c.offset => d = c
  <2>1. CASE ~Away(c)
    BY <1>5, <2>1
  <2>2. CASE Away(c)
    <3>1. [c EXCEPT !.target = c.target - 0] = c
      BY <1>5 DEF Typed
    <3>2. d = SeekToTarget(c)
      BY <2>2, <3>1
    <3> DEFINE o == IF c.offset = -1 THEN c.kpos ELSE c.offset
               t == IF c.target = -1 THEN o ELSE c.target
               k == IF o = t THEN c.kpos ELSE t
    <3>3. /\ d = [c EXCEPT !.offset = t, !.target = t, !.seen = TRUE, !.kpos = k]
          /\ t \in Nat /\ k \in Nat /\ Typed(d)
      <4> HIDE DEF d
      <4> QED
        BY <1>5, <3>2, SeekToTargetDoes
    <3> HIDE DEF t, k, d
    <3>4. /\ SameStream(d, c) /\ d.bufp = c.bufp /\ d.getl = c.getl /\ d.putl = c.putl
          /\ d.offset = t /\ d.target = t
      BY <1>5, <3>3 DEF Typed, SameStream
    <3> QED
      BY <1>5, <2>2, <3>3, <3>4 DEF SameStream, Away
  <2> QED
    BY <2>1, <2>2
<1> HIDE DEF d
<1>7. ~Buffered(d) /\ 0 \in 0 .. BufSize - 1
  BY <1>0, <1>6 DEF SameStream, Buffered
<1>8. PICK n \in Nat : IsRead(r, d, 0, n)
  BY <1>6, <1>7, ReadBlockDoes
<1> HIDE DEF r
<1>9. /\ Typed(r) /\ SameStream(r, y) /\ r.bufp = 0 /\ r.getl = 0 /\ r.putl = 0
      /\ r.target \in Nat /\ r.kpos = d.kpos + n
      /\ r.eof => r.ret = EOF /\ Len(d.file) <= d.kpos + 0
      /\ d.file = r.file
  BY <1>6, <1>7, <1>8 DEF IsRead, SameStream
<1>10. r.target + 1 \in Nat /\ (r.eof => Len(r.file) <= r.kpos)
  <2>1. d.kpos \in Nat /\ Len(d.file) \in Nat
    BY <1>6 DEF Typed
  <2> QED
    BY <1>8, <1>9, <2>1
<1>11. /\ z.file = r.file /\ z.mode = r.mode /\ z.pushed = r.pushed /\ z.error = r.error
       /\ z.active = r.active /\ z.pushbufp = r.pushbufp /\ z.bufp = r.bufp
       /\ z.getl = r.getl /\ z.putl = r.putl /\ z.kpos = r.kpos /\ z.eof = r.eof
       /\ z.ret = r.ret
  BY <1>3, <1>9 DEF Typed
<1>12. Typed(z)
  BY <1>3, <1>9, <1>10, <1>11 DEF Typed
<1>13. /\ z.file = y.file /\ z.mode = y.mode /\ ~z.pushed /\ ~z.error /\ ~z.active
       /\ z.pushbufp = 0 /\ z.bufp = 0 /\ z.getl = 0 /\ z.putl = 0 /\ ~Buffered(z)
  BY <1>0, <1>9, <1>11 DEF SameStream, Buffered
<1>14. Shape(z) /\ Clean(z)
  BY <1>12, <1>13 DEF Shape, Clean
<1>15. Safe(z) /\ Even(z) /\ Standing(z)
  BY <1>13, <1>14 DEF Safe, Even, Standing
<1>16. z.eof => z.ret = EOF /\ Ended(z)
  BY <1>9, <1>10, <1>11, <1>13 DEF Ended
<1>17. Reads(z)
  BY <1>13, <1>15, <1>16 DEF Reads
<1>18. ASSUME Bare(y), ~y.eof
       PROVE  Bare(z) /\ IsTaken(z, Goal(y))
  <2>1. /\ y.target = -1 <=> y.offset = -1
        /\ y.target # -1 => y.target = y.offset /\ y.offset = y.kpos
        /\ y.mode.write => y.kpos <= Len(y.file)
    BY <1>18 DEF Bare
  <2>2. /\ b.target = y.target /\ b.offset = y.offset /\ b.kpos = y.kpos
        /\ b.file = y.file /\ b.mode = y.mode
    BY <1>0, EofCleared DEF b, SameStream
  <2>3. c.offset = y.kpos /\ c.target = y.kpos /\ c.kpos = y.kpos
    BY <1>4, <2>1, <2>2 DEF IsChecked
  <2>4. d = c
    BY <1>6, <2>3
  <2>5. Goal(y) = y.kpos
    BY <2>1 DEF Goal
  <2>6. /\ r.target = y.kpos /\ r.kpos = y.kpos + n /\ r.offset = y.kpos + n
        /\ r.file = y.file /\ r.mode = y.mode
        /\ r.eof => Len(y.file) <= y.kpos + 0 /\ n = 0
        /\ ~r.eof => /\ n = 1 /\ y.kpos + 0 < Len(y.file)
                     /\ r.ret = y.file[y.kpos + 0 + 1]
        /\ y.kpos <= Len(y.file) => r.kpos <= Len(y.file)
    <3>1. IsRead(r, c, 0, n) /\ ~Buffered(c) /\ c.file = y.file /\ c.mode = y.mode
      BY <1>5, <1>7, <1>8, <2>4 DEF SameStream
    <3> QED
      BY <2>3, <3>1 DEF IsRead
  <2>7. z.target = r.target + 1 /\ z.offset = r.offset
    BY <1>3, <1>9 DEF Typed
  <2>8. y.kpos \in Nat /\ Len(y.file) \in Nat
    BY <1>0 DEF Typed
  <2>9. z.target = y.kpos + 1 /\ z.offset = y.kpos + n /\ z.kpos = y.kpos + n
    BY <1>11, <2>6, <2>7
  <2>10. Bare(z)
    <3>1. z.target # -1 /\ z.offset # -1 /\ z.offset = z.kpos
      BY <1>8, <2>8, <2>9
    <3>2. ~z.eof => z.target = z.offset
      BY <1>11, <2>6, <2>9
    <3>3. z.mode.write => z.kpos <= Len(z.file)
      BY <1>11, <1>13, <2>1, <2>6
    <3> QED
      BY <3>1, <3>2, <3>3 DEF Bare
  <2>11. z.eof => Len(z.file) <= y.kpos /\ z.kpos = y.kpos
    BY <1>11, <1>13, <2>6, <2>8, <2>9
  <2>12. ~z.eof => /\ y.kpos < Len(z.file) /\ z.ret = z.file[y.kpos + 1]
                   /\ Goal(z) + z.bufp = y.kpos + 1
    <3>1. Goal(z) = y.kpos + 1
      BY <2>8, <2>9 DEF Goal
    <3> QED
      BY <1>11, <1>13, <2>6, <2>8, <3>1
  <2> QED
    BY <1>13, <2>5, <2>10, <2>11, <2>12 DEF IsTaken, Pos
<1> QED
  BY <1>13, <1>16, <1>17, <1>18

LEMMA TargetMoves ==
  ASSUME NEW x, Typed(x), NEW t \in Nat \cup {-1}, NEW y, y = [x EXCEPT !.target = t]
  PROVE  /\ Typed(y) /\ SameStream(y, x) /\ y.kpos = x.kpos /\ y.buf = x.buf
         /\ y.bufp = x.bufp /\ y.getl = x.getl /\ y.putl = x.putl
         /\ y.target = t /\ y.offset = x.offset /\ y.eof = x.eof
<1>1. /\ y.file = x.file /\ y.kpos = x.kpos /\ y.buf = x.buf
      /\ y.bufp = x.bufp /\ y.getl = x.getl /\ y.putl = x.putl
      /\ y.target = t /\ y.offset = x.offset /\ y.eof = x.eof /\ SameStream(y, x)
  BY DEF Typed, SameStream
<1>2. Typed(y)
  BY <1>1 DEF Typed
<1> QED
  BY <1>1, <1>2

LEMMA FillNormalDoes ==
  ASSUME NEW f, Reads(f), ~f.pushed, ~f.active, Going(f), NEW g, g = FillNormal(f)
  PROVE  IsGot(g, f)
<1> DEFINE x == IF f.putl > 0 THEN Flushbuf(f, EOF) ELSE f
           t == f.target + f.getl
           y == [x EXCEPT !.target = t]
<1>0. /\ Safe(f) /\ Typed(f) /\ Shape(f) /\ Even(f) /\ Standing(f) /\ ~f.error
      /\ BufSize \in Nat \ {0} /\ f.putl \in {0, BufSize} /\ f.getl \in 0 .. BufSize
      /\ f.bufp \in 0 .. BufSize /\ f.target \in Nat \cup {-1} /\ f.kpos \in Nat
      /\ f.offset \in Nat \cup {-1}
  BY StreamAssumption DEF Reads, Safe, Shape, Typed
<1>1. g = FillWritten(y)
  BY DEF FillNormal
<1>2. ASSUME Buffered(f)
      PROVE  /\ t \in Nat \cup {-1} /\ Typed(x) /\ x.mode = f.mode /\ ~x.error
             /\ ~x.pushed /\ ~x.active
             /\ t = -1 <=> x.offset = -1
             /\ t # -1 => t <= x.offset /\ x.offset = x.kpos
                          /\ (t # x.offset => t < Len(x.file))
             /\ x.mode.write => x.kpos <= Len(x.file)
  <2>1. /\ Known(f) /\ (f.target # -1 => f.offset = f.kpos) /\ f.bufp <= f.getl
        /\ (f.mode.append /\ f.putl > 0 => f.bufp = 0)
    BY <1>0, <1>2 DEF Safe, Standing, Even
  <2>2. /\ f.target = -1 <=> f.offset = -1
        /\ f.target = -1 => f.getl = 0 /\ f.bufp = 0
        /\ f.target # -1 => f.target + f.getl <= f.offset /\ f.offset = f.kpos
        /\ f.target # -1 /\ ~f.mode.write => f.offset = f.target + f.getl
        /\ f.mode.write => f.kpos <= Len(f.file)
    BY <1>0, <2>1 DEF Known
  <2>3. t \in Nat \cup {-1} /\ (t = -1 <=> f.target = -1)
    BY <1>0, <2>2
  <2>4. CASE f.putl = 0
    <3>1. x = f
      BY <2>4
    <3>2. Len(f.file) \in Nat
      BY <1>0 DEF Typed
    <3>3. t # -1 => t <= f.offset /\ f.offset = f.kpos
                    /\ (t # f.offset => t < Len(f.file))
      BY <1>0, <2>2, <2>3, <3>2
    <3> HIDE DEF t, x
    <3> QED
      BY <1>0, <2>2, <2>3, <3>1, <3>3
  <2>5. CASE f.putl # 0
    <3>1. f.putl = BufSize /\ f.putl > 0 /\ f.mode.write /\ ~f.eof
      BY <1>0, <2>5 DEF Shape, Going
    <3> DEFINE tw == FALSE
    <3>2. x = WriteOut(f, EOF, tw) /\ tw \in BOOLEAN /\ ~tw
      BY <3>1 DEF Flushbuf
    <3> HIDE DEF tw, x
    <3>3. /\ Safe(x) \/ Stuck(x)
          /\ x.mode = f.mode /\ x.active = f.active /\ ~x.pushed
          /\ x.error => f.bufp > 0 /\ (~f.mode.append => f.bufp > f.getl)
          /\ f.bufp = 0 => /\ x.file = f.file /\ x.kpos = f.kpos
                           /\ x.target = f.target /\ x.offset = f.offset
          /\ ~x.error /\ ~f.mode.append /\ f.bufp > 0 => Goal(f) + f.getl <= x.offset
      BY <1>0, <1>2, <3>1, <3>2, WriteOutDoes
    <3>4. ~x.error
      BY <1>0, <2>1, <3>1, <3>3
    <3>5. Safe(x) /\ Buffered(x) /\ x.mode.write
      BY <1>2, <3>1, <3>3, <3>4 DEF Stuck, Buffered
    <3>6. Typed(x) /\ Known(x) /\ x.kpos \in Nat /\ x.offset \in Nat \cup {-1}
          /\ Len(x.file) \in Nat
      BY <3>5 DEF Safe, Shape, Typed
    <3>7. x.kpos <= Len(x.file)
      BY <3>5, <3>6 DEF Known
    <3>8. CASE f.bufp = 0
      <4>1. x.kpos = f.kpos /\ x.offset = f.offset
        BY <3>3, <3>8
      <4>2. t # -1 => t <= x.offset /\ x.offset = x.kpos
                      /\ (t # x.offset => t < Len(x.file))
        BY <1>0, <2>2, <2>3, <3>6, <3>7, <4>1
      <4> HIDE DEF t
      <4> QED
        BY <1>0, <2>2, <2>3, <3>3, <3>4, <3>5, <3>6, <3>7, <4>1, <4>2
    <3>9. CASE f.bufp # 0
      <4>1. f.target # -1 /\ ~f.mode.append /\ f.bufp > 0
        BY <1>0, <2>1, <2>2, <3>1, <3>9
      <4>2. t <= x.offset /\ t \in Nat
        <5>1. Goal(f) = f.target
          BY <4>1 DEF Goal
        <5> QED
          BY <1>0, <3>3, <3>4, <4>1, <5>1
      <4>3. x.offset # -1 /\ x.offset = x.kpos
        <5>1. x.offset # -1
          BY <3>6, <4>2
        <5> QED
          BY <3>3, <3>6, <4>1, <5>1 DEF Known
      <4>4. t # x.offset => t < Len(x.file)
        BY <3>6, <3>7, <4>2, <4>3
      <4>5. t # -1
        BY <4>2
      <4> HIDE DEF t
      <4> QED
        BY <1>0, <2>3, <3>3, <3>4, <3>5, <3>6, <3>7, <4>2, <4>3, <4>4, <4>5
    <3> QED
      BY <3>8, <3>9
  <2> QED
    BY <2>4, <2>5
<1>3. CASE Buffered(f)
  <2>1. /\ t \in Nat \cup {-1} /\ Typed(x) /\ x.mode = f.mode /\ ~x.error
        /\ ~x.pushed /\ ~x.active
        /\ t = -1 <=> x.offset = -1
        /\ t # -1 => t <= x.offset /\ x.offset = x.kpos
                     /\ (t # x.offset => t < Len(x.file))
        /\ x.mode.write => x.kpos <= Len(x.file)
    BY <1>2, <1>3
  <2> HIDE DEF x, t
  <2>2. /\ Typed(y) /\ SameStream(y, x) /\ y.kpos = x.kpos /\ y.target = t
        /\ y.offset = x.offset
    BY <2>1, TargetMoves
  <2> HIDE DEF y
  <2>3. Buffered(y) /\ ~y.error /\ ~y.pushed /\ ~y.active /\ y.mode = f.mode
        /\ y.file = x.file
    BY <1>3, <2>1, <2>2 DEF SameStream, Buffered
  <2>4. /\ y.target = -1 <=> y.offset = -1
        /\ y.target # -1 => /\ y.target <= y.offset /\ y.offset = y.kpos
                            /\ y.target # y.offset => y.target < Len(y.file)
        /\ y.mode.write => y.kpos <= Len(y.file)
    BY <2>1, <2>2, <2>3
  <2> DEFINE z == Fillbuf(y)
  <2>5. z.mode = y.mode /\ Reads(z) /\ ~z.pushed /\ (z.eof => z.ret = EOF)
    BY <2>2, <2>3, <2>4, FillbufDoes
  <2>6. g = [z EXCEPT !.target = z.target]
    BY <1>1, <2>3 DEF FillWritten
  <2> HIDE DEF z
  <2>7. g = z
    BY <2>5, <2>6 DEF Reads, Safe, Shape, Typed
  <2> QED
    BY <2>3, <2>5, <2>7 DEF IsGot
<1>4. CASE ~Buffered(f)
  <2>1. f.putl = 0 /\ f.getl = 0
    BY <1>0, <1>4 DEF Shape
  <2>2. y = f
    <3>1. x = f /\ t = f.target
      BY <1>0, <2>1
    <3>2. [f EXCEPT !.target = f.target] = f
      BY <1>0 DEF Typed
    <3> HIDE DEF x, t
    <3> QED
      BY <3>1, <3>2
  <2>3. g = FillWritten(f)
    BY <1>1, <2>2
  <2>4. g.mode = f.mode /\ g.file = f.file /\ Reads(g) /\ ~g.pushed
        /\ (g.eof => g.ret = EOF)
    <3>1. Shape(f) /\ ~Buffered(f) /\ ~f.error /\ ~f.pushed
      BY <1>0, <1>4
    <3> QED
      BY ONLY <2>3, <3>1, FillBare
  <2> QED
    BY <2>4 DEF IsGot
<1> QED
  BY <1>3, <1>4

LEMMA FillNormalStuck ==
  ASSUME NEW f, Stuck(f), NEW g, g = FillNormal(f)
  PROVE  IsGot(g, f)
<1> DEFINE x == IF f.putl > 0 THEN Flushbuf(f, EOF) ELSE f
           t == f.target + f.getl
           y == [x EXCEPT !.target = t]
<1>0. /\ Typed(f) /\ Shape(f) /\ BufSize \in Nat \ {0} /\ f.putl \in {0, BufSize}
      /\ f.getl \in 0 .. BufSize /\ f.target \in Nat \cup {-1} /\ f.mode.write
      /\ f.offset \in Nat \cup {-1} /\ MaxFile \in Nat
  BY StreamAssumption DEF Stuck, Shape, Typed
<1>1. g = FillWritten(y)
  BY DEF FillNormal
<1>2. Stuck(y) /\ y.mode = f.mode
  <2>1. CASE f.putl # 0
    <3>1. f.putl > 0 /\ f.putl = BufSize /\ Buffered(f)
      BY <1>0, <2>1 DEF Shape
    <3> DEFINE tw == FALSE
    <3>2. x = WriteOut(f, EOF, tw) /\ tw \in BOOLEAN /\ ~tw
      BY <3>1 DEF Flushbuf
    <3> HIDE DEF tw, x
    <3>3. Stuck(y) /\ Typed(x)
      BY <3>1, <3>2, StuckWriteOut
    <3>4. x.mode = f.mode
      <4> DEFINE w == WriteData(f, Slice(f, 0, ToWrite(f)))
      <4>1. Typed(w) /\ SameBuffer(w, f)
        BY <3>1, WriteDataStuck
      <4>2. x = Settled(w, tw, f.bufp)
        BY <3>2 DEF WriteOut, WriteChar
      <4> HIDE DEF w
      <4>3. f.bufp \in 0 .. BufSize
        BY <1>0 DEF Typed
      <4>4. IsSettled(x, w, tw, f.bufp)
        BY <3>2, <4>1, <4>2, <4>3, SettledDoes
      <4> QED
        BY <4>1, <4>4, SettledFrame DEF SameBuffer
    <3>5. y.mode = x.mode
      BY <3>3 DEF Typed
    <3> QED
      BY <3>3, <3>4, <3>5
  <2>2. CASE f.putl = 0
    <3>1. x = f
      BY <2>2
    <3>2. t \in Nat \cup {-1}
      BY <1>0
    <3>3. /\ Typed(y) /\ SameStream(y, f) /\ y.kpos = f.kpos /\ y.buf = f.buf
          /\ y.bufp = f.bufp /\ y.getl = f.getl /\ y.putl = f.putl
          /\ y.target = t /\ y.offset = f.offset /\ y.eof = f.eof
      <4> HIDE DEF x, t
      <4> QED
        BY <1>0, <3>1, <3>2, TargetMoves
    <3>4. /\ y.mode = f.mode /\ (Buffered(y) <=> Buffered(f)) /\ (Linebuf(y) <=> Linebuf(f))
          /\ y.file = f.file /\ y.pushed = f.pushed /\ y.pushbufp = f.pushbufp
          /\ y.error = f.error /\ y.active = f.active
      BY <3>3 DEF SameStream, Buffered, Linebuf
    <3> HIDE DEF y, x
    <3>5. Shape(y)
      BY <1>0, <3>3, <3>4 DEF Shape
    <3>6. ASSUME Buffered(f), ~f.mode.append
          PROVE  /\ y.target # -1 /\ MaxFile <= y.kpos
                 /\ y.offset # y.target => MaxFile <= y.target
                 /\ y.getl > 0 => MaxFile <= y.target + y.getl
      <4>1. /\ f.target # -1 /\ MaxFile <= f.kpos
            /\ f.offset # f.target => MaxFile <= f.target
            /\ f.getl > 0 => MaxFile <= f.target + f.getl
        BY <3>6 DEF Stuck
      <4> QED
        BY <1>0, <3>3, <4>1
    <3>7. Buffered(f) /\ f.mode.append => Len(y.file) = MaxFile
      BY <3>4 DEF Stuck
    <3>8. Stuck(y)
      BY <3>3, <3>4, <3>5, <3>6, <3>7 DEF Stuck
    <3> QED
      BY <3>4, <3>8
  <2> QED
    BY <1>0, <2>1, <2>2
<1> HIDE DEF y
<1>3. Typed(y) /\ y.error
  BY <1>2 DEF Stuck, Shape
<1>4. g = [y EXCEPT !.ret = EOF]
  BY <1>1, <1>3 DEF FillWritten
<1>5. Alike(g, y) /\ g.ret = EOF
  <2>1. g.ret = EOF
    BY <1>3, <1>4 DEF Typed
  <2> QED
    BY <1>3, <1>4, <2>1, RetAlike
<1>6. Stuck(g) /\ g.mode = f.mode
  BY <1>2, <1>5, AlikeKeeps DEF Alike
<1> QED
  BY <1>5, <1>6 DEF IsGot, Stuck

\* A line-buffered stream shows its room first.
LEMMA FillLinedDoes ==
  ASSUME NEW f, Stuck(f) \/ (Reads(f) /\ ~f.pushed /\ Going(f)),
         NEW g, g = FillLined(f)
  PROVE  IsGot(g, f)
<1> DEFINE y == IF f.active THEN [f EXCEPT !.putl = BufSize, !.active = FALSE]
                ELSE [f EXCEPT !.seen = TRUE]
<1>0. Typed(f) /\ Shape(f)
  BY DEF Stuck, Reads, Safe, Shape
<1>1. g = FillNormal(y)
  BY DEF FillLined
<1>2. CASE ~f.active
  <2>1. y = [f EXCEPT !.seen = TRUE]
    BY <1>2
  <2>2. Alike(y, f)
    BY <1>0, <2>1, SeenAlike
  <2> HIDE DEF y
  <2>3. ASSUME Stuck(f) PROVE IsGot(g, f)
    <3>1. IsGot(g, y)
      BY <1>1, <2>2, <2>3, AlikeKeeps, FillNormalStuck
    <3> QED
      BY <2>2, <3>1 DEF Alike, IsGot
  <2>4. ASSUME Reads(f), ~f.pushed, Going(f) PROVE IsGot(g, f)
    <3>1. Reads(y) /\ ~y.pushed /\ ~y.active /\ Going(y)
      BY <1>2, <2>2, <2>4, AlikeKeeps DEF Alike, Going, Buffered
    <3>2. IsGot(g, y)
      BY <1>1, <3>1, FillNormalDoes
    <3> QED
      BY <2>2, <3>2 DEF Alike, IsGot
  <2> QED
    BY <2>3, <2>4
<1>3. CASE f.active
  <2>1. y = [f EXCEPT !.putl = BufSize, !.active = FALSE]
    BY <1>3
  <2> HIDE DEF y
  <2>2. /\ y.file = f.file /\ y.kpos = f.kpos /\ y.buf = f.buf /\ y.bufp = f.bufp
        /\ y.getl = f.getl /\ y.target = f.target /\ y.offset = f.offset
        /\ y.pushed = f.pushed /\ y.pushbufp = f.pushbufp /\ y.eof = f.eof
        /\ y.error = f.error /\ y.mode = f.mode /\ y.active = FALSE /\ y.putl = BufSize
    BY <1>0, <2>1 DEF Typed
  <2>3. Typed(y)
    BY <1>0, <2>1, <2>2 DEF Typed
  <2>4. IsHidden(y, f)
    BY <2>2, <2>3 DEF IsHidden
  <2>5. f.mode.write /\ Linebuf(f) /\ Buffered(f)
    BY <1>0, <1>3 DEF Shape, Linebuf, Buffered
  <2>6. /\ Safe(f) => Safe(y)
        /\ Stuck(f) => Stuck(y)
        /\ Standing(f) => Standing(y)
        /\ Buffered(y) <=> Buffered(f)
    BY <2>2, <2>4, <2>5, HiddenKeeps
  <2>7. ASSUME Stuck(f) PROVE IsGot(g, f)
    <3>1. IsGot(g, y)
      BY <1>1, <2>6, <2>7, FillNormalStuck
    <3> QED
      BY <2>2, <3>1 DEF IsGot
  <2>8. ASSUME Reads(f), ~f.pushed, Going(f) PROVE IsGot(g, f)
    <3>1. ~f.eof
      BY <2>5, <2>8 DEF Going
    <3>2. Safe(y) /\ Standing(y) /\ ~y.pushed /\ ~y.active /\ ~y.eof
      BY <2>2, <2>6, <2>8, <3>1 DEF Reads
    <3>3. Even(y)
      BY <1>3, <2>2, <2>6, <2>8 DEF Reads, Even
    <3>4. Reads(y) /\ Going(y)
      BY <3>2, <3>3 DEF Reads, Going
    <3>5. IsGot(g, y)
      BY <1>1, <3>2, <3>4, FillNormalDoes
    <3> QED
      BY <2>2, <3>5 DEF IsGot
  <2> QED
    BY <2>7, <2>8
<1> QED
  BY <1>2, <1>3

LEMMA FillBfDoes ==
  ASSUME NEW f, Stuck(f) \/ (Reads(f) /\ Going(f)), NEW g, g = FillBf(f)
  PROVE  IsGot(g, f)
<1> DEFINE x == IF Linebuf(f) /\ f.mode.write THEN Flshfp(f, EOF) ELSE f
<1>0. Typed(f)
  BY DEF Stuck, Reads, Safe, Shape
<1>1. CASE f.pushed
  <2>1. Reads(f) /\ ~f.eof
    BY <1>1 DEF Stuck, Reads, Ended
  <2> DEFINE u == Unpush(f)
  <2>2. Reads(u) /\ ~u.pushed /\ u.mode = f.mode /\ u.eof = f.eof
    BY <2>1, UnpushDoes
  <2>3. g = [u EXCEPT !.ret = f.pushc]
    BY <1>1 DEF FillBf
  <2> HIDE DEF u
  <2>4. Alike(g, u)
    BY <2>2, <2>3, RetAlike DEF Reads, Safe, Shape
  <2>5. Reads(g) /\ ~g.pushed /\ g.mode = f.mode /\ ~g.eof
    BY <2>1, <2>2, <2>4, AlikeKeeps DEF Alike
  <2> QED
    BY <2>5 DEF IsGot
<1>2. CASE ~f.pushed
  <2>1. g = FillLined(x)
    BY <1>2 DEF FillBf
  <2>2. CASE Stuck(f)
    <3>1. x = f \/ (Alike(x, f))
      BY <1>0, <2>2, FlushError DEF Stuck
    <3>2. Stuck(x) /\ x.mode = f.mode
      <4> HIDE DEF x
      <4> QED
        BY <2>2, <3>1, AlikeKeeps DEF Alike
    <3> HIDE DEF x
    <3>3. IsGot(g, x)
      BY <2>1, <3>2, FillLinedDoes
    <3> QED
      BY <3>2, <3>3 DEF IsGot
  <2>3. CASE Reads(f) /\ Going(f)
    <3>1. CASE ~(Linebuf(f) /\ f.mode.write)
      <4>1. x = f
        BY <3>1
      <4> QED
        BY <1>2, <2>1, <2>3, <4>1, FillLinedDoes
    <3>2. CASE Linebuf(f) /\ f.mode.write
      <4>1. x = Flshfp(f, EOF)
        BY <3>2
      <4>2. Writes(f) /\ Even(f) /\ Standing(f)
        BY <1>2, <2>3, <3>2 DEF Reads, Going, Writes
      <4> HIDE DEF x
      <4>3. IsFlush(x, f)
        BY <4>1, <4>2, FlushDoes
      <4>4. Writes(x) /\ Even(x) /\ Standing(x) /\ x.mode = f.mode
        BY <4>2, <4>3 DEF IsFlush
      <4>5. Reads(x) /\ ~x.pushed /\ Going(x)
        BY <4>4 DEF Writes, Reads, Going
      <4>6. IsGot(g, x)
        BY <2>1, <4>5, FillLinedDoes
      <4> QED
        BY <4>4, <4>6 DEF IsGot
    <3> QED
      BY <3>1, <3>2
  <2> QED
    BY <2>2, <2>3
<1> QED
  BY <1>1, <1>2

\* The program takes n characters out of the buffer.
LEMMA TakeKeeps ==
  ASSUME NEW f, Reads(f), NEW n \in Nat, f.bufp + n <= f.getl,
         NEW g, g = [f EXCEPT !.bufp = f.bufp + n]
  PROVE  /\ Reads(g) /\ g.mode = f.mode /\ g.bufp = f.bufp + n /\ g.getl = f.getl
         /\ g.pushed = f.pushed /\ g.eof = f.eof /\ g.file = f.file
         /\ g.target = f.target /\ g.offset = f.offset /\ g.kpos = f.kpos
<1>0. /\ Typed(f) /\ Safe(f) /\ Shape(f) /\ Even(f) /\ BufSize \in Nat \ {0}
      /\ f.bufp \in 0 .. BufSize /\ f.getl \in 0 .. BufSize
  BY StreamAssumption DEF Reads, Safe, Shape, Typed
<1>1. f.bufp + n \in 0 .. BufSize
  BY <1>0
<1>2. /\ g.file = f.file /\ g.kpos = f.kpos /\ g.buf = f.buf /\ g.bufp = f.bufp + n
      /\ g.getl = f.getl /\ g.putl = f.putl /\ g.target = f.target
      /\ g.offset = f.offset /\ g.pushed = f.pushed /\ g.pushbufp = f.pushbufp
      /\ g.eof = f.eof /\ g.error = f.error /\ g.active = f.active /\ g.mode = f.mode
  BY <1>0 DEF Typed
<1>3. Typed(g)
  BY <1>0, <1>1, <1>2 DEF Typed
<1>4. (Buffered(g) <=> Buffered(f)) /\ (Linebuf(g) <=> Linebuf(f))
  BY <1>2 DEF Buffered, Linebuf
<1>5. ~Buffered(f) => g.bufp = 0
  BY <1>0, <1>2 DEF Shape
<1>6. Shape(g)
  BY <1>0, <1>2, <1>3, <1>4, <1>5 DEF Shape
<1>7. f.mode.write => Clean(g)
  <2>1. ASSUME f.mode.write, NEW i \in 0 .. BufSize - 1,
               i < g.bufp \/ i < g.getl \/ (g.pushed /\ i < g.pushbufp)
        PROVE  g.buf[i] \in Byte
    <3>1. i < f.getl \/ (f.pushed /\ i < f.pushbufp)
      BY <1>0, <1>1, <1>2, <2>1
    <3> QED
      BY <1>0, <1>2, <2>1, <3>1 DEF Safe, Clean
  <2> QED
    BY <2>1 DEF Clean
<1>8. Buffered(f) => Known(g)
  BY <1>0, <1>2 DEF Safe, Known
<1>9. Safe(g)
  BY <1>0, <1>2, <1>4, <1>6, <1>7, <1>8 DEF Safe
<1>10. Even(g)
  BY <1>0, <1>2, <1>4 DEF Even
<1>11. Standing(g)
  BY <1>2, <1>4 DEF Reads, Standing
<1>12. g.eof => Ended(g)
  <2>1. HAVE g.eof
  <2>2. Ended(f)
    BY <1>2, <2>1 DEF Reads
  <2>3. g.bufp = 0
    BY <1>0, <1>2, <2>2 DEF Ended
  <2> QED
    BY <1>2, <1>4, <2>2, <2>3 DEF Ended
<1>13. g.pushed => g.bufp = g.getl /\ g.pushbufp <= g.getl
  BY <1>0, <1>2 DEF Reads
<1>14. Reads(g)
  BY <1>9, <1>10, <1>11, <1>12, <1>13 DEF Reads
<1> QED
  BY <1>2, <1>14

\* getc.
LEMMA GetcDoes ==
  ASSUME NEW f, Stuck(f) \/ (Reads(f) /\ Going(f)), NEW g, g = Getc(f)
  PROVE  (Stuck(g) \/ Reads(g)) /\ g.mode = f.mode
<1>0. /\ Typed(f) /\ f.bufp \in Nat /\ f.getl \in Nat
  BY StreamAssumption DEF Stuck, Reads, Safe, Shape, Typed
<1>1. CASE f.bufp < f.getl
  <2>1. Reads(f)
    BY <1>0, <1>1 DEF Stuck
  <2> DEFINE x == [f EXCEPT !.bufp = f.bufp + 1]
             c == f.buf[f.bufp]
  <2>2. Reads(x)
    BY <1>0, <1>1, <2>1, TakeKeeps
  <2>3. g = [x EXCEPT !.ret = c]
    BY <1>0, <1>1 DEF Getc, Typed
  <2> HIDE DEF x, c
  <2>4. Alike(g, x)
    BY <2>2, <2>3, RetAlike DEF Reads, Safe, Shape
  <2>5. x.mode = f.mode
    BY <1>0 DEF x, Typed
  <2> QED
    BY <2>2, <2>4, <2>5, AlikeKeeps DEF Alike
<1>2. CASE ~(f.bufp < f.getl)
  <2>1. IsGot(g, f)
    BY <1>2, FillBfDoes DEF Getc
  <2> QED
    BY <2>1 DEF IsGot
<1> QED
  BY <1>1, <1>2

-----------------------------------------------------------------------------
(* fread.                                                                  *)

\* Induction, with the numbers it is about as a set.
LEMMA SetInduction ==
  ASSUME NEW T, 0 \in T, \A k \in Nat : k \in T => k + 1 \in T
  PROVE  \A k \in Nat : k \in T
<1> DEFINE U == {k \in Nat : k \notin T}
<1>1. SUFFICES ASSUME U # {} PROVE FALSE
  OBVIOUS
<1>2. PICK m \in U : \A j \in U : ~(j < m)
  <2>1. PICK m \in U : \A j \in U : ~(<<j, m>> \in OpToRel(<, Nat))
    BY <1>1, NatLessThanWellFounded, WFMin
  <2> QED
    BY <2>1 DEF OpToRel
<1>3. m \in Nat /\ m # 0
  BY <1>2
<1>4. m - 1 \in Nat /\ m - 1 \notin U
  BY <1>2, <1>3
<1>5. m - 1 + 1 \in T
  BY <1>4
<1> QED
  BY <1>2, <1>3, <1>5

\* The loop of fread is a function on the numbers of its rounds.
IsReadLoop(a, n, x) ==
  a = [i \in 0 .. n |-> IF i = 0 THEN x ELSE ReadOn(a[i - 1])]

LEMMA ReadLoop ==
  ASSUME NEW n \in Nat, NEW x
  PROVE  \E a : IsReadLoop(a, n, x)
<1> DEFINE Good(k) == \E a : IsReadLoop(a, k, x)
           T == {k \in Nat : Good(k)}
<1>1. Good(0)
  <2> DEFINE a == [i \in 0 .. 0 |-> x]
  <2>1. IsReadLoop(a, 0, x)
    BY DEF IsReadLoop
  <2> QED
    BY <2>1
<1>2. ASSUME NEW k \in Nat, Good(k) PROVE Good(k + 1)
  <2>0. PICK a : IsReadLoop(a, k, x)
    BY <1>2
  <2>1. a = [i \in 0 .. k |-> IF i = 0 THEN x ELSE ReadOn(a[i - 1])]
    BY <2>0 DEF IsReadLoop
  <2> DEFINE b == [i \in 0 .. k + 1 |-> IF i <= k THEN a[i] ELSE ReadOn(a[k])]
  <2>2. ASSUME NEW i \in 0 .. k + 1
        PROVE  b[i] = IF i = 0 THEN x ELSE ReadOn(b[i - 1])
    <3>1. CASE i = 0
      BY <2>1, <3>1
    <3>2. CASE i # 0 /\ i <= k
      <4>1. i - 1 \in 0 .. k /\ i \in 0 .. k /\ i - 1 \in 0 .. k + 1
        BY <2>2, <3>2
      <4>2. b[i - 1] = a[i - 1] /\ b[i] = a[i]
        BY <4>1, <3>2
      <4>3. a[i] = ReadOn(a[i - 1])
        BY <2>1, <4>1, <3>2
      <4> HIDE DEF b
      <4> QED
        BY <4>2, <4>3, <3>2
    <3>3. CASE i = k + 1
      <4>1. b[i - 1] = a[k] /\ i # 0
        BY <3>3
      <4>2. b[i] = ReadOn(a[k])
        BY <3>3
      <4> HIDE DEF b
      <4> QED
        BY <4>1, <4>2, <3>3
    <3> QED
      BY <2>2, <3>1, <3>2, <3>3
  <2>3. IsReadLoop(b, k + 1, x)
    BY <2>2 DEF IsReadLoop
  <2> QED
    BY <2>3
<1> HIDE DEF Good
<1>3. 0 \in T /\ \A k \in Nat : k \in T => k + 1 \in T
  BY <1>1, <1>2
<1>4. n \in T
  <2> HIDE DEF T
  <2> QED
    BY <1>3, SetInduction
<1> QED
  BY <1>4 DEF Good

\* What holds after each round: a stream that failed or met the end of the file
\* is asked for nothing more.
Reading(r, m) ==
  /\ r.left \in Nat /\ r.f.mode = m
  /\ \/ r.left = 0 /\ (Stuck(r.f) \/ Reads(r.f))
     \/ Reads(r.f) /\ ~r.f.eof /\ ~r.f.pushed

LEMMA ReadOneDoes ==
  ASSUME NEW r, Reads(r.f), ~r.f.eof, r.left \in Nat \ {0}
  PROVE  Reading(ReadOne(r), r.f.mode)
<1> DEFINE g == FillBf(r.f)
<1>1. IsGot(g, r.f)
  BY FillBfDoes DEF Going
<1>2. ReadOne(r) = Took(g, r)
  BY DEF ReadOne
<1> HIDE DEF g
<1>3. CASE g.ret = EOF
  BY <1>1, <1>2, <1>3 DEF Took, IsGot, Reading
<1>4. CASE g.ret # EOF
  <2>1. Reads(g) /\ ~g.eof /\ ~g.pushed /\ g.mode = r.f.mode
    BY <1>1, <1>4 DEF IsGot
  <2>2. r.left - 1 \in Nat
    OBVIOUS
  <2> QED
    BY <1>2, <1>4, <2>1, <2>2 DEF Took, Reading
<1> QED
  BY <1>3, <1>4

\* g is f after fread read into the array of the caller, past the buffer.
IsDirect(g, f, left, avail, moved) ==
  /\ avail = Least(left, Most(0, Len(f.file) - f.kpos))
  /\ moved = IF f.offset = -1 THEN 0 ELSE avail
  /\ g = [f EXCEPT !.kpos = f.kpos + avail, !.offset = f.offset + moved,
                   !.target = f.target + moved, !.eof = f.eof \/ avail < left]

LEMMA DirectDoes ==
  ASSUME NEW f, Reads(f), ~f.eof, ~f.pushed, f.bufp = f.getl, f.offset = f.target,
         NEW left \in Nat \ {0}, NEW avail, NEW moved, NEW g,
         IsDirect(g, f, left, avail, moved)
  PROVE  Reads(g) /\ g.mode = f.mode
<1> DEFINE e == f.eof \/ avail < left
<1>0. /\ Typed(f) /\ Safe(f) /\ Shape(f) /\ Standing(f) /\ BufSize \in Nat \ {0}
      /\ f.kpos \in Nat /\ f.offset \in Nat \cup {-1} /\ Len(f.file) \in Nat
      /\ f.getl \in 0 .. BufSize /\ f.eof = FALSE
  BY StreamAssumption DEF Reads, Safe, Shape, Typed
<1>1. /\ avail \in Nat /\ avail <= left
      /\ f.kpos <= Len(f.file) => f.kpos + avail <= Len(f.file)
      /\ avail < left => Len(f.file) <= f.kpos + avail
  <2> DEFINE a == Most(0, Len(f.file) - f.kpos)
  <2>1. /\ a \in Nat
        /\ f.kpos <= Len(f.file) => a = Len(f.file) - f.kpos
        /\ Len(f.file) <= f.kpos => a = 0
    BY <1>0 DEF Most
  <2>2. avail = Least(left, a)
    BY DEF IsDirect
  <2> HIDE DEF a
  <2>3. avail \in Nat /\ avail <= left /\ avail <= a /\ (avail < left => avail = a)
    BY <2>1, <2>2 DEF Least
  <2> QED
    BY <1>0, <2>1, <2>3
<1>2. moved \in Nat /\ (f.offset # -1 => moved = avail) /\ (f.offset = -1 => moved = 0)
  BY <1>1 DEF IsDirect
<1>3. /\ f.kpos + avail \in Nat /\ f.offset + moved \in Nat \cup {-1}
      /\ (f.offset + moved = -1 <=> f.offset = -1)
  BY <1>0, <1>1, <1>2
<1>4. g = [f EXCEPT !.kpos = f.kpos + avail, !.offset = f.offset + moved,
                    !.target = f.offset + moved, !.eof = e]
  BY DEF IsDirect
<1>5. e \in BOOLEAN /\ (e => Len(f.file) <= f.kpos + avail)
  BY <1>0, <1>1
<1> HIDE DEF e
<1>6. /\ g.file = f.file /\ g.kpos = f.kpos + avail /\ g.buf = f.buf /\ g.bufp = f.bufp
      /\ g.getl = f.getl /\ g.putl = f.putl /\ g.target = f.offset + moved
      /\ g.offset = f.offset + moved /\ g.pushed = f.pushed
      /\ g.pushbufp = f.pushbufp /\ g.eof = e /\ g.error = f.error
      /\ g.active = f.active /\ g.mode = f.mode
  BY <1>0, <1>4 DEF Typed
<1>7. Typed(g)
  BY <1>0, <1>3, <1>4, <1>5, <1>6 DEF Typed
<1>8. (Buffered(g) <=> Buffered(f)) /\ (Linebuf(g) <=> Linebuf(f))
  BY <1>6 DEF Buffered, Linebuf
<1>9. f.getl = 0 /\ f.bufp = 0
  <2>1. CASE Buffered(f)
    <3>1. Known(f)
      BY <1>0, <2>1 DEF Safe
    <3>2. CASE f.target = -1
      BY <3>1, <3>2 DEF Known
    <3>3. CASE f.target # -1
      <4>1. f.target + f.getl <= f.offset
        BY <3>1, <3>3 DEF Known
      <4>2. f.target \in Nat
        BY <1>0, <3>3
      <4> QED
        BY <1>0, <4>1, <4>2
    <3> QED
      BY <3>2, <3>3
  <2>2. CASE ~Buffered(f)
    BY <1>0, <2>2 DEF Shape
  <2> QED
    BY <2>1, <2>2
<1>10. Shape(g)
  BY <1>0, <1>6, <1>7, <1>8 DEF Shape
<1>11. f.mode.write => Clean(g)
  BY <1>0, <1>6 DEF Safe, Clean
<1>12. ASSUME Buffered(f) PROVE Known(g) /\ (g.offset # -1 => g.offset = g.kpos)
  <2>1. /\ f.mode.write => f.kpos <= Len(f.file)
        /\ f.target # -1 => f.offset = f.kpos
    BY <1>0, <1>12 DEF Safe, Known, Standing
  <2>2. g.offset # -1 => g.offset = g.kpos
    BY <1>0, <1>2, <1>3, <1>6, <2>1
  <2>3. g.mode.write => g.kpos <= Len(g.file)
    BY <1>1, <1>6, <2>1
  <2>4. g.target = g.offset /\ g.getl = 0 /\ g.offset \in Nat \cup {-1} /\ g.kpos \in Nat
    BY <1>3, <1>6, <1>9
  <2> QED
    BY <2>2, <2>3, <2>4 DEF Known
<1>13. Safe(g)
  BY <1>0, <1>6, <1>8, <1>10, <1>11, <1>12 DEF Safe
<1>14. Even(g) /\ Standing(g)
  BY <1>6, <1>8, <1>9, <1>12 DEF Even, Standing
<1>15. g.eof => Ended(g)
  BY <1>5, <1>6, <1>8, <1>9, <1>12 DEF Ended
<1>16. Reads(g)
  BY <1>6, <1>13, <1>14, <1>15 DEF Reads
<1> QED
  BY <1>6, <1>16

LEMMA ReadMoreDoes ==
  ASSUME NEW r, Reads(r.f), ~r.f.eof, ~r.f.pushed, r.left \in Nat \ {0}
  PROVE  Reading(ReadMore(r), r.f.mode)
<1> DEFINE h     == r.f
           copy  == Least(h.getl - h.bufp, r.left)
           f     == [h EXCEPT !.bufp = h.bufp + copy]
           got   == r.got \o Slice(h, h.bufp, h.bufp + copy)
           left  == r.left - copy
           avail == Least(left, Most(0, Len(f.file) - f.kpos))
           moved == IF f.offset = -1 THEN 0 ELSE avail
           g     == [f EXCEPT !.kpos = @ + avail, !.offset = @ + moved,
                              !.target = @ + moved, !.eof = @ \/ avail < left]
<1>0. /\ Typed(h) /\ Shape(h) /\ Even(h) /\ BufSize \in Nat \ {0}
      /\ h.bufp \in Nat /\ h.getl \in Nat
  BY StreamAssumption DEF Reads, Safe, Shape, Typed
<1>1. h.bufp <= h.getl
  BY <1>0 DEF Even, Shape
<1>2. /\ copy \in Nat /\ h.bufp + copy <= h.getl /\ copy <= r.left
      /\ copy # r.left => h.bufp + copy = h.getl
  BY <1>0, <1>1 DEF Least
<1> HIDE DEF copy
<1>3. left \in Nat /\ (left # 0 => h.bufp + copy = h.getl)
  BY <1>2
<1>4. ReadMore(r) =
        IF left = 0 THEN [f |-> f, got |-> got, left |-> 0]
        ELSE IF left >= Cap(f) /\ f.offset = f.target
        THEN [f |-> g, got |-> got \o SubSeq(f.file, f.kpos + 1, f.kpos + avail),
              left |-> 0]
        ELSE ReadOne([f |-> f, got |-> got, left |-> left])
  BY DEF ReadMore, copy
<1> HIDE DEF left, h
<1>5. /\ Reads(f) /\ f.mode = h.mode /\ f.bufp = h.bufp + copy /\ f.getl = h.getl
      /\ ~f.pushed /\ ~f.eof
  <2>1. Reads(h) /\ ~h.pushed /\ ~h.eof
    BY DEF h
  <2> QED
    BY <1>2, <2>1, TakeKeeps
<1> HIDE DEF f, got
<1>6. CASE left = 0
  <2>1. ReadMore(r) = [f |-> f, got |-> got, left |-> 0]
    BY <1>4, <1>6
  <2> QED
    BY <1>5, <2>1 DEF Reading, h
<1>7. CASE left # 0 /\ left >= Cap(f) /\ f.offset = f.target
  <2>1. Reads(g) /\ g.mode = f.mode
    <3>1. f.bufp = f.getl /\ left \in Nat \ {0}
      BY <1>3, <1>5, <1>7
    <3>2. IsDirect(g, f, left, avail, moved)
      BY DEF IsDirect
    <3> HIDE DEF g, avail, moved
    <3> QED
      BY <1>5, <1>7, <3>1, <3>2, DirectDoes
  <2> HIDE DEF g
  <2>2. ReadMore(r) = [f |-> g, left |-> 0,
                       got |-> got \o SubSeq(f.file, f.kpos + 1, f.kpos + avail)]
    BY <1>4, <1>7
  <2> HIDE DEF avail
  <2> QED
    BY <1>5, <2>1, <2>2 DEF Reading, h
<1>8. CASE left # 0 /\ ~(left >= Cap(f) /\ f.offset = f.target)
  <2> DEFINE q == [f |-> f, got |-> got, left |-> left]
  <2>1. ReadMore(r) = ReadOne(q)
    BY <1>4, <1>8
  <2>2. q.f = f /\ q.left = left
    OBVIOUS
  <2> HIDE DEF q
  <2>3. Reading(ReadOne(q), q.f.mode)
    BY <1>3, <1>5, <1>8, <2>2, ReadOneDoes
  <2> QED
    BY <1>5, <2>1, <2>2, <2>3 DEF h
<1> QED
  BY <1>6, <1>7, <1>8

LEMMA FreadDoes ==
  ASSUME NEW f, Stuck(f) \/ Reads(f), NEW n \in Nat \ {0}, NEW g, g = Fread(f, n)
  PROVE  (Stuck(g) \/ Reads(g)) /\ g.mode = f.mode
<1>0. Typed(f)
  BY DEF Stuck, Reads, Safe, Shape
<1>1. CASE f.eof \/ f.error
  <2>1. g = [f EXCEPT !.ret = <<>>]
    BY <1>1 DEF Fread
  <2>2. Alike(g, f)
    BY <1>0, <2>1, RetAlike
  <2> QED
    BY <2>2, AlikeKeeps DEF Alike
<1>2. CASE ~f.eof /\ ~f.error
  <2>1. Reads(f)
    BY <1>2 DEF Stuck
  <2> DEFINE start == [f |-> f, got |-> <<>>, left |-> n]
             first == IF ~f.seen \/ ~Buffered(f) \/ f.pushed THEN ReadOne(start)
                      ELSE start
             all   == CHOOSE a : a = [i \in 0 .. n |-> IF i = 0 THEN first
                                                       ELSE ReadOn(a[i - 1])]
  <2>2. g = Delivered(all[n])
    BY <1>2 DEF Fread
  <2>3. Reading(first, f.mode)
    <3>1. start.f = f /\ start.left = n
      OBVIOUS
    <3> HIDE DEF start
    <3>2. CASE ~f.seen \/ ~Buffered(f) \/ f.pushed
      <4>1. Reading(ReadOne(start), f.mode)
        BY <1>2, <2>1, <3>1, ReadOneDoes
      <4> QED
        BY <3>2, <4>1
    <3>3. CASE ~(~f.seen \/ ~Buffered(f) \/ f.pushed)
      <4>1. first = start
        BY <3>3
      <4> QED
        BY <1>2, <2>1, <3>1, <3>3, <4>1 DEF Reading
    <3> QED
      BY <3>2, <3>3
  <2> HIDE DEF first
  <2>4. all = [i \in 0 .. n |-> IF i = 0 THEN first ELSE ReadOn(all[i - 1])]
    <3>1. \E a : IsReadLoop(a, n, first)
      BY ReadLoop
    <3>2. all = CHOOSE a : IsReadLoop(a, n, first)
      BY DEF IsReadLoop
    <3> HIDE DEF all
    <3>3. IsReadLoop(all, n, first)
      BY <3>1, <3>2
    <3> QED
      BY <3>3 DEF IsReadLoop
  <2> HIDE DEF all
  <2> DEFINE T == {k \in Nat : k <= n => Reading(all[k], f.mode)}
  <2>5. 0 \in T
    BY <2>3, <2>4
  <2>6. ASSUME NEW k \in Nat, k \in T PROVE k + 1 \in T
    <3>1. SUFFICES ASSUME k + 1 <= n PROVE Reading(all[k + 1], f.mode)
      OBVIOUS
    <3>2. Reading(all[k], f.mode)
      BY <2>6, <3>1
    <3>3. all[k + 1] = ReadOn(all[k])
      BY <2>4, <3>1
    <3> DEFINE r == all[k]
    <3> HIDE DEF r
    <3>4. Reading(r, f.mode) /\ all[k + 1] = ReadOn(r)
      BY <3>2, <3>3 DEF r
    <3>5. CASE r.left = 0
      BY <3>4, <3>5 DEF ReadOn
    <3>6. CASE r.left # 0
      <4>1. Reads(r.f) /\ ~r.f.eof /\ ~r.f.pushed /\ r.left \in Nat \ {0}
            /\ r.f.mode = f.mode
        BY <3>4, <3>6 DEF Reading
      <4>2. Reading(ReadMore(r), r.f.mode)
        BY <4>1, ReadMoreDoes
      <4> QED
        BY <3>4, <3>6, <4>1, <4>2 DEF ReadOn
    <3> QED
      BY <3>5, <3>6
  <2>7. n \in T
    <3> HIDE DEF T
    <3> QED
      BY <2>5, <2>6, SetInduction
  <2>8. Reading(all[n], f.mode)
    BY <2>7
  <2> DEFINE r == all[n]
  <2> HIDE DEF r
  <2>9. g = [r.f EXCEPT !.ret = r.got] /\ (Stuck(r.f) \/ Reads(r.f)) /\ r.f.mode = f.mode
    BY <2>2, <2>8 DEF Delivered, Reading, r
  <2>10. Typed(r.f)
    BY <2>9 DEF Stuck, Reads, Safe, Shape
  <2> DEFINE h == r.f
             v == r.got
  <2>11. /\ g = [h EXCEPT !.ret = v] /\ Typed(h) /\ (Stuck(h) \/ Reads(h))
         /\ h.mode = f.mode
    BY <2>9, <2>10
  <2> HIDE DEF h, v
  <2>12. Alike(g, h)
    BY <2>11, RetAlike
  <2> QED
    BY <2>11, <2>12, AlikeKeeps DEF Alike
<1> QED
  BY <1>1, <1>2

-----------------------------------------------------------------------------
(* fwrite.                                                                 *)

\* What output leaves: a stream with room, or one on which a write failed.
IsOutput(g, m) == g.mode = m /\ (Stuck(g) \/ (Writes(g) /\ Roomy(g)))

\* The value returned does not matter.
LEMMA OutputRet ==
  ASSUME NEW f, NEW m, IsOutput(f, m), NEW v
  PROVE  IsOutput([f EXCEPT !.ret = v], m)
<1> DEFINE g == [f EXCEPT !.ret = v]
<1>1. Typed(f)
  BY DEF IsOutput, Stuck, Writes, Safe, Shape
<1>2. Alike(g, f)
  BY <1>1, RetAlike
<1> HIDE DEF g
<1>3. IsOutput(g, m)
  BY <1>2, AlikeKeeps DEF IsOutput, Alike
<1> QED
  BY <1>3 DEF g

\* Flushing for more output empties the buffer, or fails.
LEMMA OutputFlush ==
  ASSUME NEW f, NEW m, IsOutput(f, m), NEW g, g = Flshfp(f, EOF)
  PROVE  IsOutput(g, m) /\ (g.error \/ g.bufp = 0)
<1>1. CASE Stuck(f)
  <2>1. Alike(g, f) /\ f.error
    BY <1>1, FlushError DEF Stuck, Shape
  <2> QED
    BY <1>1, <2>1, AlikeKeeps DEF IsOutput, Alike
<1>2. CASE Writes(f) /\ Roomy(f)
  <2>1. IsFlush(g, f)
    BY <1>2, FlushDoes
  <2> QED
    BY <1>2, <2>1 DEF IsFlush, IsOutput, Stuck
<1> QED
  BY <1>1, <1>2 DEF IsOutput

\* fwrite past the buffer, when the buffer is empty.
LEMMA WriteThroughDoes ==
  ASSUME NEW f, Writes(f), Roomy(f), AtTarget(f), f.bufp = 0,
         Buffered(f) /\ ~f.mode.append => f.offset # -1,
         NEW d \in Seq(Char), d # <<>>, NEW before \in Nat,
         NEW g, g = WriteThrough(f, d, before)
  PROVE  IsOutput(g, f.mode)
<1> DEFINE w == SysWrite(f, d)
<1>0. /\ Safe(f) /\ Typed(f) /\ Shape(f) /\ f.mode.write /\ ~f.pushed /\ ~f.eof
      /\ ~f.error /\ f.kpos \in Nat /\ f.offset \in Nat \cup {-1} /\ Len(f.file) \in Nat
      /\ f.offset = f.target /\ d \in Seq(Byte) /\ Len(d) \in Nat \ {0}
      /\ f.getl \in 0 .. BufSize /\ BufSize \in Nat \ {0}
  BY StreamAssumption DEF Writes, Safe, Shape, Typed, AtTarget, Byte
<1>1. /\ Typed(w)
      /\ w = [f EXCEPT !.file = w.file, !.kpos = w.kpos, !.ret = w.ret]
      /\ w.ret \in {-1, Len(d)} /\ Len(f.file) <= Len(w.file)
      /\ w.ret = Len(d) => w.kpos = At(f) + Len(d) /\ At(f) + Len(d) <= Len(w.file)
      /\ w.ret = -1 => /\ f.mode.append => Len(w.file) = MaxFile
                       /\ ~f.mode.append => MaxFile <= w.kpos
  BY <1>0, SysWriteDoes
<1>2. g = IF w.ret <= 0 THEN [w EXCEPT !.error = TRUE, !.ret = before]
          ELSE [w EXCEPT !.offset = IF w.offset = -1 THEN w.offset ELSE w.offset + w.ret,
                         !.target = IF f.offset = -1 THEN w.target ELSE f.offset + w.ret,
                         !.ret = before + w.ret]
  BY DEF WriteThrough
<1> HIDE DEF w
<1>3. /\ w.buf = f.buf /\ w.bufp = f.bufp /\ w.getl = f.getl /\ w.putl = f.putl
      /\ w.target = f.target /\ w.offset = f.offset /\ w.pushed = f.pushed
      /\ w.pushbufp = f.pushbufp /\ w.eof = f.eof /\ w.error = f.error
      /\ w.active = f.active /\ w.mode = f.mode
  BY <1>0, <1>1, ZenonT(60) DEF Typed
<1>4. (Buffered(w) <=> Buffered(f)) /\ (Linebuf(w) <=> Linebuf(f))
  BY <1>3 DEF Buffered, Linebuf
<1>5. f.getl = 0
  <2>1. CASE ~Buffered(f)
    BY <1>0, <2>1 DEF Shape
  <2>2. CASE Buffered(f)
    <3>1. Known(f)
      BY <1>0, <2>2 DEF Safe
    <3>2. CASE f.target = -1
      BY <3>1, <3>2 DEF Known
    <3>3. CASE f.target # -1
      <4>1. f.target + f.getl <= f.offset
        BY <3>1, <3>3 DEF Known
      <4> QED
        BY <1>0, <3>3, <4>1
    <3> QED
      BY <3>2, <3>3
  <2> QED
    BY <2>1, <2>2
<1>6. Shape(w)
  BY <1>0, <1>1, <1>3, <1>4 DEF Shape
<1>7. CASE w.ret = -1
  <2>1. g = [w EXCEPT !.error = TRUE, !.ret = before]
    BY <1>2, <1>7
  <2>10. Typed(w) /\ w.file \in Seq(Byte)
    BY <1>1 DEF Typed
  <2>2. /\ g.file = w.file /\ g.kpos = w.kpos /\ g.buf = f.buf /\ g.bufp = f.bufp
        /\ g.getl = f.getl /\ g.putl = f.putl /\ g.target = f.target
        /\ g.offset = f.offset /\ g.pushed = f.pushed /\ g.pushbufp = f.pushbufp
        /\ g.eof = f.eof /\ g.error /\ g.active = f.active /\ g.mode = f.mode
    BY <1>1, <1>3, <2>1 DEF Typed
  <2>3. Typed(g)
    <3>1. g.error \in BOOLEAN /\ g.file = w.file
      BY <2>2
    <3> QED
      BY <2>1, <2>10, <3>1, ZenonT(60) DEF Typed
  <2>4. (Buffered(g) <=> Buffered(f)) /\ (Linebuf(g) <=> Linebuf(f))
    BY <2>2 DEF Buffered, Linebuf
  <2>5. Shape(g)
    BY <1>0, <2>2, <2>3, <2>4 DEF Shape
  <2>6. ASSUME Buffered(f), ~f.mode.append
        PROVE  g.target # -1 /\ MaxFile <= g.kpos
    <3>1. g.target # -1
      BY <1>0, <2>2, <2>6
    <3>2. MaxFile <= g.kpos
      BY <1>1, <1>7, <2>2, <2>6
    <3> QED
      BY <3>1, <3>2
  <2>7. Stuck(g)
    BY <1>0, <1>1, <1>5, <1>7, <2>2, <2>4, <2>5, <2>6 DEF Stuck
  <2> QED
    BY <2>2, <2>7 DEF IsOutput
<1>8. CASE w.ret = Len(d)
  <2> DEFINE o == IF f.offset = -1 THEN -1 ELSE f.offset + Len(d)
             v == before + Len(d)
  <2>1. g = [w EXCEPT !.offset = o, !.target = o, !.ret = v]
    <3>1. ~(w.ret <= 0)
      BY <1>0, <1>8
    <3> QED
      BY <1>0, <1>2, <1>3, <1>8, <3>1
  <2>2. o \in Nat \cup {-1} /\ (o = -1 <=> f.offset = -1)
        /\ (f.offset # -1 => o = f.offset + Len(d))
    BY <1>0
  <2> HIDE DEF o, v
  <2>3. /\ g.file = w.file /\ g.kpos = w.kpos /\ g.buf = f.buf /\ g.bufp = f.bufp
        /\ g.getl = f.getl /\ g.putl = f.putl /\ g.target = o
        /\ g.offset = o /\ g.pushed = f.pushed /\ g.pushbufp = f.pushbufp
        /\ g.eof = f.eof /\ g.error = f.error /\ g.active = f.active /\ g.mode = f.mode
    BY <1>1, <1>3, <2>1 DEF Typed
  <2>4. Typed(g)
    <3>1. Typed(w) /\ o \in Nat \cup {-1}
      BY <1>1, <2>2
    <3> QED
      BY ONLY <2>1, <3>1 DEF Typed
  <2>5. (Buffered(g) <=> Buffered(f)) /\ (Linebuf(g) <=> Linebuf(f))
    BY <2>3 DEF Buffered, Linebuf
  <2>6. Shape(g)
    BY <1>0, <2>3, <2>4, <2>5 DEF Shape
  <2>7. Clean(g)
    BY <1>0, <2>3 DEF Clean, Safe
  <2>8. ASSUME Buffered(f) PROVE Known(g)
    <3>1. /\ f.kpos <= Len(f.file)
          /\ f.target # -1 => f.offset <= f.kpos
          /\ f.target # -1 /\ ~f.mode.append => f.offset = f.kpos
      BY <1>0, <2>8 DEF Safe, Known
    <3>2. /\ f.mode.append => At(f) = Len(f.file)
          /\ ~f.mode.append => At(f) = f.kpos
      BY DEF At
    <3>3. /\ w.kpos = At(f) + Len(d) /\ w.kpos <= Len(w.file)
      BY <1>0, <1>1, <1>8
    <3>4. o # -1 => o <= w.kpos /\ (~f.mode.append => o = w.kpos)
      BY <1>0, <2>2, <3>1, <3>2, <3>3, SMTT(30)
    <3> QED
      BY <1>0, <1>5, <2>2, <2>3, <3>3, <3>4 DEF Known
  <2>9. Writes(g)
    BY <1>0, <2>3, <2>5, <2>6, <2>7, <2>8 DEF Safe, Writes
  <2>10. Roomy(g)
    BY <2>3, <2>5 DEF Roomy
  <2> QED
    BY <2>3, <2>9, <2>10 DEF IsOutput
<1> QED
  BY <1>1, <1>7, <1>8

\* One round of the loop that stores the data in the buffer.
LEMMA StoreDoes ==
  ASSUME NEW f, NEW m, IsOutput(f, m), m.buffering # "none", NEW c \in Char
  PROVE  IsOutput(Store(f, c), m)
<1> DEFINE h == IF f.bufp = BufSize THEN Flush(f) ELSE f
           before == f.ret
<1>1. CASE f.error
  BY <1>1 DEF Store
<1>2. CASE ~f.error
  <2>1. Store(f, c) = Stored(h, c, before)
    BY <1>2 DEF Store
  <2>2. f.mode = m /\ f.mode.write
    BY DEF IsOutput, Writes, Stuck
  <2>3. IsOutput(h, m) /\ (h.error \/ h.bufp < BufSize)
    <3>1. CASE f.bufp = BufSize
      <4>1. h = Flshfp(f, EOF)
        BY <2>2, <3>1 DEF Flush
      <4> HIDE DEF h
      <4>2. IsOutput(h, m) /\ (h.error \/ h.bufp = 0)
        BY <4>1, OutputFlush
      <4> QED
        BY <4>2, StreamAssumption
    <3>2. CASE f.bufp # BufSize
      <4>1. Typed(f)
        BY DEF IsOutput, Writes, Stuck, Safe, Shape
      <4>2. f.bufp < BufSize
        BY <3>2, <4>1, StreamAssumption DEF Typed
      <4> QED
        BY <3>2, <4>2
    <3> QED
      BY <3>1, <3>2
  <2> HIDE DEF h, before
  <2>4. CASE h.error
    BY <2>1, <2>3, <2>4, OutputRet DEF Stored
  <2>5. CASE ~h.error
    <3> DEFINE p == Put(h, c)
               v == before + 1
    <3>1. Store(f, c) = [p EXCEPT !.ret = v]
      BY <2>1, <2>5 DEF Stored
    <3>2. Writes(h) /\ Roomy(h) /\ h.mode = m /\ h.bufp < BufSize
      BY <2>3, <2>5 DEF IsOutput, Stuck
    <3>3. Buffered(h)
      BY <3>2 DEF Buffered
    <3> HIDE DEF p, v
    <3>4. Writes(p) /\ p.mode = h.mode /\ (Roomy(h) => Roomy(p))
      BY <3>2, <3>3, PutKeeps DEF p
    <3>5. IsOutput(p, m)
      BY <3>2, <3>4 DEF IsOutput
    <3> QED
      BY <3>1, <3>5, OutputRet
  <2> QED
    BY <2>4, <2>5
<1> QED
  BY <1>1, <1>2

\* The loop is a function on the numbers of its rounds.
IsStoreLoop(a, n, x, d) ==
  a = [i \in 0 .. n |-> IF i = 0 THEN x ELSE Store(a[i - 1], d[i])]

LEMMA StoreLoop ==
  ASSUME NEW n \in Nat, NEW x, NEW d
  PROVE  \E a : IsStoreLoop(a, n, x, d)
<1> DEFINE Good(k) == \E a : IsStoreLoop(a, k, x, d)
           T == {k \in Nat : Good(k)}
<1>1. Good(0)
  <2> DEFINE a == [i \in 0 .. 0 |-> x]
  <2>1. IsStoreLoop(a, 0, x, d)
    BY DEF IsStoreLoop
  <2> QED
    BY <2>1
<1>2. ASSUME NEW k \in Nat, Good(k) PROVE Good(k + 1)
  <2>0. PICK a : IsStoreLoop(a, k, x, d)
    BY <1>2
  <2>1. a = [i \in 0 .. k |-> IF i = 0 THEN x ELSE Store(a[i - 1], d[i])]
    BY <2>0 DEF IsStoreLoop
  <2> DEFINE b == [i \in 0 .. k + 1 |-> IF i <= k THEN a[i] ELSE Store(a[k], d[i])]
  <2>2. ASSUME NEW i \in 0 .. k + 1
        PROVE  b[i] = IF i = 0 THEN x ELSE Store(b[i - 1], d[i])
    <3>1. CASE i = 0
      BY <2>1, <3>1
    <3>2. CASE i # 0 /\ i <= k
      <4>1. i - 1 \in 0 .. k /\ i \in 0 .. k /\ i - 1 \in 0 .. k + 1
        BY <2>2, <3>2
      <4>2. b[i - 1] = a[i - 1] /\ b[i] = a[i]
        BY <4>1, <3>2
      <4>3. a[i] = Store(a[i - 1], d[i])
        BY <2>1, <4>1, <3>2
      <4> HIDE DEF b
      <4> QED
        BY <4>2, <4>3, <3>2
    <3>3. CASE i = k + 1
      <4>1. b[i - 1] = a[k] /\ i # 0
        BY <3>3
      <4>2. b[i] = Store(a[k], d[i])
        BY <3>3
      <4> HIDE DEF b
      <4> QED
        BY <4>1, <4>2, <3>3
    <3> QED
      BY <2>2, <3>1, <3>2, <3>3
  <2>3. IsStoreLoop(b, k + 1, x, d)
    BY <2>2 DEF IsStoreLoop
  <2> QED
    BY <2>3
<1> HIDE DEF Good
<1>3. 0 \in T /\ \A k \in Nat : k \in T => k + 1 \in T
  BY <1>1, <1>2
<1>4. n \in T
  <2> HIDE DEF T
  <2> QED
    BY <1>3, SetInduction
<1> QED
  BY <1>4 DEF Good

LEMMA FillBufferDoes ==
  ASSUME NEW f, NEW m, IsOutput(f, m), m.buffering # "none", NEW d \in Seq(Char),
         NEW before, NEW newline
  PROVE  IsOutput(FillBuffer(f, d, before, newline), m)
<1> DEFINE n   == Len(d)
           x   == [f EXCEPT !.ret = before]
           all == CHOOSE a : a = [i \in 0 .. n |-> IF i = 0 THEN x
                                                   ELSE Store(a[i - 1], d[i])]
           h   == all[n]
           y   == Flush(h)
           v   == h.ret
<1>1. FillBuffer(f, d, before, newline) = FillDone(h, newline)
  BY DEF FillBuffer
<1>2. IsOutput(x, m)
  BY OutputRet
<1> HIDE DEF x
<1>3. all = [i \in 0 .. n |-> IF i = 0 THEN x ELSE Store(all[i - 1], d[i])]
  <2>0. n \in Nat
    OBVIOUS
  <2>1. \E a : IsStoreLoop(a, n, x, d)
    BY <2>0, StoreLoop
  <2>2. all = CHOOSE a : IsStoreLoop(a, n, x, d)
    BY DEF IsStoreLoop
  <2> HIDE DEF all, n
  <2>3. IsStoreLoop(all, n, x, d)
    BY <2>1, <2>2
  <2> QED
    BY <2>3 DEF IsStoreLoop
<1> HIDE DEF all, h
<1> DEFINE T == {k \in Nat : k <= n => IsOutput(all[k], m)}
<1>4. 0 \in T
  BY <1>2, <1>3
<1>5. ASSUME NEW k \in Nat, k \in T PROVE k + 1 \in T
  <2>1. SUFFICES ASSUME k + 1 <= n PROVE IsOutput(all[k + 1], m)
    OBVIOUS
  <2>2. IsOutput(all[k], m)
    BY <1>5, <2>1
  <2>3. all[k + 1] = Store(all[k], d[k + 1]) /\ d[k + 1] \in Char
    BY <1>3, <2>1
  <2> DEFINE r == all[k]
             c == d[k + 1]
  <2> HIDE DEF r, c
  <2>4. IsOutput(r, m) /\ c \in Char /\ all[k + 1] = Store(r, c)
    BY <2>2, <2>3 DEF r, c
  <2> QED
    BY <2>4, StoreDoes
<1>6. n \in T
  <2>1. n \in Nat
    OBVIOUS
  <2> HIDE DEF T, n
  <2> QED
    BY <1>4, <1>5, <2>1, SetInduction
<1>7. IsOutput(h, m)
  BY <1>6 DEF h
<1>8. IsOutput(y, m)
  <2>1. h.mode.write
    BY <1>7 DEF IsOutput, Writes, Stuck
  <2>2. y = Flshfp(h, EOF)
    BY <2>1 DEF Flush
  <2> HIDE DEF y
  <2> QED
    BY <1>7, <2>2, OutputFlush
<1> HIDE DEF T, n
<1>9. FillDone(h, newline) = h \/ FillDone(h, newline) = [y EXCEPT !.ret = v]
  BY DEF FillDone
<1> HIDE DEF y, v
<1> QED
  BY <1>1, <1>7, <1>8, <1>9, OutputRet

\* The buffer is empty, or there is an error.
LEMMA FwriteFlushedDoes ==
  ASSUME NEW f, NEW m, IsOutput(f, m), m.buffering # "none", f.error \/ f.bufp = 0,
         ~f.error /\ ~m.append => f.offset # -1,
         NEW d \in Seq(Char), d # <<>>, NEW before \in Nat
  PROVE  IsOutput(FwriteFlushed(f, d, before), m)
<1>1. CASE f.error
  <2>1. FwriteFlushed(f, d, before) = [f EXCEPT !.ret = before]
    BY <1>1 DEF FwriteFlushed
  <2>2. IsOutput([f EXCEPT !.ret = before], m)
    BY OutputRet
  <2> QED
    BY <2>1, <2>2
<1>2. CASE ~f.error /\ AtTarget(f) /\ (Lines(f, d) \/ ~Fits(f, d))
  <2> DEFINE g == WriteThrough(f, d, before)
  <2>1. FwriteFlushed(f, d, before) = g
    BY <1>2 DEF FwriteFlushed
  <2>2. Writes(f) /\ Roomy(f) /\ f.mode = m
    BY <1>2 DEF IsOutput, Stuck
  <2> HIDE DEF g
  <2>3. g = WriteThrough(f, d, before)
    BY DEF g
  <2>4. IsOutput(g, f.mode)
    BY <1>2, <2>2, <2>3, WriteThroughDoes
  <2> QED
    BY <2>1, <2>2, <2>4
<1>3. CASE ~f.error /\ ~(AtTarget(f) /\ (Lines(f, d) \/ ~Fits(f, d)))
  <2>1. FwriteFlushed(f, d, before) = FillBuffer(f, d, before, Lines(f, d))
    BY <1>3 DEF FwriteFlushed
  <2> QED
    BY <2>1, FillBufferDoes
<1> QED
  BY <1>1, <1>2, <1>3

LEMMA FwriteRestDoes ==
  ASSUME NEW f, NEW m, IsOutput(f, m), ~f.error, f.offset # -1,
         Buffered(f) \/ AtTarget(f), NEW d \in Seq(Char), d # <<>>, NEW before \in Nat
  PROVE  IsOutput(FwriteRest(f, d, before), m)
<1>0. /\ Writes(f) /\ Roomy(f) /\ f.mode = m /\ Typed(f) /\ Shape(f) /\ Safe(f)
      /\ BufSize \in Nat \ {0} /\ f.bufp \in Nat
  BY StreamAssumption DEF IsOutput, Stuck, Writes, Safe, Shape, Typed
<1> DEFINE q == AtTarget(f) /\ (~Buffered(f) \/ (Lines(f, d) /\ f.bufp = 0))
           h == IF f.bufp = 0 THEN f ELSE Flshfp(f, EOF)
<1>1. FwriteRest(f, d, before) =
        IF q THEN WriteThrough(f, d, before)
        ELSE IF Fits(f, d) THEN FillBuffer(f, d, before, Lines(f, d))
        ELSE FwriteFlushed(h, d, before)
  BY DEF FwriteRest
<1>2. CASE q
  <2> DEFINE g == WriteThrough(f, d, before)
  <2>1. f.bufp = 0 /\ AtTarget(f)
    BY <1>0, <1>2 DEF Shape
  <2> HIDE DEF g
  <2>2. g = WriteThrough(f, d, before)
    BY DEF g
  <2>3. IsOutput(g, f.mode)
    BY <1>0, <2>1, <2>2, WriteThroughDoes
  <2> QED
    BY <1>0, <1>1, <1>2, <2>2, <2>3
<1>3. CASE ~q
  <2>1. Buffered(f) /\ m.buffering # "none"
    BY <1>0, <1>3 DEF Buffered
  <2>2. CASE Fits(f, d)
    <3>1. FwriteRest(f, d, before) = FillBuffer(f, d, before, Lines(f, d))
      BY <1>1, <1>3, <2>2
    <3> QED
      BY <2>1, <3>1, FillBufferDoes
  <2>3. CASE ~Fits(f, d)
    <3>1. FwriteRest(f, d, before) = FwriteFlushed(h, d, before)
      BY <1>1, <1>3, <2>3
    <3>2. /\ IsOutput(h, m) /\ (h.error \/ h.bufp = 0)
          /\ ~h.error /\ ~m.append => h.offset # -1
      <4>1. CASE f.bufp = 0
        BY <4>1
      <4>2. CASE f.bufp # 0
        <5>1. h = Flshfp(f, EOF)
          BY <4>2
        <5> HIDE DEF h
        <5>2. IsOutput(h, m) /\ (h.error \/ h.bufp = 0)
          BY <5>1, OutputFlush
        <5>3. IsFlush(h, f)
          BY <1>0, <5>1, FlushDoes
        <5>4. f.bufp > 0
          BY <1>0, <4>2
        <5>5. ~h.error /\ ~m.append => h.offset # -1
          BY <1>0, <5>3, <5>4 DEF IsFlush, Stuck
        <5> QED
          BY <5>2, <5>5
      <4> QED
        BY <4>1, <4>2
    <3> HIDE DEF h
    <3> QED
      BY <2>1, <3>1, <3>2, FwriteFlushedDoes
  <2> QED
    BY <2>2, <2>3
<1> HIDE DEF q
<1> QED
  BY <1>2, <1>3

LEMMA FwriteDoes ==
  ASSUME NEW f, Stuck(f) \/ (Writes(f) /\ Rested(f)), Buffered(f) \/ AtTarget(f),
         NEW d \in Seq(Char), Len(d) >= 2, NEW g, g = Fwrite(f, d)
  PROVE  IsOutput(g, f.mode)
<1>0. Typed(f) /\ BufSize \in Nat \ {0} /\ f.putl \in {0, BufSize}
  BY StreamAssumption DEF Stuck, Writes, Safe, Shape, Typed
<1>1. d[1] \in Char /\ Tail(d) \in Seq(Char) /\ Tail(d) # <<>> /\ d # <<>>
  <2>1. d # <<>> /\ Len(d) \in Nat
    OBVIOUS
  <2>2. Tail(d) \in Seq(Char) /\ Len(Tail(d)) = Len(d) - 1
    BY <2>1, HeadTailProperties
  <2>3. d[1] \in Char
    OBVIOUS
  <2>4. Tail(d) # <<>>
    <3> DEFINE t == Tail(d)
    <3>1. Len(t) = Len(d) - 1
      BY <2>2
    <3> HIDE DEF t
    <3>2. t # <<>>
      BY <2>1, <3>1
    <3> QED
      BY <3>2 DEF t
  <2> QED
    BY <2>1, <2>2, <2>3, <2>4
\* What fwrite goes on with.
<1>2. ASSUME NEW h, IsOutput(h, f.mode), ~h.error, Buffered(h) \/ AtTarget(h),
             NEW t \in Seq(Char), t # <<>>, NEW before \in Nat
      PROVE  IsOutput(FwriteRest(CheckOffset(h), t, before), f.mode)
  <2> DEFINE c == CheckOffset(h)
  <2>1. Typed(h) /\ Writes(h) /\ Roomy(h) /\ h.mode = f.mode
    BY <1>2 DEF IsOutput, Stuck, Writes, Safe, Shape
  <2>2. IsChecked(c, h)
    BY <2>1, CheckKeeps
  <2> HIDE DEF c
  <2>3. Writes(c) /\ Roomy(c) /\ c.mode = h.mode /\ c.offset # -1 /\ ~c.error
        /\ (Buffered(c) \/ AtTarget(c))
    BY <1>2, <2>1, <2>2 DEF IsChecked, SameStream, Buffered, AtTarget, Writes, Safe
  <2>4. IsOutput(c, f.mode)
    BY <2>1, <2>3 DEF IsOutput
  <2>5. IsOutput(FwriteRest(c, t, before), f.mode)
    BY <1>2, <2>3, <2>4, FwriteRestDoes
  <2> QED
    BY <2>5 DEF c
<1>3. CASE f.error
  <2>1. g = [f EXCEPT !.ret = 0]
    BY <1>3 DEF Fwrite
  <2>2. IsOutput(f, f.mode)
    BY <1>3 DEF Writes, Safe, IsOutput
  <2> QED
    BY <2>1, <2>2, OutputRet
<1>4. CASE ~f.error /\ ~(~f.seen \/ f.putl = 0)
  <2>1. g = FwriteRest(CheckOffset(f), d, 0)
    BY <1>4 DEF Fwrite
  <2>2. Writes(f) /\ Roomy(f)
    BY <1>0, <1>4 DEF Stuck, Roomy
  <2>3. IsOutput(f, f.mode) /\ 0 \in Nat
    BY <2>2 DEF IsOutput
  <2>4. IsOutput(FwriteRest(CheckOffset(f), d, 0), f.mode)
    BY <1>1, <1>2, <1>4, <2>3
  <2> QED
    BY <2>1, <2>4
<1>5. CASE ~f.error /\ (~f.seen \/ f.putl = 0)
  <2> DEFINE h == Flshfp(f, d[1])
  <2>1. g = FwriteFirst(h, Tail(d))
    BY <1>5 DEF Fwrite
  <2>2. IsWritten(h, f)
    <3>1. Writes(f) /\ Rested(f)
      BY <1>5 DEF Stuck
    <3> QED
      BY <1>1, <3>1, FlushChar
  <2> HIDE DEF h
  <2>3. IsOutput(h, f.mode) /\ (Buffered(h) \/ AtTarget(h))
    BY <2>2 DEF IsWritten, IsOutput, Buffered, AtTarget
  <2>4. CASE h.error
    <3>1. g = [h EXCEPT !.ret = 0]
      BY <2>1, <2>4 DEF FwriteFirst
    <3>2. IsOutput([h EXCEPT !.ret = 0], f.mode)
      BY <2>3, OutputRet
    <3> QED
      BY <3>1, <3>2
  <2>5. CASE ~h.error
    <3>1. g = FwriteRest(CheckOffset(h), Tail(d), 1)
      BY <1>1, <2>1, <2>5 DEF FwriteFirst
    <3>2. 1 \in Nat
      OBVIOUS
    <3>3. IsOutput(FwriteRest(CheckOffset(h), Tail(d), 1), f.mode)
      BY <1>1, <1>2, <2>3, <2>5, <3>2
    <3> QED
      BY <3>1, <3>3
  <2> QED
    BY <2>4, <2>5
<1> QED
  BY <1>3, <1>4, <1>5

-----------------------------------------------------------------------------
(* ungetc.                                                                 *)

\* A stream that may be read after its output was flushed has the file at hand.
LEMMA SyncReads ==
  ASSUME NEW f, Writes(f), Even(f), ~f.mode.append
  PROVE  Reads(f)
<1>1. Standing(f)
  BY DEF Writes, Safe, Known, Standing
<1> QED
  BY <1>1 DEF Writes, Reads

LEMMA PushBackDoes ==
  ASSUME NEW f, Reads(f), ~f.pushed, NEW c \in Char, NEW g, g = PushBack(f, c)
  PROVE  Reads(g) /\ g.mode = f.mode
<1>0. /\ Typed(f) /\ Shape(f) /\ Safe(f) /\ Even(f) /\ Standing(f) /\ ~f.error
      /\ BufSize \in Nat \ {0} /\ f.bufp \in 0 .. BufSize /\ f.getl \in 0 .. BufSize
      /\ f.bufp <= f.getl
  <2>1. /\ Typed(f) /\ Shape(f) /\ Safe(f) /\ Even(f) /\ Standing(f) /\ ~f.error
        /\ BufSize \in Nat \ {0} /\ f.bufp \in 0 .. BufSize /\ f.getl \in 0 .. BufSize
    BY StreamAssumption DEF Reads, Safe, Shape, Typed
  <2> QED
    BY <2>1 DEF Even, Shape
<1>1. g = [f EXCEPT !.pushc = c, !.pushed = TRUE, !.pushbufp = f.bufp,
                    !.bufp = f.getl, !.eof = FALSE, !.ret = c]
  BY DEF PushBack
<1>2. /\ g.file = f.file /\ g.kpos = f.kpos /\ g.buf = f.buf /\ g.bufp = f.getl
      /\ g.getl = f.getl /\ g.putl = f.putl /\ g.target = f.target
      /\ g.offset = f.offset /\ g.pushed /\ g.pushbufp = f.bufp /\ ~g.eof
      /\ g.error = f.error /\ g.active = f.active /\ g.mode = f.mode
  BY <1>0, <1>1 DEF Typed
<1>3. Typed(g)
  <2>1. c \in Byte /\ g.pushed \in BOOLEAN /\ g.eof \in BOOLEAN
    BY <1>0, <1>1 DEF Byte, Typed
  <2> QED
    BY <1>0, <1>1, <1>2, <2>1 DEF Typed
<1>4. (Buffered(g) <=> Buffered(f)) /\ (Linebuf(g) <=> Linebuf(f))
  BY <1>2 DEF Buffered, Linebuf
<1>5. Shape(g)
  BY <1>0, <1>2, <1>3, <1>4 DEF Shape
<1>6. f.mode.write => Clean(g)
  <2>1. ASSUME f.mode.write, NEW i \in 0 .. BufSize - 1,
               i < g.bufp \/ i < g.getl \/ (g.pushed /\ i < g.pushbufp)
        PROVE  g.buf[i] \in Byte
    <3>1. i < f.getl
      BY <1>0, <1>2, <2>1
    <3> QED
      BY <1>0, <1>2, <2>1, <3>1 DEF Safe, Clean
  <2> QED
    BY <2>1 DEF Clean
<1>7. Known(f) => Known(g)
  BY <1>2 DEF Known
<1>8. Safe(g)
  BY <1>0, <1>2, <1>4, <1>5, <1>6, <1>7 DEF Safe
<1>9. Even(g) /\ Standing(g)
  BY <1>0, <1>2, <1>4 DEF Even, Standing
<1> QED
  BY <1>0, <1>2, <1>8, <1>9 DEF Reads

LEMMA UngetcDoes ==
  ASSUME NEW f, Stuck(f) \/ (Reads(f) /\ Going(f)), Stuck(f) => Flushes(f), NEW c \in Char,
         NEW g, g = Ungetc(f, c)
  PROVE  (Stuck(g) \/ Reads(g)) /\ g.mode = f.mode
<1>0. Typed(f) /\ Shape(f) /\ BufSize \in Nat \ {0} /\ f.putl \in {0, BufSize}
  BY StreamAssumption DEF Stuck, Reads, Safe, Shape, Typed
<1>1. CASE f.pushed
  <2>1. Alike(g, f)
    BY <1>0, <1>1, RetAlike DEF Ungetc
  <2> QED
    BY <2>1, AlikeKeeps DEF Alike
<1>2. CASE ~f.pushed
  <2> DEFINE h == IF Flushes(f) THEN Flshfp(f, EOF) ELSE f
  <2>1. g = IF Flushes(f) /\ h.error THEN h ELSE PushBack(h, c)
    BY <1>2 DEF Ungetc
  <2>2. CASE Stuck(f)
    <3>1. f.error /\ Flushes(f)
      BY <2>2 DEF Stuck
    <3>2. Alike(Flshfp(f, EOF), f)
      BY <1>0, <3>1, FlushError
    <3>3. (h.error /\ Stuck(h)) /\ h.mode = f.mode
      BY <2>2, <3>1, <3>2, AlikeKeeps DEF Alike
    <3> HIDE DEF h
    <3> QED
      BY <2>1, <3>1, <3>3
  <2>3. CASE Reads(f) /\ Going(f) /\ ~Flushes(f)
    BY <1>2, <2>1, <2>3, PushBackDoes
  <2>4. CASE Reads(f) /\ Going(f) /\ Flushes(f)
    <3>1. f.mode.write
      BY <1>0, <2>4 DEF Shape, Flushes
    <3>2. Writes(f) /\ Even(f) /\ Standing(f)
      BY <1>2, <2>4, <3>1 DEF Reads, Writes, Going, Flushes
    <3>3. h = Flshfp(f, EOF)
      BY <2>4
    <3> HIDE DEF h
    <3>4. IsFlush(h, f)
      BY <3>2, <3>3, FlushDoes
    <3>5. Writes(h) /\ Even(h) /\ Standing(h) /\ h.mode = f.mode
      BY <3>2, <3>4 DEF IsFlush
    <3>6. Reads(h) /\ ~h.pushed /\ ~h.error
      BY <3>5 DEF Reads, Writes, Safe
    <3> QED
      BY <2>1, <3>5, <3>6, PushBackDoes
  <2> QED
    BY <2>2, <2>3, <2>4
<1> QED
  BY <1>1, <1>2

-----------------------------------------------------------------------------
(* fseek, and what else flushes the stream.                                *)

\* What the file is when the output the stream holds is in it.
Outcome(f) ==
  IF ~(f.mode.write /\ ~f.error /\ (f.putl > 0 \/ f.active)) THEN f.file
  ELSE Fileof(f.file,
              IF f.mode.append THEN Len(f.file) ELSE Goal(f),
              Slice(f, 0, IF f.pushed THEN f.pushbufp ELSE f.bufp))

LEMMA OutcomeView ==
  View = Outcome(s)
  BY DEF View, Holds, Outcome, Goal

\* How long the file will be.
LEMMA OutcomeLength ==
  ASSUME NEW f, Safe(f), NEW n, n = IF f.pushed THEN f.pushbufp ELSE f.bufp
  PROVE  /\ Len(Outcome(f)) \in Nat
         /\ n = 0 \/ ~f.mode.write \/ (Buffered(f) /\ ~Roomy(f)) => Outcome(f) = f.file
         /\ n # 0 /\ f.mode.write /\ Roomy(f) =>
              Len(Outcome(f)) = Most(Len(f.file),
                (IF f.mode.append THEN Len(f.file) ELSE Goal(f)) + n)
<1> DEFINE at == IF f.mode.append THEN Len(f.file) ELSE Goal(f)
           d  == Slice(f, 0, n)
<1>0. /\ Typed(f) /\ Shape(f) /\ ~f.error /\ BufSize \in Nat \ {0} /\ f.file \in Seq(Byte)
      /\ n \in 0 .. BufSize /\ at \in Nat /\ Len(f.file) \in Nat
  BY StreamAssumption DEF Safe, Shape, Typed, Goal
<1>1. Roomy(f) /\ ~(f.putl > 0 \/ f.active) => n = 0
  BY <1>0 DEF Roomy, Shape
<1>2. ~f.mode.write \/ ~(f.putl > 0 \/ f.active) => Outcome(f) = f.file
  BY DEF Outcome
<1>3. CASE f.mode.write /\ (f.putl > 0 \/ f.active)
  <2>1. Outcome(f) = Fileof(f.file, at, d)
    BY <1>0, <1>3 DEF Outcome
  <2>2. d \in Seq(Byte) /\ Len(d) = n
    <3>1. \A i \in 0 .. BufSize - 1 : i < n => f.buf[i] \in Byte
      BY <1>0, <1>3 DEF Safe, Clean
    <3> QED
      BY <1>0, <3>1, SliceTyped
  <2>3. (d = <<>> <=> n = 0)
    <3> HIDE DEF d
    <3> QED
      BY <1>0, <2>2
  <2> HIDE DEF d, at
  <2>4. /\ Fileof(f.file, at, d) \in Seq(Byte)
        /\ d = <<>> => Fileof(f.file, at, d) = f.file
        /\ d # <<>> => Len(Fileof(f.file, at, d)) = Most(Len(f.file), at + Len(d))
    BY <1>0, <2>2, FileofTyped
  <2>5. Roomy(f)
    BY <1>3 DEF Roomy
  <2> DEFINE z == Fileof(f.file, at, d)
  <2>6. Outcome(f) = z /\ z \in Seq(Byte) /\ (n = 0 => z = f.file)
        /\ (n # 0 => Len(z) = Most(Len(f.file), at + n))
    BY <2>1, <2>2, <2>3, <2>4
  <2> HIDE DEF z
  <2>7. Len(z) \in Nat
    BY <2>6
  <2>8. Buffered(f)
    BY <1>0, <1>3 DEF Shape, Linebuf, Buffered
  <2> QED
    BY <1>3, <2>5, <2>6, <2>7 DEF at
<1>4. CASE ~(f.mode.write /\ (f.putl > 0 \/ f.active))
  BY <1>0, <1>1, <1>2, <1>4
<1> QED
  BY <1>3, <1>4

\* x is f after what is to be written was flushed, which only a stream that was
\* writing may fail to do.
IsWrittenBack(x, f, d) ==
  /\ x.mode = f.mode
  /\ \/ Stuck(x) /\ x.ret = EOF /\ (f.error \/ d = "out")
     \/ /\ x.ret = 0 /\ Sound(x, d) /\ Writes(x) /\ Roomy(x) /\ Even(x) /\ ~x.pushed
        /\ Len(Outcome(f)) <= Len(x.file)
        /\ ~f.pushed /\ ~(f.mode.append /\ d \in {"out", "sync"}) =>
             Goal(x) + x.bufp = Goal(f) + f.bufp

LEMMA WriteBackDoes ==
  ASSUME NEW f, NEW d, Sound(f, d), f.mode.write, ~f.eof, NEW x, x = Flshfp(f, EOF)
  PROVE  IsWrittenBack(x, f, d)
<1>1. CASE Stuck(f)
  <2>1. Typed(f) /\ f.error
    BY <1>1 DEF Stuck, Shape
  <2>2. Alike(x, f) /\ x.ret = EOF
    BY <2>1, FlushError
  <2> QED
    BY <1>1, <2>1, <2>2, AlikeKeeps DEF IsWrittenBack, Alike
\* A stream that was not reading.
<1>2. ASSUME Writes(f), Roomy(f), d = "out" \/ (d = "sync" /\ Even(f))
      PROVE  IsWrittenBack(x, f, d)
  <2>1. IsFlush(x, f)
    BY <1>2, FlushDoes
  <2>2. Safe(f) /\ Shape(f) /\ ~f.pushed /\ f.mode.write /\ f.bufp \in 0 .. BufSize
        /\ Len(f.file) \in Nat /\ Goal(f) \in Nat /\ x.mode = f.mode
        /\ BufSize \in Nat
    BY <1>2, <2>1, StreamAssumption DEF Writes, Safe, Shape, Typed, Goal, IsFlush
  <2>3. CASE Stuck(x) /\ x.ret = EOF /\ ~Even(f)
    BY <1>2, <2>2, <2>3 DEF IsWrittenBack
  <2>4. CASE ~(Stuck(x) /\ x.ret = EOF /\ ~Even(f))
    <3>1. /\ Writes(x) /\ Roomy(x) /\ Even(x) /\ x.ret = 0 /\ Len(f.file) <= Len(x.file)
          /\ ~f.mode.append => Goal(x) + x.bufp = Goal(f) + f.bufp
          /\ f.bufp > 0 =>
               (IF f.mode.append THEN Len(f.file) ELSE Goal(f)) + f.bufp <= Len(x.file)
          /\ Typed(x)
      BY <1>2, <2>1, <2>4 DEF IsFlush
    <3>2. Sound(x, d) /\ ~x.pushed
      BY <1>2, <3>1 DEF Sound, Writes
    <3>3. Len(Outcome(f)) <= Len(x.file)
      <4> DEFINE n  == f.bufp
                 at == IF f.mode.append THEN Len(f.file) ELSE Goal(f)
      <4>1. n = IF f.pushed THEN f.pushbufp ELSE f.bufp
        BY <2>2
      <4>2. /\ n = 0 => Outcome(f) = f.file
            /\ n # 0 => Len(Outcome(f)) = Most(Len(f.file), at + n)
        <5> HIDE DEF n
        <5> QED
          BY <1>2, <2>2, <4>1, OutcomeLength
      <4>3. n # 0 => at + n <= Len(x.file)
        BY <2>2, <3>1
      <4>4. at \in Nat /\ n \in Nat /\ Len(x.file) \in Nat
        BY <2>2, <3>1 DEF Typed
      <4> HIDE DEF n, at
      <4> QED
        BY <2>2, <3>1, <4>2, <4>3, <4>4 DEF Most
    <3> QED
      BY <1>2, <2>2, <3>1, <3>2, <3>3 DEF IsWrittenBack
  <2> QED
    BY <2>3, <2>4
\* A stream that was.
<1>3. ASSUME Reads(f), d = "in" \/ d = "none"
      PROVE  IsWrittenBack(x, f, d)
  <2> DEFINE y == Unpush(f)
  <2>1. /\ Reads(y) /\ ~y.pushed /\ y.mode = f.mode /\ y.file = f.file
        /\ Goal(y) = Goal(f) /\ y.putl = f.putl /\ y.active = f.active /\ ~y.eof
        /\ ~f.pushed => y.bufp = f.bufp
        /\ f.pushed => y.bufp = f.pushbufp
    <3>1. /\ Reads(y) /\ ~y.pushed /\ y.mode = f.mode /\ y.file = f.file
          /\ Goal(y) = Goal(f) /\ y.putl = f.putl /\ y.active = f.active
          /\ y.eof = f.eof
          /\ ~f.pushed => y = f
          /\ f.pushed => y.bufp = f.pushbufp
      BY <1>3, UnpushDoes
    <3> HIDE DEF y
    <3> QED
      BY <3>1
  <2>2. x = Flshfp(y, EOF)
    BY <1>3, FlushUnpushed
  <2> HIDE DEF y
  <2>3. Writes(y) /\ Even(y) /\ Standing(y) /\ Safe(f)
    BY <1>3, <2>1 DEF Reads, Writes
  <2>4. IsFlush(x, y)
    BY <2>2, <2>3, FlushDoes
  <2>5. /\ Typed(x) /\ Writes(x) /\ Roomy(x) /\ Even(x) /\ x.ret = 0 /\ Standing(x)
        /\ x.mode = f.mode /\ Len(f.file) <= Len(x.file)
        /\ Goal(x) + x.bufp = Goal(f) + y.bufp
        /\ Roomy(y) /\ y.bufp > 0 =>
             (IF f.mode.append THEN Len(f.file) ELSE Goal(f)) + y.bufp <= Len(x.file)
    BY <2>1, <2>3, <2>4 DEF IsFlush
  <2>6. Reads(x) /\ ~x.pushed /\ Rested(x)
    BY <2>5 DEF Reads, Writes, Roomy, Rested
  <2>7. Sound(x, d)
    BY <1>3, <2>6 DEF Sound
  <2>8. Len(Outcome(f)) <= Len(x.file)
    <3> DEFINE n  == y.bufp
               at == IF f.mode.append THEN Len(f.file) ELSE Goal(f)
    <3>1. n = IF f.pushed THEN f.pushbufp ELSE f.bufp
      BY <2>1
    <3>2. Typed(f) /\ Shape(f) /\ Typed(y) /\ BufSize \in Nat
      BY <2>1, <2>3, StreamAssumption DEF Reads, Safe, Shape
    <3>3. at \in Nat /\ n \in Nat /\ Len(x.file) \in Nat /\ Len(f.file) \in Nat
      <4>1. Goal(f) \in Nat /\ Len(f.file) \in Nat
        BY <3>2 DEF Typed, Goal
      <4>2. n \in Nat
        BY <3>2 DEF Typed
      <4>3. Len(x.file) \in Nat
        BY <2>5 DEF Typed
      <4> QED
        BY <4>1, <4>2, <4>3
    <3>4. Roomy(y) <=> Roomy(f)
      BY <2>1 DEF Roomy, Buffered
    <3>5. n # 0 /\ Roomy(f) => at + n <= Len(x.file)
      BY <2>5, <3>3, <3>4
    <3>6. /\ n = 0 \/ (Buffered(f) /\ ~Roomy(f)) => Outcome(f) = f.file
          /\ n # 0 /\ Roomy(f) => Len(Outcome(f)) = Most(Len(f.file), at + n)
      <4> HIDE DEF n
      <4> QED
        BY <2>3, <3>1, OutcomeLength
    <3>7. ~Buffered(f) => Roomy(f)
      BY DEF Roomy
    <3> HIDE DEF n, at
    <3> QED
      BY <2>5, <3>3, <3>5, <3>6, <3>7 DEF Most
  <2> QED
    BY <2>1, <2>5, <2>6, <2>7, <2>8 DEF IsWrittenBack
<1> QED
  BY <1>1, <1>2, <1>3 DEF Sound

\* The library asks where the kernel is, and the end of file is forgotten.
LEMMA AskWhereDoes ==
  ASSUME NEW f, Typed(f), NEW g, g = AskWhere(f)
  PROVE  /\ Typed(g) /\ SameStream(g, f) /\ ~g.eof /\ g.bufp = f.bufp /\ g.getl = f.getl
         /\ g.putl = f.putl /\ g.target = Goal(f) /\ Goal(g) = Goal(f)
         /\ Reads(f) => Reads(g)
         /\ Writes(f) => Writes(g)
         /\ Even(f) => Even(g)
         /\ Roomy(f) => Roomy(g)
         /\ Rested(f) => Rested(g)
<1> DEFINE t == Goal(f)
           x == [f EXCEPT !.offset = -1]
           c == CheckOffset(x)
<1>0. f.kpos \in Nat /\ t \in Nat
  BY DEF Typed, Goal
<1>1. Typed(x) /\ x.offset = -1 /\ x.kpos = f.kpos /\ x.target = f.target
  <2>1. x.file = f.file
    BY DEF Typed
  <2> QED
    BY <2>1 DEF Typed
<1>2. /\ c = [x EXCEPT !.offset = f.kpos, !.target = t, !.seen = TRUE]
      /\ Typed(c)
  <2> DEFINE o == IF x.offset = -1 THEN x.kpos ELSE x.offset
             u == IF x.target = -1 THEN o ELSE x.target
  <2>1. /\ c = [x EXCEPT !.offset = o, !.target = u, !.seen = TRUE]
        /\ Typed(c)
    <3> HIDE DEF x
    <3> QED
      BY <1>1, CheckDoes
  <2>2. o = f.kpos /\ u = t
    BY <1>1 DEF Goal
  <2> HIDE DEF o, u, x, c, t
  <2> QED
    BY <2>1, <2>2
<1> HIDE DEF t
<1>3. g = [f EXCEPT !.offset = f.kpos, !.target = t, !.seen = TRUE, !.eof = FALSE]
  <2>1. g = [c EXCEPT !.eof = FALSE]
    BY DEF AskWhere
  <2> HIDE DEF c
  <2> QED
    BY <1>2, <2>1 DEF Typed
<1>4. /\ g.file = f.file /\ g.kpos = f.kpos /\ g.buf = f.buf /\ g.bufp = f.bufp
      /\ g.getl = f.getl /\ g.putl = f.putl /\ g.target = t /\ g.offset = f.kpos
      /\ g.pushed = f.pushed /\ g.pushbufp = f.pushbufp /\ ~g.eof
      /\ g.error = f.error /\ g.active = f.active /\ g.mode = f.mode
  BY <1>3 DEF Typed
<1>5. Typed(g)
  <2>1. g.eof \in BOOLEAN
    BY <1>3 DEF Typed
  <2> QED
    BY <1>0, <1>3, <1>4, <2>1 DEF Typed
<1>6. (Buffered(g) <=> Buffered(f)) /\ (Linebuf(g) <=> Linebuf(f)) /\ SameStream(g, f)
  BY <1>4 DEF Buffered, Linebuf, SameStream
<1>7. Shape(f) => Shape(g)
  BY <1>4, <1>5, <1>6 DEF Shape
<1>8. Clean(f) => Clean(g)
  BY <1>4 DEF Clean
<1>9. ASSUME Known(f), f.mode.write \/ (f.target # -1 => f.offset = f.kpos)
      PROVE  Known(g)
  <2>1. f.getl \in Nat /\ f.target \in Nat \cup {-1} /\ f.offset \in Nat \cup {-1}
    BY StreamAssumption DEF Typed
  <2>2. /\ f.target = -1 => t = f.kpos /\ f.getl = 0
        /\ f.target # -1 => t = f.target /\ t + f.getl <= f.offset /\ f.offset <= f.kpos
    BY <1>9 DEF Known, Goal, t
  <2>3. t + f.getl <= f.kpos
    BY <1>0, <2>1, <2>2
  <2>4. ~f.mode.write => f.kpos = t + f.getl
    <3>1. CASE f.target = -1
      BY <1>0, <2>2, <3>1
    <3>2. CASE f.target # -1
      BY <1>9, <2>2, <3>2 DEF Known
    <3> QED
      BY <3>1, <3>2
  <2>5. f.mode.write => f.kpos <= Len(f.file)
    BY <1>9 DEF Known
  <2>6. t # -1 /\ f.kpos # -1
    BY <1>0
  <2> QED
    BY <1>0, <1>4, <2>3, <2>4, <2>5, <2>6 DEF Known
<1>10. ASSUME Safe(f), f.mode.write \/ Standing(f) PROVE Safe(g)
  BY <1>4, <1>6, <1>7, <1>8, <1>9, <1>10 DEF Safe, Standing
<1>11. /\ Even(f) => Even(g)
       /\ Roomy(f) => Roomy(g)
       /\ Rested(f) => Rested(g)
  BY <1>4, <1>6 DEF Even, Roomy, Rested
<1>12. Standing(g)
  BY <1>4 DEF Standing
<1>13. Reads(f) => Reads(g)
  BY <1>4, <1>10, <1>11, <1>12 DEF Reads
<1>14. Writes(f) => Writes(g)
  BY <1>4, <1>10 DEF Writes
<1>15. g.target = Goal(f) /\ Goal(g) = Goal(f)
  <2>1. g.target = t /\ t # -1
    BY <1>0, <1>4
  <2> QED
    BY <2>1 DEF Goal, t
<1> QED
  BY <1>4, <1>5, <1>6, <1>11, <1>13, <1>14, <1>15

\* Where fseek goes.
Seeked(f, o, whence) ==
  CASE whence = "SET" -> o
    [] whence = "END" -> Len(f.file) + o
    [] whence = "CUR" -> o + f.bufp + f.target

\* A stream that was moved is as new.
IsMoved(g) == Reads(g) /\ ~g.pushed /\ Rested(g)

LEMMA SeekFromDoes ==
  ASSUME NEW f, Typed(f), ~f.error, ~f.pushed, ~f.eof, ~Buffered(f) => f.pushbufp = 0,
         NEW o, NEW whence, Seeked(f, o, whence) \in Nat,
         f.mode.write => Seeked(f, o, whence) <= Len(f.file),
         NEW g, g = SeekFrom(f, o, whence)
  PROVE  IsMoved(g) /\ g.mode = f.mode /\ g.ret = 0
<1> DEFINE goal == Seeked(f, o, whence)
<1>1. g = IF goal < 0 THEN [f EXCEPT !.ret = EOF]
          ELSE [f EXCEPT !.target = goal, !.kpos = goal, !.offset = goal, !.bufp = 0,
                         !.getl = 0, !.putl = 0, !.active = FALSE, !.ret = 0]
  BY DEF SeekFrom, Seeked
<1>2. goal \in Nat /\ (f.mode.write => goal <= Len(f.file))
  OBVIOUS
<1> HIDE DEF goal
<1>3. g = [f EXCEPT !.target = goal, !.kpos = goal, !.offset = goal, !.bufp = 0,
                    !.getl = 0, !.putl = 0, !.active = FALSE, !.ret = 0]
  BY <1>1, <1>2
<1>4. /\ g.file = f.file /\ g.kpos = goal /\ g.bufp = 0
      /\ g.getl = 0 /\ g.putl = 0 /\ g.target = goal /\ g.offset = goal
      /\ ~g.pushed /\ g.pushbufp = f.pushbufp /\ ~g.eof /\ g.ret = 0
      /\ ~g.error /\ ~g.active /\ g.mode = f.mode
  BY <1>3 DEF Typed
<1>5. Typed(g)
  <2>1. g.active \in BOOLEAN /\ 0 \in 0 .. BufSize
    BY <1>3, StreamAssumption DEF Typed
  <2> QED
    BY <1>2, <1>3, <1>4, <2>1, ZenonT(60) DEF Typed
<1>6. Buffered(g) <=> Buffered(f)
  BY <1>4 DEF Buffered
<1>7. Shape(g)
  BY <1>4, <1>5, <1>6 DEF Shape
<1>8. Clean(g)
  BY <1>4 DEF Clean
<1>9. Known(g)
  <2>1. goal # -1 /\ goal + 0 = goal /\ goal <= goal
    BY <1>2
  <2> QED
    BY <1>2, <1>4, <2>1 DEF Known
<1>10. Safe(g) /\ Even(g) /\ Standing(g) /\ Rested(g)
  BY <1>4, <1>7, <1>8, <1>9 DEF Safe, Even, Standing, Rested
<1> QED
  BY <1>4, <1>10 DEF Reads, IsMoved

\* What fseek leaves: a stream that was moved, or the stream where it was.
IsSeeked(g, f, d) ==
  /\ g.mode = f.mode
  /\ \/ g.ret = EOF /\ Sound(g, d)
     \/ g.ret = 0 /\ IsMoved(g)

\* x is f after the output was flushed, and h after the pushed back character
\* was dropped.
LEMMA SeekFlushedDoes ==
  ASSUME NEW x, NEW d, Sound(x, d), ~x.error, ~(x.mode.write /\ x.ret = EOF),
         NEW o \in Int, NEW whence \in {"SET", "END", "CUR"},
         x.mode.write =>
           CASE whence = "SET" -> o <= Len(x.file)
             [] whence = "END" -> o <= 0
             [] whence = "CUR" -> ~x.pushed /\ o + x.bufp + Goal(x) <= Len(x.file),
         NEW g, g = SeekFlushed(x, o, whence)
  PROVE  IsSeeked(g, x, d) /\ (whence = "SET" /\ o \in Nat => g.ret = 0)
<1> DEFINE a == AskWhere(x)
           h == Unpush(a)
           goal == Seeked(h, o, whence)
<1>0. Typed(x) /\ ~Stuck(x) /\ BufSize \in Nat
  BY StreamAssumption DEF Sound, Stuck, Reads, Writes, Safe, Shape
<1>1. g = SeekFrom(h, o, whence)
  BY DEF SeekFlushed
<1>2. /\ Typed(a) /\ SameStream(a, x) /\ ~a.eof /\ a.bufp = x.bufp /\ a.getl = x.getl
      /\ a.putl = x.putl /\ a.target = Goal(x) /\ Goal(a) = Goal(x)
      /\ Reads(x) => Reads(a)
      /\ Writes(x) => Writes(a)
      /\ Even(x) => Even(a)
      /\ Roomy(x) => Roomy(a)
      /\ Rested(x) => Rested(a)
  BY <1>0, AskWhereDoes
<1> HIDE DEF a
<1>3. /\ Typed(h) /\ h.mode = x.mode /\ h.file = x.file /\ ~h.eof /\ ~h.error /\ ~h.pushed
      /\ ~Buffered(h) => h.pushbufp = 0
      /\ ~x.pushed => h.bufp = x.bufp
      /\ Sound(h, d)
      /\ h.target = Goal(x)
  <2>1. CASE x.pushed
    <3>1. Reads(x) /\ d = "in"
      BY <1>0, <2>1 DEF Sound, Writes
    <3>2. Reads(a) /\ a.mode = x.mode /\ a.file = x.file /\ a.pushed
      BY <1>2, <2>1, <3>1 DEF SameStream
    <3>3. /\ Reads(h) /\ ~h.pushed /\ h.mode = a.mode /\ h.file = a.file
          /\ h.error = a.error /\ h.eof = a.eof
      BY <3>2, UnpushDoes
    <3>4. h.target = a.target
      BY <1>2, <3>2 DEF Unpush, Typed
    <3> HIDE DEF h
    <3>5. Typed(h) /\ Shape(h) /\ ~h.error
      BY <3>3 DEF Reads, Safe, Shape
    <3> QED
      BY <1>2, <2>1, <3>1, <3>2, <3>3, <3>4, <3>5 DEF Sound, Shape
  <2>2. CASE ~x.pushed
    <3>1. h = a
      BY <1>2, <2>2 DEF Unpush, SameStream
    <3>2. a.mode = x.mode /\ a.file = x.file /\ ~a.pushed /\ ~a.error
      BY <1>2, <2>2 DEF SameStream
    <3>3. Sound(a, d)
      BY <1>0, <1>2, <3>2 DEF Sound
    <3>4. Shape(a)
      BY <3>3 DEF Sound, Stuck, Reads, Writes, Safe
    <3> QED
      BY <1>2, <3>1, <3>2, <3>3, <3>4 DEF Shape
  <2> QED
    BY <2>1, <2>2
<1>4. Goal(x) \in Nat /\ h.bufp \in Nat /\ Len(h.file) \in Nat
  <2>1. Goal(x) \in Nat
    BY <1>0 DEF Typed, Goal
  <2>2. h.bufp \in Nat /\ Len(h.file) \in Nat
    <3> HIDE DEF h
    <3> QED
      BY <1>0, <1>3 DEF Typed
  <2> QED
    BY <2>1, <2>2
<1> HIDE DEF h
<1>5. goal \in Int /\ (whence = "SET" => goal = o)
  BY <1>3, <1>4 DEF Seeked
<1>6. h.mode.write => goal <= Len(h.file)
  <2>1. CASE whence = "SET"
    BY <1>3, <2>1 DEF Seeked
  <2>2. CASE whence = "END"
    BY <1>3, <1>4, <2>2 DEF Seeked
  <2>3. CASE whence = "CUR"
    BY <1>3, <1>4, <2>3 DEF Seeked
  <2> QED
    BY <2>1, <2>2, <2>3
<1>7. CASE goal < 0
  <2>1. g = [h EXCEPT !.ret = EOF]
    BY <1>1, <1>7 DEF SeekFrom, Seeked
  <2>2. Alike(g, h) /\ g.ret = EOF
    <3>1. g.ret = EOF
      BY <1>3, <2>1 DEF Typed
    <3> QED
      BY <1>3, <2>1, <3>1, RetAlike
  <2>3. Sound(g, d)
    BY <1>3, <2>2, AlikeKeeps DEF Sound, Alike
  <2>4. whence = "SET" => o \notin Nat
    BY <1>5, <1>7
  <2> QED
    BY <1>3, <2>2, <2>3, <2>4 DEF IsSeeked, Alike
<1>8. CASE ~(goal < 0)
  <2>1. goal \in Nat
    BY <1>5, <1>8
  <2>2. IsMoved(g) /\ g.mode = h.mode /\ g.ret = 0
    BY <1>1, <1>3, <1>6, <2>1, SeekFromDoes
  <2> QED
    BY <1>3, <2>2 DEF IsSeeked
<1> QED
  BY <1>7, <1>8

LEMMA FseekDoes ==
  ASSUME NEW f, NEW d, Sound(f, d),
         NEW o \in Int, NEW whence \in {"SET", "END", "CUR"},
         whence = "SET" => o \in Nat, whence = "END" => o <= 0,
         f.eof /\ f.mode.write =>
           whence = "SET" \/ (whence = "END" /\ o + Len(Outcome(f)) >= 0),
         f.mode.write /\ whence = "SET" => o <= Len(Outcome(f)),
         f.mode.write /\ whence = "CUR" =>
           /\ ~f.pushed /\ o + (Goal(f) + f.bufp) <= Len(Outcome(f))
           /\ ~(f.mode.append /\ d \in {"out", "sync"}),
         NEW g, g = Fseek(f, o, whence)
  PROVE  IsSeeked(g, f, d) /\ (whence = "SET" /\ ~f.error /\ d # "out" => g.ret = 0)
<1>0. Typed(f) /\ Shape(f) /\ EOF # 0
  BY StreamAssumption DEF Sound, Stuck, Reads, Writes, Safe, Shape
<1>1. CASE ~f.mode.write
  <2>1. g = SeekFlushed(f, o, whence)
    BY <1>1 DEF Fseek
  <2>2. ~f.error
    BY <1>1 DEF Sound, Stuck, Reads, Writes, Safe
  <2>3. IsSeeked(g, f, d) /\ (whence = "SET" /\ o \in Nat => g.ret = 0)
    BY <1>1, <2>1, <2>2, SeekFlushedDoes
  <2> QED
    BY <2>3
<1>2. CASE f.mode.write /\ ~f.eof
  <2> DEFINE x == Flshfp(f, EOF)
  <2>1. g = SeekFlushed(x, o, whence)
    BY <1>2 DEF Fseek
  <2>2. IsWrittenBack(x, f, d)
    BY <1>2, WriteBackDoes
  <2> HIDE DEF x
  <2>3. CASE Stuck(x) /\ x.ret = EOF /\ (f.error \/ d = "out")
    <3>1. x.mode = f.mode
      BY <2>2 DEF IsWrittenBack
    <3>2. g = x
      BY <1>2, <2>1, <2>3, <3>1 DEF SeekFlushed
    <3> QED
      BY <2>3, <3>1, <3>2 DEF IsSeeked, Sound
  <2>4. CASE ~(Stuck(x) /\ x.ret = EOF /\ (f.error \/ d = "out"))
    <3>1. /\ x.ret = 0 /\ Sound(x, d) /\ ~x.error /\ ~x.pushed /\ x.mode = f.mode
          /\ Len(Outcome(f)) <= Len(x.file) /\ Typed(x)
          /\ ~f.pushed /\ ~(f.mode.append /\ d \in {"out", "sync"}) =>
               Goal(x) + x.bufp = Goal(f) + f.bufp
      BY <2>2, <2>4 DEF IsWrittenBack, Writes, Safe, Shape
    <3>2. Len(Outcome(f)) \in Nat /\ Len(x.file) \in Nat
      <4>1. Safe(f)
        <5>1. ~Stuck(f)
          <6>1. SUFFICES ASSUME Stuck(f) PROVE FALSE
            OBVIOUS
          <6>2. f.error
            BY <6>1 DEF Stuck
          <6>3. Alike(x, f)
            BY <1>0, <6>2, FlushError DEF x
          <6> QED
            BY <3>1, <6>2, <6>3 DEF Alike
        <5> QED
          BY <5>1 DEF Sound, Reads, Writes
      <4> DEFINE n == IF f.pushed THEN f.pushbufp ELSE f.bufp
      <4>2. n = IF f.pushed THEN f.pushbufp ELSE f.bufp
        OBVIOUS
      <4> HIDE DEF n
      <4>3. Len(Outcome(f)) \in Nat
        BY <4>1, <4>2, OutcomeLength
      <4> QED
        BY <3>1, <4>3 DEF Typed
    <3>3. whence = "SET" => o <= Len(x.file)
      BY <1>2, <3>1, <3>2
    <3>4. whence = "CUR" => o + x.bufp + Goal(x) <= Len(x.file)
      <4>1. HAVE whence = "CUR"
      <4>2. /\ Goal(x) + x.bufp = Goal(f) + f.bufp
            /\ o + (Goal(f) + f.bufp) <= Len(Outcome(f))
        BY <1>2, <3>1, <4>1
      <4>3. Goal(x) \in Nat /\ x.bufp \in Nat
        BY <3>1, StreamAssumption DEF Typed, Goal
      <4>4. o + x.bufp + Goal(x) = o + (Goal(x) + x.bufp)
        BY <4>3
      <4>5. Goal(x) + x.bufp \in Int
        BY <4>3
      <4> DEFINE z == Goal(x) + x.bufp
      <4>6. /\ o + z <= Len(Outcome(f)) /\ z \in Int
            /\ o + x.bufp + Goal(x) = o + z
        BY <4>2, <4>4, <4>5
      <4> HIDE DEF z
      <4> QED
        BY <3>1, <3>2, <4>6
    <3>5. IsSeeked(g, x, d) /\ (whence = "SET" /\ o \in Nat => g.ret = 0)
      <4>1. x.mode.write =>
             CASE whence = "SET" -> o <= Len(x.file)
               [] whence = "END" -> o <= 0
               [] whence = "CUR" -> ~x.pushed /\ o + x.bufp + Goal(x) <= Len(x.file)
        BY <3>1, <3>3, <3>4
      <4>2. ~(x.mode.write /\ x.ret = EOF)
        BY <1>0, <3>1
      <4> QED
        BY <2>1, <3>1, <4>1, <4>2, SeekFlushedDoes
    <3> QED
      BY <3>1, <3>5 DEF IsSeeked
  <2> QED
    BY <2>3, <2>4
<1>3. CASE f.mode.write /\ f.eof
  <2> DEFINE x == Flshfp(f, EOF)
             h == AskWhere(x)
  <2>1. g = SeekFlushed(x, o, whence)
    BY <1>3 DEF Fseek
  <2>2. Reads(f)
    BY <1>3 DEF Sound, Stuck, Writes
  <2>3. /\ Typed(x) /\ x.file = f.file /\ x.mode = f.mode /\ ~x.error /\ ~x.pushed
        /\ x.ret = 0 /\ x.pushbufp = f.pushbufp
    BY <1>3, <2>2, EofFlush
  <2> HIDE DEF x
  <2>4. /\ Typed(h) /\ SameStream(h, x) /\ ~h.eof
    BY <2>3, AskWhereDoes
  <2>5. Unpush(h) = h
    <3>1. ~h.pushed
      BY <2>3, <2>4 DEF SameStream
    <3> HIDE DEF h
    <3> QED
      BY <3>1 DEF Unpush
  <2>6. g = SeekFrom(h, o, whence)
    BY <1>0, <2>1, <2>3, <2>5 DEF SeekFlushed
  <2> HIDE DEF h
  <2>7. /\ h.mode = f.mode /\ h.file = f.file /\ ~h.error /\ ~h.pushed
        /\ ~Buffered(h) => h.pushbufp = 0
    BY <1>0, <2>3, <2>4 DEF SameStream, Shape, Buffered
  <2>8. Outcome(f) = f.file
    <3> DEFINE n == IF f.pushed THEN f.pushbufp ELSE f.bufp
    <3>1. n = 0
      BY <1>3, <2>2 DEF Reads, Ended
    <3>2. n = IF f.pushed THEN f.pushbufp ELSE f.bufp
      OBVIOUS
    <3> HIDE DEF n
    <3> QED
      BY <2>2, <3>1, <3>2, OutcomeLength DEF Reads
  <2>9. Len(f.file) \in Nat
    BY <1>0 DEF Typed
  <2>10. CASE whence = "SET"
    <3>1. Seeked(h, o, whence) = o
      BY <2>10 DEF Seeked
    <3> QED
      BY <1>3, <2>4, <2>6, <2>7, <2>8, <2>10, <3>1, SeekFromDoes DEF IsSeeked
  <2>11. CASE whence # "SET"
    <3>0. whence = "END" /\ o + Len(f.file) >= 0 /\ o <= 0
      BY <1>3, <2>8, <2>11
    <3>1. Seeked(h, o, whence) = Len(f.file) + o
      BY <2>7, <3>0 DEF Seeked
    <3>2. Len(f.file) + o \in Nat /\ Len(f.file) + o <= Len(h.file)
      BY <2>7, <2>9, <3>0
    <3> QED
      BY <2>4, <2>6, <2>7, <2>11, <3>1, <3>2, SeekFromDoes DEF IsSeeked
  <2> QED
    BY <2>10, <2>11
<1> QED
  BY <1>1, <1>2, <1>3

-----------------------------------------------------------------------------
(* The calls of the program.                                               *)

\* A stream the program has is sound for what it did last.
StreamInv ==
  /\ open \in BOOLEAN
  /\ open => Sound(s, dir) /\ (s.mode.read \/ s.mode.write)
  /\ ~open => s = Fresh(s.file, NoMode) /\ s.file \in Seq(Byte) /\ Len(s.file) <= MaxFile

\* What a stream that was just opened is.
LEMMA FreshDoes ==
  ASSUME NEW file \in Seq(Byte), Len(file) <= MaxFile, NEW f,
         NEW m, m \in [read : BOOLEAN, write : BOOLEAN, append : BOOLEAN,
                       truncate : BOOLEAN, buffering : {"full", "line", "none"}],
         f = Fresh(file, m)
  PROVE  /\ Typed(f) /\ Sound(f, "none") /\ f.mode = m /\ f.file = file /\ ~f.eof
<1> DEFINE b == [i \in 0 .. BufSize - 1 |-> Junk]
<1>1. b \in [0 .. BufSize - 1 -> Byte \cup {Junk}] /\ BufSize \in Nat \ {0}
  BY StreamAssumption
<1>2. f = [file |-> file, kpos |-> 0, buf |-> b,
           bufp |-> 0, getl |-> 0, putl |-> 0, target |-> -1, offset |-> -1,
           pushed |-> FALSE, pushbufp |-> 0, pushc |-> Zero,
           eof |-> FALSE, error |-> FALSE, active |-> FALSE, seen |-> FALSE,
           mode |-> m, ret |-> 0]
  BY DEF Fresh
<1> HIDE DEF b
<1>3. /\ f.file = file /\ f.kpos = 0 /\ f.bufp = 0 /\ f.getl = 0 /\ f.putl = 0
      /\ f.target = -1 /\ f.offset = -1 /\ ~f.pushed /\ f.pushbufp = 0 /\ ~f.eof
      /\ ~f.error /\ ~f.active /\ f.mode = m
  BY <1>2
<1>4. Typed(f)
  <2>1. Zero \in Byte /\ 0 \in Nat /\ -1 \in Nat \cup {-1} /\ 0 \in 0 .. BufSize
        /\ 0 \in {0, BufSize} /\ FALSE \in BOOLEAN
    BY <1>1 DEF Byte
  <2>2. f \in [file : Seq(Byte), kpos : Nat, buf : [0 .. BufSize - 1 -> Byte \cup {Junk}],
            bufp : 0 .. BufSize, getl : 0 .. BufSize, putl : {0, BufSize},
            target : Nat \cup {-1}, offset : Nat \cup {-1},
            pushed : BOOLEAN, pushbufp : 0 .. BufSize, pushc : Byte,
            eof : BOOLEAN, error : BOOLEAN, active : BOOLEAN, seen : BOOLEAN,
            mode : [read : BOOLEAN, write : BOOLEAN, append : BOOLEAN,
                    truncate : BOOLEAN, buffering : {"full", "line", "none"}],
            ret : {f.ret}]
    BY <1>1, <1>2, <2>1
  <2> QED
    BY <1>3, <2>2 DEF Typed
<1>5. Shape(f)
  BY <1>3, <1>4 DEF Shape
<1>6. Clean(f)
  BY <1>3 DEF Clean
<1>7. Known(f)
  <2>1. Len(file) \in Nat
    OBVIOUS
  <2> QED
    BY <1>3, <2>1 DEF Known
<1>8. Safe(f) /\ Even(f) /\ Standing(f) /\ Rested(f)
  BY <1>3, <1>5, <1>6, <1>7 DEF Safe, Even, Standing, Rested
<1> QED
  BY <1>3, <1>4, <1>8 DEF Reads, Sound

\* What the file of a sound stream is.
LEMMA SoundFile ==
  ASSUME NEW f, NEW d, Sound(f, d)
  PROVE  Typed(f) /\ Shape(f) /\ f.file \in Seq(Byte) /\ Len(f.file) <= MaxFile
  BY DEF Sound, Stuck, Reads, Writes, Safe, Shape, Typed

\* A call that returns.
LEMMA ReturnsSound ==
  ASSUME StreamInv, open, NEW c, NEW f, NEW r, NEW d, Returns(c, f, r, d),
         Sound(f, d), f.mode = s.mode
  PROVE  StreamInv'
<1>1. Typed(f)
  BY SoundFile
<1>2. s' = [f EXCEPT !.ret = 0] /\ dir' = d /\ open' = open
  BY DEF Returns
<1>3. Alike(s', f)
  BY <1>1, <1>2, RetAlike
<1>4. Sound(s', d) /\ s'.mode = s.mode
  BY <1>3, AlikeKeeps DEF Sound, Alike
<1> QED
  BY <1>2, <1>4 DEF StreamInv

\* What a stream is that may be read.
LEMMA MayReadDoes ==
  ASSUME Careful, StreamInv, MayRead
  PROVE  Stuck(s) \/ (Reads(s) /\ Going(s))
<1>1. Sound(s, dir) /\ dir # "out" /\ (s.mode.append => dir # "sync") /\ Going(s)
  BY DEF MayRead, StreamInv, Wary, Going
<1> QED
  BY <1>1, SyncReads DEF Sound

\* What a read leaves.
LEMMA InputDoes ==
  ASSUME StreamInv, open, NEW n, NEW f, NEW got, Input(n, f, got),
         Stuck(f) \/ Reads(f), f.mode = s.mode
  PROVE  StreamInv'
<1> DEFINE d == IF f.eof THEN "none" ELSE "in"
           c == [op |-> "read", n |-> n]
<1>1. Returns(c, f, got, d)
  BY DEF Input
<1>2. Reads(f) /\ f.eof => ~f.pushed /\ Rested(f)
  BY DEF Reads, Ended, Rested
<1>3. Sound(f, d)
  BY <1>2 DEF Sound
<1> HIDE DEF d, c
<1> QED
  BY <1>1, <1>3, ReturnsSound

LEMMA GetcKeeps ==
  ASSUME Careful, StreamInv, CGetc
  PROVE  StreamInv'
<1> DEFINE f == Getc(s)
           got == IF f.ret = EOF THEN <<>> ELSE <<f.ret>>
<1>1. MayRead /\ open /\ Input(1, f, got)
  BY DEF CGetc, MayRead
<1>2. Stuck(s) \/ (Reads(s) /\ Going(s))
  BY <1>1, MayReadDoes
<1>3. (Stuck(f) \/ Reads(f)) /\ f.mode = s.mode
  BY <1>2, GetcDoes
<1> HIDE DEF f, got
<1> QED
  BY <1>1, <1>3, InputDoes

LEMMA FreadKeeps ==
  ASSUME Careful, StreamInv, CFread
  PROVE  StreamInv'
<1>1. PICK n \in 2 .. BufSize + 1 : \E f \in {Fread(s, n)} : Input(n, f, f.ret)
  BY DEF CFread
<1>2. PICK f \in {Fread(s, n)} : Input(n, f, f.ret)
  BY <1>1
<1>3. MayRead /\ open /\ n \in Nat \ {0}
  BY StreamAssumption DEF CFread, MayRead
<1>4. Stuck(s) \/ Reads(s)
  BY <1>3, MayReadDoes
<1>5. (Stuck(f) \/ Reads(f)) /\ f.mode = s.mode
  BY <1>2, <1>3, <1>4, FreadDoes
<1> DEFINE got == f.ret
<1>6. Input(n, f, got)
  BY <1>2
<1> HIDE DEF got
<1> QED
  BY <1>3, <1>5, <1>6, InputDoes

\* What a stream is that may be written.
LEMMA MayWriteDoes ==
  ASSUME Careful, StreamInv, MayWrite
  PROVE  Stuck(s) \/ (Writes(s) /\ Rested(s))
<1>1. Sound(s, dir) /\ dir # "in" /\ s.mode.write /\ ~s.eof
  BY DEF MayWrite, StreamInv, Wary
<1>2. Reads(s) /\ ~s.pushed => Writes(s)
  BY <1>1 DEF Reads, Writes
<1>3. Roomy(s) => Rested(s)
  BY DEF Roomy, Rested
<1> QED
  BY <1>1, <1>2, <1>3 DEF Sound

LEMMA OutputDoes ==
  ASSUME StreamInv, open, NEW t, NEW f, NEW n, Output(t, f, n), IsOutput(f, s.mode)
  PROVE  StreamInv'
<1> DEFINE c == [op |-> "write", data |-> t]
<1>1. Returns(c, f, n, "out")
  BY DEF Output
<1>2. Sound(f, "out") /\ f.mode = s.mode
  BY DEF Sound, IsOutput
<1> HIDE DEF c
<1> QED
  BY <1>1, <1>2, ReturnsSound

\* After a write failed putc writes nothing, room or not.
LEMMA StuckPutc ==
  ASSUME NEW f, Stuck(f), NEW c \in Char, NEW g, g = Putc(f, c)
  PROVE  Stuck(g) /\ g.mode = f.mode
<1>0. Typed(f) /\ Shape(f) /\ f.error /\ BufSize \in Nat \ {0} /\ f.putl \in {0, BufSize}
      /\ f.bufp \in 0 .. BufSize /\ f.getl \in 0 .. BufSize
  BY StreamAssumption DEF Stuck, Shape, Typed
<1>1. CASE ~(f.bufp < f.putl)
  <2>1. Alike(g, f)
    BY <1>0, <1>1, FlushError DEF Putc
  <2> QED
    BY <2>1, AlikeKeeps DEF Alike
<1>2. CASE f.bufp < f.putl
  <2>1. f.bufp < BufSize /\ g = Put(f, c)
    BY <1>0, <1>2 DEF Putc
  <2>2. IsPut(g, f, c)
    BY <1>0, <2>1, PutDoes
  <2>3. /\ Typed(g) /\ g.bufp = f.bufp + 1
        /\ g = [f EXCEPT !.buf = g.buf, !.bufp = f.bufp + 1, !.ret = c]
    BY <2>2 DEF IsPut
  <2>4. /\ g.file = f.file /\ g.kpos = f.kpos /\ g.getl = f.getl /\ g.putl = f.putl
        /\ g.target = f.target /\ g.offset = f.offset /\ g.pushed = f.pushed
        /\ g.pushbufp = f.pushbufp /\ g.eof = f.eof /\ g.error = f.error
        /\ g.active = f.active /\ g.mode = f.mode
    BY <1>0, <2>3, ZenonT(60) DEF Typed
  <2>5. (Buffered(g) <=> Buffered(f)) /\ (Linebuf(g) <=> Linebuf(f)) /\ Buffered(f)
    <3>1. ~Buffered(f) => f.putl = 0 /\ f.bufp = 0
      BY <1>0 DEF Shape
    <3> QED
      BY <1>2, <2>4, <3>1 DEF Buffered, Linebuf
  <2>6. Shape(g)
    BY <1>0, <2>3, <2>4, <2>5 DEF Shape
  <2>7. g.getl <= g.bufp
    <3>1. f.getl <= f.bufp
      BY DEF Stuck
    <3> QED
      BY <1>0, <2>3, <2>4, <3>1
  <2>8. Stuck(g)
    BY <2>4, <2>5, <2>6, <2>7 DEF Stuck
  <2> QED
    BY <2>4, <2>8
<1> QED
  BY <1>1, <1>2

LEMMA PutcKeeps ==
  ASSUME Careful, StreamInv, CPutc
  PROVE  StreamInv'
<1>1. MayWrite /\ open
  BY DEF CPutc, MayWrite
<1>2. PICK c \in Char : \E f \in {Putc(s, c)} :
        Output(<<c>>, f, IF f.ret = EOF THEN EOF ELSE 1)
  BY DEF CPutc
<1>3. PICK f \in {Putc(s, c)} : Output(<<c>>, f, IF f.ret = EOF THEN EOF ELSE 1)
  BY <1>2
<1>4. IsOutput(f, s.mode)
  <2>1. CASE Stuck(s)
    BY <1>3, <2>1, StuckPutc DEF IsOutput
  <2>2. CASE Writes(s) /\ Rested(s)
    <3>1. IsWritten(f, s)
      BY <1>3, <2>2, PutcDoes
    <3> QED
      BY <3>1 DEF IsWritten, IsOutput
  <2> QED
    BY <1>1, <2>1, <2>2, MayWriteDoes
<1> DEFINE t == <<c>>
           n == IF f.ret = EOF THEN EOF ELSE 1
<1>5. Output(t, f, n)
  BY <1>3
<1> HIDE DEF t, n
<1> QED
  BY <1>1, <1>4, <1>5, OutputDoes

LEMMA FwriteKeeps ==
  ASSUME Careful, StreamInv, CFwrite
  PROVE  StreamInv'
<1>1. MayWrite /\ open /\ (Buffered(s) \/ AtTarget(s))
  BY DEF CFwrite, MayWrite, AtTarget
<1>2. PICK t \in UNION {[1 .. n -> Char] : n \in 2 .. BufSize + 1} :
        \E f \in {Fwrite(s, t)} : Output(t, f, f.ret)
  BY DEF CFwrite
<1>3. PICK f \in {Fwrite(s, t)} : Output(t, f, f.ret)
  BY <1>2
<1>4. t \in Seq(Char) /\ Len(t) >= 2
  <2>1. PICK n \in 2 .. BufSize + 1 : t \in [1 .. n -> Char]
    OBVIOUS
  <2>2. n \in Nat /\ n >= 2
    BY StreamAssumption
  <2> QED
    BY <2>1, <2>2
<1>5. IsOutput(f, s.mode)
  BY <1>1, <1>3, <1>4, MayWriteDoes, FwriteDoes
<1> DEFINE n == f.ret
<1>6. Output(t, f, n)
  BY <1>3
<1> HIDE DEF n
<1> QED
  BY <1>1, <1>5, <1>6, OutputDoes

LEMMA UngetcKeeps ==
  ASSUME Careful, StreamInv, CUngetc
  PROVE  StreamInv'
<1>1. MayRead /\ open
  BY DEF CUngetc, MayRead
<1>2. PICK c \in Char : \E f \in {Ungetc(s, c)} :
        Returns([op |-> "ungetc", c |-> c], f, f.ret, "in")
  BY DEF CUngetc
<1>3. PICK f \in {Ungetc(s, c)} : Returns([op |-> "ungetc", c |-> c], f, f.ret, "in")
  BY <1>2
<1>4. (Stuck(f) \/ Reads(f)) /\ f.mode = s.mode
  <2>1. Stuck(s) => Flushes(s)
    BY DEF CUngetc, Stuck
  <2> QED
    BY <1>1, <1>3, <2>1, MayReadDoes, UngetcDoes
<1>5. Sound(f, "in")
  BY <1>4 DEF Sound
<1> DEFINE t == [op |-> "ungetc", c |-> c]
           n == f.ret
<1>6. Returns(t, f, n, "in")
  BY <1>3
<1> HIDE DEF t, n
<1> QED
  BY <1>1, <1>4, <1>5, <1>6, ReturnsSound

LEMMA FflushKeeps ==
  ASSUME Careful, StreamInv, CFflush
  PROVE  StreamInv'
<1> DEFINE f == Flush(s)
           t == [op |-> "fflush"]
           n == f.ret
           d == IF dir = "out" THEN "sync" ELSE dir
<1>1. open /\ dir # "in" /\ ~(s.eof /\ s.mode.write) /\ Returns(t, f, n, d)
  BY DEF CFflush, Wary
<1>2. Sound(s, dir) /\ (s.mode.read \/ s.mode.write)
  BY <1>1 DEF StreamInv
<1>3. Typed(s)
  BY <1>2, SoundFile
<1>4. CASE ~s.mode.write
  <2>1. f = [s EXCEPT !.ret = 0]
    BY <1>2, <1>4 DEF Flush
  <2> HIDE DEF f
  <2>2. Alike(f, s)
    BY <1>3, <2>1, RetAlike
  <2>3. dir = "none" /\ Reads(s) /\ ~s.pushed
    BY <1>1, <1>2, <1>4 DEF Sound, Stuck, Writes
  <2>4. Sound(f, d) /\ f.mode = s.mode
    BY <1>4, <2>2, <2>3, AlikeKeeps DEF Sound, Alike
  <2> HIDE DEF t, n, d
  <2> QED
    BY <1>1, <2>4, ReturnsSound
<1>5. CASE s.mode.write
  <2>1. f = Flshfp(s, EOF) /\ ~s.eof
    BY <1>1, <1>5 DEF Flush
  <2> HIDE DEF f
  <2>2. IsWrittenBack(f, s, dir)
    BY <1>2, <1>5, <2>1, WriteBackDoes
  <2>3. Sound(f, d) /\ f.mode = s.mode
    BY <1>1, <2>2 DEF IsWrittenBack, Sound
  <2> HIDE DEF t, n, d
  <2> QED
    BY <1>1, <2>3, ReturnsSound
<1> QED
  BY <1>4, <1>5

\* Any of the calls that seek.
LEMMA SeeksKeeps ==
  ASSUME Careful, StreamInv, open, NEW o \in Int, NEW whence \in {"SET", "END", "CUR"},
         whence = "SET" => o \in Nat, whence = "END" => o <= 0,
         s.eof /\ s.mode.write =>
           whence = "SET" \/ (whence = "END" /\ o + Len(Outcome(s)) >= 0),
         s.mode.write /\ whence = "SET" => o <= Len(Outcome(s)),
         s.mode.write /\ whence = "CUR" =>
           /\ ~s.pushed /\ o + (Goal(s) + s.bufp) <= Len(Outcome(s))
           /\ ~(s.mode.append /\ dir \in {"out", "sync"}),
         Seeks(o, whence)
  PROVE  StreamInv'
<1> DEFINE f == Fseek(s, o, whence)
           t == [op |-> "fseek", offset |-> o, whence |-> whence]
           n == f.ret
           d == IF n = EOF THEN dir ELSE "none"
<1>1. Returns(t, f, n, d)
  BY DEF Seeks
<1>2. Sound(s, dir)
  BY DEF StreamInv
<1>3. IsSeeked(f, s, dir)
  BY <1>2, FseekDoes
<1> HIDE DEF f
<1>4. Sound(f, d) /\ f.mode = s.mode
  <2>1. n = EOF \/ n = 0
    BY <1>3 DEF IsSeeked
  <2>2. CASE n = EOF
    BY <1>3, <2>2, StreamAssumption DEF IsSeeked
  <2>3. CASE n = 0
    <3>1. d = "none"
      BY <2>3, StreamAssumption
    <3> QED
      BY <1>3, <2>3, <3>1, StreamAssumption DEF IsSeeked, IsMoved, Sound
  <2> QED
    BY <2>1, <2>2, <2>3
<1> HIDE DEF t, n, d
<1> QED
  BY <1>1, <1>4, ReturnsSound

LEMMA FseekKeeps ==
  ASSUME Careful, StreamInv, CFseek
  PROVE  StreamInv'
<1>0. open /\ Sound(s, dir) /\ MaxFile \in Nat
  BY StreamAssumption DEF CFseek, StreamInv
<1>1. Typed(s) /\ Shape(s)
  BY <1>0, SoundFile
<1>2. s.mode.write => \A p : Inside(p) => p <= Len(Outcome(s))
  BY OutcomeView DEF Inside
<1>3. Wary => ~(s.eof /\ s.mode.write)
  BY DEF Wary
<1>4. ASSUME NEW o \in 0 .. MaxFile, Inside(o), Seeks(o, "SET")
      PROVE  StreamInv'
  <2> DEFINE whence == "SET"
  <2>1. whence \in {"SET", "END", "CUR"} /\ whence = "SET" /\ o \in Int /\ o \in Nat
    BY <1>0
  <2>2. Seeks(o, whence) /\ (s.mode.write => o <= Len(Outcome(s)))
    BY <1>2, <1>4
  <2> HIDE DEF whence
  <2> QED
    BY <1>0, <2>1, <2>2, SeeksKeeps
<1>5. ASSUME NEW o \in {-1, 0}, Wary \/ o + Len(View) >= 0, Seeks(o, "END")
      PROVE  StreamInv'
  <2> DEFINE whence == "END"
  <2>1. whence \in {"SET", "END", "CUR"} /\ whence = "END" /\ o \in Int /\ o <= 0
    OBVIOUS
  <2>2. Seeks(o, whence) /\ (s.eof /\ s.mode.write => o + Len(Outcome(s)) >= 0)
    BY <1>3, <1>5, OutcomeView
  <2> HIDE DEF whence
  <2> QED
    BY <1>0, <2>1, <2>2, SeeksKeeps
<1>6. ASSUME NEW o \in {-1, 0, 1}, Wary, Inside(o + Where(s)), ~s.pushed,
             ~(s.mode.append /\ dir \in {"out", "sync"}), Seeks(o, "CUR")
      PROVE  StreamInv'
  <2> DEFINE whence == "CUR"
  <2>1. whence \in {"SET", "END", "CUR"} /\ whence = "CUR" /\ o \in Int
    OBVIOUS
  <2>2. Where(s) = Goal(s) + s.bufp
    BY <1>6 DEF Where, Goal
  <2>3. Seeks(o, whence) /\ ~(s.eof /\ s.mode.write)
        /\ (s.mode.write => o + (Goal(s) + s.bufp) <= Len(Outcome(s)))
    BY <1>2, <1>3, <1>6, <2>2
  <2> HIDE DEF whence
  <2> QED
    BY <1>0, <1>6, <2>1, <2>3, SeeksKeeps
<1> QED
  BY <1>4, <1>5, <1>6 DEF CFseek

LEMMA FtellKeeps ==
  ASSUME StreamInv, CFtell
  PROVE  StreamInv'
<1> DEFINE f == Ftell(s)
           t == [op |-> "ftell"]
           n == f.ret
           w == Where(s)
           c == CheckOffset(s)
<1>1. open /\ Returns(t, f, n, dir) /\ f = [c EXCEPT !.ret = w]
  BY DEF CFtell, Ftell
<1>2. Sound(s, dir)
  BY <1>1 DEF StreamInv
<1>3. Typed(s)
  BY <1>2, SoundFile
<1>4. IsChecked(c, s)
  BY <1>3, CheckKeeps
<1> HIDE DEF c, w, f
<1>5. Typed(c) /\ Sound(c, dir) /\ c.mode = s.mode
  BY <1>2, <1>4 DEF IsChecked, Sound, SameStream
<1>6. Alike(f, c)
  BY <1>1, <1>5, RetAlike
<1>7. Sound(f, dir) /\ f.mode = s.mode
  BY <1>5, <1>6, AlikeKeeps DEF Sound, Alike
<1> HIDE DEF t, n
<1> QED
  BY <1>1, <1>7, ReturnsSound

\* The end of file is forgotten.
LEMMA ClearerrDoes ==
  ASSUME NEW f, NEW d, Sound(f, d), ~f.error, NEW g, g = Clearerr(f)
  PROVE  /\ Sound(g, d) /\ g.mode = f.mode /\ ~g.error /\ ~g.eof /\ g.file = f.file
         /\ IsMoved(f) => IsMoved(g)
<1>0. Typed(f) /\ ~Stuck(f)
  BY SoundFile DEF Stuck
<1>1. g = [f EXCEPT !.eof = FALSE, !.error = FALSE]
  BY DEF Clearerr
<1>2. /\ g.file = f.file /\ g.kpos = f.kpos /\ g.buf = f.buf /\ g.bufp = f.bufp
      /\ g.getl = f.getl /\ g.putl = f.putl /\ g.target = f.target /\ g.offset = f.offset
      /\ g.pushed = f.pushed /\ g.pushbufp = f.pushbufp /\ ~g.eof
      /\ ~g.error /\ g.active = f.active /\ g.mode = f.mode
  BY <1>0, <1>1 DEF Typed
<1>3. Typed(g)
  <2>1. g.eof \in BOOLEAN /\ g.error \in BOOLEAN
    BY <1>0, <1>1 DEF Typed
  <2> QED
    BY <1>0, <1>1, <1>2, <2>1 DEF Typed
<1>4. (Buffered(g) <=> Buffered(f)) /\ (Linebuf(g) <=> Linebuf(f))
  BY <1>2 DEF Buffered, Linebuf
<1>5. Shape(f) => Shape(g)
  BY <1>2, <1>3, <1>4 DEF Shape
<1>6. (Clean(f) => Clean(g)) /\ (Known(f) => Known(g))
  BY <1>2 DEF Clean, Known
<1>7. Safe(f) => Safe(g)
  BY <1>2, <1>4, <1>5, <1>6 DEF Safe
<1>8. /\ Even(f) => Even(g)
      /\ Standing(f) => Standing(g)
      /\ Roomy(f) => Roomy(g)
      /\ Rested(f) => Rested(g)
  BY <1>2, <1>4 DEF Even, Standing, Roomy, Rested
<1>9. (Reads(f) => Reads(g)) /\ (Writes(f) => Writes(g))
  BY <1>2, <1>7, <1>8 DEF Reads, Writes
<1> QED
  BY <1>0, <1>2, <1>8, <1>9 DEF Sound, IsMoved

LEMMA ClearerrKeeps ==
  ASSUME Careful, StreamInv, CClearerr
  PROVE  StreamInv'
<1> DEFINE f == Clearerr(s)
           t == [op |-> "clearerr"]
<1>1. open /\ Returns(t, f, 0, dir) /\ ~s.error
  BY DEF CClearerr
<1>2. Sound(s, dir)
  BY <1>1 DEF StreamInv
<1>3. Sound(f, dir) /\ f.mode = s.mode
  BY <1>1, <1>2, ClearerrDoes
<1> HIDE DEF f, t
<1> QED
  BY <1>1, <1>3, ReturnsSound

LEMMA RewindKeeps ==
  ASSUME Careful, StreamInv, CRewind
  PROVE  StreamInv'
<1> DEFINE a == Clearerr(s)
           o == 0
           whence == "SET"
           g == Fseek(a, o, whence)
           f == Clearerr(g)
           t == [op |-> "fseek", offset |-> 0, whence |-> "SET"]
<1>1. open /\ Returns(t, f, 0, "none") /\ ~s.error /\ dir # "out"
  BY DEF CRewind
<1>2. Sound(s, dir)
  BY <1>1 DEF StreamInv
<1>3. Sound(a, dir) /\ a.mode = s.mode /\ ~a.error /\ ~a.eof
  BY <1>1, <1>2, ClearerrDoes
<1> HIDE DEF a
<1>4. Len(Outcome(a)) \in Nat
  <2>1. Safe(a)
    BY <1>3 DEF Sound, Stuck, Reads, Writes
  <2> DEFINE n == IF a.pushed THEN a.pushbufp ELSE a.bufp
  <2>2. n = IF a.pushed THEN a.pushbufp ELSE a.bufp
    OBVIOUS
  <2> HIDE DEF n
  <2> QED
    BY <2>1, <2>2, OutcomeLength
<1>5. o \in Int /\ o \in Nat /\ whence \in {"SET", "END", "CUR"} /\ whence = "SET"
      /\ o <= Len(Outcome(a))
  BY <1>4
<1> HIDE DEF o, whence
<1>6. IsSeeked(g, a, dir) /\ g.ret = 0
  BY <1>1, <1>3, <1>5, FseekDoes
<1> HIDE DEF g
<1>7. IsMoved(g) /\ g.mode = s.mode
  BY <1>3, <1>6, StreamAssumption DEF IsSeeked
<1>8. Sound(g, "none") /\ ~g.error
  BY <1>7 DEF IsMoved, Sound, Reads, Safe
<1>9. Sound(f, "none") /\ f.mode = s.mode
  BY <1>7, <1>8, ClearerrDoes
<1> HIDE DEF f, t
<1> QED
  BY <1>1, <1>9, ReturnsSound

\* What fclose and exit have flushed.
LEMMA ClosedDoes ==
  ASSUME NEW f, NEW d, Sound(f, d), f.mode.write, NEW x, x = Flshfp(f, EOF)
  PROVE  /\ x.mode = f.mode /\ x.file \in Seq(Byte) /\ Len(x.file) <= MaxFile
         /\ x.ret = EOF => Sound(x, d)
<1>1. CASE f.eof
  <2>1. Reads(f)
    BY <1>1 DEF Sound, Stuck, Writes
  <2>2. Typed(x) /\ x.mode = f.mode /\ x.ret = 0
    BY <1>1, <2>1, EofFlush
  <2>3. x.file \in Seq(Byte) /\ Len(x.file) <= MaxFile
    BY <2>2 DEF Typed
  <2> QED
    BY <2>2, <2>3, StreamAssumption
<1>2. CASE ~f.eof
  <2>1. IsWrittenBack(x, f, d)
    BY <1>2, WriteBackDoes
  <2>2. x.mode = f.mode /\ Sound(x, d)
    BY <2>1 DEF IsWrittenBack, Sound
  <2> QED
    BY <2>2, SoundFile
<1> QED
  BY <1>1, <1>2

\* The stream is gone.
LEMMA GoneSound ==
  ASSUME NEW file \in Seq(Byte), Len(file) <= MaxFile, Gone(file)
  PROVE  StreamInv'
<1> DEFINE g == Fresh(file, NoMode)
<1>1. s' = g /\ open' = FALSE
  BY DEF Gone
<1>2. g.file = file
  BY DEF Fresh
<1> HIDE DEF g
<1>3. s'.file = file
  BY <1>1, <1>2
<1>4. s' = Fresh(s'.file, NoMode)
  BY <1>1, <1>3 DEF g
<1> QED
  BY <1>1, <1>3, <1>4 DEF StreamInv

LEMMA FcloseKeeps ==
  ASSUME StreamInv, CFclose
  PROVE  StreamInv'
<1> DEFINE x == Flshfp(s, EOF)
           z == [s EXCEPT !.ret = 0]
           f == IF s.mode.write THEN x ELSE z
           t == [op |-> "fclose"]
<1>1. open /\ IF f.ret = EOF THEN Returns(t, f, EOF, dir) ELSE Gone(f.file)
  BY DEF CFclose
<1>2. Sound(s, dir)
  BY <1>1 DEF StreamInv
<1>3. Typed(s)
  BY <1>2, SoundFile
<1>4. z.ret = 0 /\ z.file = s.file /\ z.mode = s.mode
  BY <1>3 DEF Typed
<1>5. s.mode.write =>
        /\ x.mode = s.mode /\ x.file \in Seq(Byte) /\ Len(x.file) <= MaxFile
        /\ x.ret = EOF => Sound(x, dir)
  BY <1>2, ClosedDoes
<1> HIDE DEF x, z, t
<1>6. /\ f.mode = s.mode /\ f.file \in Seq(Byte) /\ Len(f.file) <= MaxFile
      /\ f.ret = EOF => Sound(f, dir)
  <2>1. CASE s.mode.write
    BY <1>5, <2>1
  <2>2. CASE ~s.mode.write
    <3>1. f = z
      BY <2>2
    <3> QED
      BY <1>2, <1>4, <3>1, SoundFile, StreamAssumption
  <2> QED
    BY <2>1, <2>2
<1> HIDE DEF f
<1>7. CASE f.ret = EOF
  BY <1>1, <1>6, <1>7, ReturnsSound
<1>8. CASE f.ret # EOF
  BY <1>1, <1>6, <1>8, GoneSound
<1> QED
  BY <1>7, <1>8

LEMMA ExitKeeps ==
  ASSUME StreamInv, CExit
  PROVE  StreamInv'
<1> DEFINE x == Flshfp(s, EOF)
           file == IF s.mode.write THEN x.file ELSE s.file
<1>1. open /\ Gone(file)
  BY DEF CExit
<1>2. Sound(s, dir)
  BY <1>1 DEF StreamInv
<1>3. s.mode.write => x.file \in Seq(Byte) /\ Len(x.file) <= MaxFile
  BY <1>2, ClosedDoes
<1> HIDE DEF x
<1>4. file \in Seq(Byte) /\ Len(file) <= MaxFile
  BY <1>2, <1>3, SoundFile
<1> HIDE DEF file
<1> QED
  BY <1>1, <1>4, GoneSound

LEMMA FopenKeeps ==
  ASSUME StreamInv, CFopen
  PROVE  StreamInv'
<1>1. PICK m \in Modes :
        /\ ~open
        /\ s' = Fresh(IF m.truncate THEN <<>> ELSE s.file, m)
        /\ open' = TRUE /\ dir' = "none"
  BY DEF CFopen
<1> DEFINE file == IF m.truncate THEN <<>> ELSE s.file
<1>2. m \in [read : BOOLEAN, write : BOOLEAN, append : BOOLEAN,
             truncate : BOOLEAN, buffering : {"full", "line", "none"}]
      /\ (m.read \/ m.write)
  BY StreamAssumption
<1>3. file \in Seq(Byte) /\ Len(file) <= MaxFile
  <2>1. s.file \in Seq(Byte) /\ Len(s.file) <= MaxFile
    BY <1>1 DEF StreamInv
  <2>2. <<>> \in Seq(Byte) /\ Len(<<>>) <= MaxFile
    BY StreamAssumption
  <2> QED
    BY <2>1, <2>2
<1>4. s' = Fresh(file, m)
  BY <1>1
<1> HIDE DEF file
<1>5. Sound(s', "none") /\ s'.mode = m
  BY <1>2, <1>3, <1>4, FreshDoes
<1> QED
  BY <1>1, <1>2, <1>5 DEF StreamInv

LEMMA StreamInit ==
  Init => StreamInv
<1> SUFFICES ASSUME Init PROVE StreamInv
  OBVIOUS
<1>1. s = Fresh(<<>>, NoMode) /\ open = FALSE
  BY DEF Init
<1>2. Fresh(<<>>, NoMode).file = <<>>
  BY DEF Fresh
<1>3. s.file = <<>>
  BY <1>1, <1>2
<1>4. <<>> \in Seq(Byte) /\ Len(<<>>) <= MaxFile
  BY StreamAssumption
<1> QED
  BY <1>1, <1>3, <1>4 DEF StreamInv

LEMMA StreamNext ==
  ASSUME Careful
  PROVE  StreamInv /\ [Next]_vars => StreamInv'
<1> SUFFICES ASSUME StreamInv, [Next]_vars PROVE StreamInv'
  OBVIOUS
<1>1. CASE CGetc
  BY <1>1, GetcKeeps
<1>2. CASE CFread
  BY <1>2, FreadKeeps
<1>3. CASE CPutc
  BY <1>3, PutcKeeps
<1>4. CASE CFwrite
  BY <1>4, FwriteKeeps
<1>5. CASE CUngetc
  BY <1>5, UngetcKeeps
<1>6. CASE CFflush
  BY <1>6, FflushKeeps
<1>7. CASE CFseek
  BY <1>7, FseekKeeps
<1>8. CASE CFtell
  BY <1>8, FtellKeeps
<1>9. CASE CClearerr
  BY <1>9, ClearerrKeeps
<1>10. CASE CRewind
  BY <1>10, RewindKeeps
<1>11. CASE CFclose
  BY <1>11, FcloseKeeps
<1>12. CASE CExit
  BY <1>12, ExitKeeps
<1>13. CASE CFopen
  BY <1>13, FopenKeeps
<1>14. CASE UNCHANGED vars
  BY <1>14 DEF vars, StreamInv
<1> QED
  BY <1>1, <1>2, <1>3, <1>4, <1>5, <1>6, <1>7, <1>8, <1>9, <1>10, <1>11, <1>12, <1>13,
     <1>14 DEF Next

\* The fields of the stream have their types, and the file has room on the disk.
THEOREM StreamTypeOK ==
  Careful => (Spec => []TypeOK)
<1> SUFFICES ASSUME Careful PROVE Spec => []TypeOK
  OBVIOUS
<1>1. StreamInv => TypeOK
  <2> SUFFICES ASSUME StreamInv PROVE TypeOK
    OBVIOUS
  <2>1. Typed(s)
    <3>1. CASE open
      BY <3>1, SoundFile DEF StreamInv
    <3>2. CASE ~open
      <4>1. s = Fresh(s.file, NoMode) /\ s.file \in Seq(Byte) /\ Len(s.file) <= MaxFile
        BY <3>2 DEF StreamInv
      <4>2. NoMode \in [read : BOOLEAN, write : BOOLEAN, append : BOOLEAN,
                        truncate : BOOLEAN, buffering : {"full", "line", "none"}]
        BY DEF NoMode
      <4> DEFINE file == s.file
                 m    == NoMode
      <4>3. file \in Seq(Byte) /\ Len(file) <= MaxFile /\ s = Fresh(file, m)
        BY <4>1
      <4> HIDE DEF file, m
      <4> QED
        BY <4>2, <4>3, FreshDoes DEF m
    <3> QED
      BY <3>1, <3>2
  <2>2. s.file \in Seq(Char \cup {Zero, Junk})
    <3>1. s.file \in Seq(Byte) /\ Byte \subseteq Char \cup {Zero, Junk}
      BY <2>1 DEF Typed, Byte
    <3> QED
      BY <3>1
  <2>3. open \in BOOLEAN
    BY DEF StreamInv
  <2> QED
    BY <2>1, <2>2, <2>3 DEF Typed, TypeOK
<1> QED
  BY <1>1, StreamInit, StreamNext, PTL DEF Spec

\* Whatever a careful program does with a stream, no byte that malloc left in a
\* buffer is ever written to the file.
THEOREM StreamNoJunk ==
  Careful => (Spec => []NoJunk)
<1> SUFFICES ASSUME Careful PROVE Spec => []NoJunk
  OBVIOUS
<1>1. StreamInv => NoJunk
  <2> SUFFICES ASSUME StreamInv PROVE NoJunk
    OBVIOUS
  <2>1. s.file \in Seq(Byte)
    BY SoundFile DEF StreamInv
  <2>2. Junk \notin Byte
    BY StreamAssumption DEF Byte
  <2> QED
    BY <2>1, <2>2 DEF NoJunk
<1> QED
  BY <1>1, StreamInit, StreamNext, PTL DEF Spec

\* feof of a careful program is true only at the end of the file it sees, output
\* the stream holds included.
THEOREM StreamEofIsTheEnd ==
  Careful => (Spec => []EofIsTheEnd)
<1> SUFFICES ASSUME Careful PROVE Spec => []EofIsTheEnd
  OBVIOUS
<1>1. StreamInv => EofIsTheEnd
  <2> SUFFICES ASSUME StreamInv, open, s.eof PROVE Place >= Len(View)
    BY DEF EofIsTheEnd
  <2>1. Reads(s) /\ dir \in {"none", "in"}
    BY DEF StreamInv, Sound, Stuck, Writes
  <2>2. /\ Ended(s) /\ Safe(s) /\ Typed(s) /\ ~s.pushed /\ s.bufp = 0
        /\ Len(s.file) <= s.kpos
    BY <2>1 DEF Reads, Ended, Safe, Shape
  <2>3. View = s.file
    <3> DEFINE n == IF s.pushed THEN s.pushbufp ELSE s.bufp
    <3>1. n = 0 /\ n = IF s.pushed THEN s.pushbufp ELSE s.bufp
      BY <2>2
    <3> HIDE DEF n
    <3> QED
      BY <2>2, <3>1, OutcomeLength, OutcomeView
  <2>4. s.kpos \in Nat /\ Len(s.file) \in Nat
    BY <2>2 DEF Typed
  <2>5. CASE ~Buffered(s)
    <3>1. Place = s.kpos
      BY <2>1, <2>5 DEF Place
    <3> QED
      BY <2>2, <2>3, <2>4, <3>1
  <2>6. CASE Buffered(s)
    <3>1. Place = Goal(s) + s.bufp
      BY <2>1, <2>2, <2>6 DEF Place, Where, Goal
    <3>2. Goal(s) = s.kpos
      BY <2>2, <2>6 DEF Ended, Goal
    <3> QED
      BY <2>2, <2>3, <2>4, <3>1, <3>2
  <2> QED
    BY <2>5, <2>6
<1> QED
  BY <1>1, StreamInit, StreamNext, PTL DEF Spec
=============================================================================
