------------------------------- MODULE Stream -------------------------------
(***************************************************************************)
(* A stream of stdio on a seekable file: the buffer, its three pointers,   *)
(* the position the buffer stands for and the position of the kernel.      *)
(* Pointers into the buffer are offsets from its beginning.  The functions *)
(* of the library are operators on one record that holds the fields of the *)
(* FILE, the file, the position of the kernel and the value returned; an   *)
(* action is one call of the program.                                      *)
(***************************************************************************)
EXTENDS Integers, Sequences

CONSTANTS Char,       \* the characters the program writes
          Newline,    \* one of them
          Zero,       \* the byte of a part of a file that was never written
          Junk,       \* what malloc left in a buffer
          EOF,
          BufSize,    \* the size of the buffer
          MaxFile,    \* the bytes the disk has room for
          Modes,      \* how the program opens files
          Careful     \* the program avoids what the README lists under stdio

ASSUME StreamAssumption ==
  /\ Newline \in Char
  /\ {Zero, Junk, EOF} \cap Char = {} /\ Zero \notin {Junk, EOF} /\ EOF # 0
  /\ BufSize \in Nat \ {0} /\ MaxFile \in Nat
  /\ Modes \subseteq [read : BOOLEAN, write : BOOLEAN, append : BOOLEAN,
                      truncate : BOOLEAN, buffering : {"full", "line", "none"}]
  /\ \A m \in Modes : m.read \/ m.write

VARIABLES s,      \* the stream, the file and the kernel's position
          open,   \* the stream exists
          dir,    \* "in" or "out": what may not follow without a seek
          call,   \* the last call and its arguments
          out     \* its result

vars == <<s, open, dir, call, out>>

Least(a, b) == IF a < b THEN a ELSE b
Most(a, b) == IF a < b THEN b ELSE a

Buffered(f) == f.mode.buffering # "none"
Linebuf(f) == f.mode.buffering = "line"
Cap(f) == IF Buffered(f) THEN BufSize ELSE 0

\* The bytes of the buffer from i up to j.
Slice(f, i, j) == [k \in 1 .. (j - i) |-> f.buf[i + k - 1]]

Put(f, c) == [f EXCEPT !.buf[f.bufp] = c, !.bufp = @ + 1, !.ret = c]

Fileof(f, at, d) ==
  IF d = <<>> THEN f ELSE
  [i \in 1 .. Most(Len(f), at + Len(d)) |->
     IF i > at /\ i <= at + Len(d) THEN d[i - at]
     ELSE IF i <= Len(f) THEN f[i] ELSE Zero]

\* write(): a full disk takes a part of the data, and __stdio_write, which
\* goes on with the rest, then returns -1.
SysWrite(f, d) ==
  LET at   == IF f.mode.append THEN Len(f.file) ELSE f.kpos
      fits == Least(Len(d), Most(0, MaxFile - at))
      t    == IF fits = 0 THEN f
              ELSE [f EXCEPT !.file = Fileof(@, at, SubSeq(d, 1, fits)),
                             !.kpos = at + fits]
  IN [t EXCEPT !.ret = IF fits = Len(d) THEN fits ELSE -1]

\* __stdio_check_offset: ask the kernel for a position that is not known.
CheckOffset(f) ==
  LET o == IF f.offset = -1 THEN f.kpos ELSE f.offset
  IN [f EXCEPT !.offset = o, !.target = IF @ = -1 THEN o ELSE @, !.seen = TRUE]

SeekToTarget(f) ==
  LET t == CheckOffset(f)
  IN [t EXCEPT !.kpos = IF t.offset = t.target THEN @ ELSE t.target,
               !.offset = t.target]

\* fillbuf: go to the block that holds the target and read it.  A read of a
\* file returns what there is, so the loop ends when the byte at the target
\* was read or the file ends before it.
Away(f) == f.target # f.offset

ReadBlock(f, skip) ==
  LET avail == Most(0, Len(f.file) - f.kpos)
      n     == Least(avail, IF Buffered(f) THEN BufSize ELSE 1)
      atEnd == avail <= skip
      read  == [f EXCEPT !.kpos = @ + n, !.offset = @ + n, !.eof = atEnd,
                         !.ret = IF atEnd THEN EOF ELSE f.file[f.kpos + skip + 1]]
  IN IF ~Buffered(f) THEN read
     ELSE [read EXCEPT
             !.buf = [i \in DOMAIN @ |-> IF i < n THEN f.file[f.kpos + i + 1]
                                         ELSE @[i]],
             !.bufp = IF atEnd THEN skip ELSE skip + 1,
             !.getl = IF atEnd THEN 0 ELSE n,
             !.putl = 0]

FillKnown(f) ==
  LET skip == IF Away(f) /\ Buffered(f) THEN f.target % BufSize ELSE 0
  IN ReadBlock(IF Away(f) THEN SeekToTarget([f EXCEPT !.target = @ - skip]) ELSE f,
               skip)

Fillbuf(f) == FillKnown(CheckOffset([f EXCEPT !.eof = FALSE]))

\* The end of flushbuf: the target moves past what was written, unless the
\* block was read for it, and a stream at its end has no room.
Settled(f, twiddled, written) ==
  LET t == IF twiddled THEN f
           ELSE [f EXCEPT !.target = IF @ = -1 THEN @ ELSE @ + written,
                          !.getl = 0]
  IN IF t.eof \/ t.error THEN [t EXCEPT !.bufp = t.putl] ELSE t

\* Mutant: a buffer that holds anything is written whole.
ToWriteWhole(f) == IF f.bufp = 0 THEN 0 ELSE BufSize

\* What the buffer holds for the file: data read past what was written too.
ToWrite(f) == IF f.bufp = 0 THEN 0 ELSE Most(f.bufp, f.getl)

\* The part of flushbuf that writes the buffer, and c when c is not EOF.
Wrote(w, asked) ==
  [w EXCEPT !.offset = IF w.ret <= 0 \/ @ = -1 THEN @
                       ELSE IF w.mode.append THEN -1 ELSE @ + w.ret,
            !.target = IF w.ret > 0 /\ w.mode.append THEN -1 ELSE @,
            !.error = w.ret < asked,
            !.bufp = 0]

\* A stream with its error flag set writes nothing.
WriteData(f, data) ==
  LET t == IF data = <<>> \/ f.mode.append THEN f ELSE SeekToTarget(f)
  IN IF data = <<>> \/ t.error THEN [t EXCEPT !.bufp = 0]
     ELSE Wrote(SysWrite(t, data), Len(data))

WroteChar(w) ==
  IF w.ret < 1 THEN [w EXCEPT !.error = TRUE]
  ELSE IF w.offset = -1 THEN w
  ELSE [w EXCEPT !.offset = @ + 1, !.target = @ + 1]

WriteChar(f, c) ==
  IF c = EOF \/ f.error THEN f
  ELSE IF Buffered(f) /\ ~(Linebuf(f) /\ c = Newline) THEN Put(f, c)
  ELSE WroteChar(SysWrite(f, <<c>>))

WriteOut(f, c, twiddled) ==
  Settled(WriteChar(WriteData(f, Slice(f, 0, ToWrite(f))), c), twiddled, f.bufp)

\* flushbuf on a stream that was not writing: move the target to where the
\* program is, and on an update stream read the block around it.
Updates(f) == f.mode.read /\ ~f.mode.append /\ Buffered(f)

\* Mutant: the target stays where the buffer began.
PrimeUnmoved(f) ==
  IF Updates(f) THEN CheckOffset([f EXCEPT !.getl = 0]) ELSE f

Prime(f) ==
  LET moved == IF f.target = -1 THEN [f EXCEPT !.getl = 0]
               ELSE [f EXCEPT !.target = @ + f.bufp]
  IN IF Updates(f) THEN CheckOffset(moved) ELSE moved

Around(f, skip) ==
  IF f.getl >= skip THEN [f EXCEPT !.bufp = skip]
  ELSE [f EXCEPT !.target = @ + skip, !.bufp = 0]

Ready(f, skip) ==
  IF ~Buffered(f) THEN f
  ELSE [(IF skip = 0 THEN [f EXCEPT !.bufp = 0]
         ELSE Around([Fillbuf([f EXCEPT !.target = @ - skip]) EXCEPT !.eof = FALSE],
                     skip))
        EXCEPT !.putl = BufSize]

FlushReady(f, c, twiddled) ==
  LET lined == Linebuf(f) /\ c = Newline
  IN IF c # EOF /\ (~Buffered(f) \/ lined)
       THEN WriteOut(IF lined THEN Put(f, c) ELSE f, IF lined THEN EOF ELSE c,
                     twiddled)
     ELSE Settled(IF c = EOF THEN f ELSE Put(f, c), twiddled, 0)

FlushPrimed(f, c) ==
  LET skip == IF Updates(f) THEN f.target % BufSize ELSE 0
  IN FlushReady(Ready(f, skip), c, skip > 0)

Flushbuf(f, c) ==
  IF f.putl > 0 THEN WriteOut(f, c, FALSE) ELSE FlushPrimed(Prime(f), c)

Unpush(f) == IF f.pushed THEN [f EXCEPT !.bufp = f.pushbufp, !.pushed = FALSE] ELSE f

\* An active line-buffered stream hides its room from putc.
Room(f) == f.bufp < (IF f.active THEN BufSize ELSE f.putl)

\* __flshfp: what putc calls when there is no room, and fflush always.
Flushed(f, result) ==
  [f EXCEPT !.ret = IF f.error THEN EOF ELSE result,
            !.putl = IF Linebuf(f) THEN 0 ELSE @,
            !.active = @ \/ Linebuf(f)]

FlushOrPut(f, c) ==
  LET fits == c # EOF /\ Room(f)
      u    == IF fits THEN Put(f, c) ELSE f
  IN IF fits /\ ~(Linebuf(f) /\ c = Newline) THEN u
     ELSE Flushed(Flushbuf([u EXCEPT !.putl = IF f.active THEN BufSize ELSE @],
                           IF fits THEN EOF ELSE c),
                  IF fits \/ c = EOF THEN 0 ELSE c)

Flshfp(f, c) ==
  IF f.error THEN [f EXCEPT !.ret = EOF]
  ELSE FlushOrPut([Unpush(f) EXCEPT !.seen = TRUE], c)

\* __fillbf: what getc calls when the buffer is used up.
FillWritten(f) ==
  IF f.error THEN [f EXCEPT !.ret = EOF]
  ELSE [Fillbuf(f) EXCEPT !.target = IF Buffered(f) THEN @ ELSE @ + 1]

FillNormal(f) ==
  FillWritten([(IF f.putl > 0 THEN Flushbuf(f, EOF) ELSE f)
               EXCEPT !.target = f.target + f.getl])

FillLined(f) ==
  FillNormal(IF f.active THEN [f EXCEPT !.putl = BufSize, !.active = FALSE]
             ELSE [f EXCEPT !.seen = TRUE])

FillBf(f) ==
  IF f.pushed THEN [Unpush(f) EXCEPT !.ret = f.pushc]
  ELSE FillLined(IF Linebuf(f) /\ f.mode.write THEN Flshfp(f, EOF) ELSE f)

Getc(f) ==
  IF f.bufp < f.getl THEN [f EXCEPT !.bufp = @ + 1, !.ret = f.buf[f.bufp]]
  ELSE FillBf(f)

Putc(f, c) ==
  IF f.bufp < f.putl THEN Put(f, c) ELSE Flshfp(f, c)

Flush(f) ==
  IF f.mode.read /\ ~f.mode.write THEN [f EXCEPT !.ret = 0] ELSE Flshfp(f, EOF)

\* fread: empty the buffer, then read into the caller's array when at least
\* a buffer is wanted and the kernel stands at the target, else refill.
\* r.got is what was read, r.left what is still wanted.
Took(f, r) ==
  IF f.ret = EOF THEN [f |-> f, got |-> r.got, left |-> 0]
  ELSE [f |-> f, got |-> Append(r.got, f.ret), left |-> r.left - 1]

ReadOne(r) == Took(FillBf(r.f), r)

ReadMore(r) ==
  LET copy  == Least(r.f.getl - r.f.bufp, r.left)
      f     == [r.f EXCEPT !.bufp = @ + copy]
      got   == r.got \o Slice(r.f, r.f.bufp, r.f.bufp + copy)
      left  == r.left - copy
      avail == Least(left, Most(0, Len(f.file) - f.kpos))
      moved == IF f.offset = -1 THEN 0 ELSE avail
  IN IF left = 0 THEN [f |-> f, got |-> got, left |-> 0]
     ELSE IF left >= Cap(f) /\ f.offset = f.target
     THEN [f    |-> [f EXCEPT !.kpos = @ + avail, !.offset = @ + moved,
                              !.target = @ + moved, !.eof = @ \/ avail < left],
           got  |-> got \o SubSeq(f.file, f.kpos + 1, f.kpos + avail),
           left |-> 0]
     ELSE ReadOne([f |-> f, got |-> got, left |-> left])

ReadOn(r) == IF r.left = 0 THEN r ELSE ReadMore(r)

Delivered(r) == [r.f EXCEPT !.ret = r.got]

Fread(f, n) ==
  LET start == [f |-> f, got |-> <<>>, left |-> n]
      first == IF ~f.seen \/ ~Buffered(f) \/ f.pushed THEN ReadOne(start)
               ELSE start
      all[i \in 0 .. n] == IF i = 0 THEN first ELSE ReadOn(all[i - 1])
  IN IF f.eof \/ f.error THEN [f EXCEPT !.ret = <<>>] ELSE Delivered(all[n])

\* fwrite past the buffer, when the kernel stands at the target.
WriteThrough(f, d, before) ==
  LET w == SysWrite(f, d)
  IN IF w.ret <= 0 THEN [w EXCEPT !.error = TRUE, !.ret = before]
     ELSE [w EXCEPT !.offset = IF @ = -1 THEN @ ELSE @ + w.ret,
                    !.target = IF f.offset = -1 THEN @ ELSE f.offset + w.ret,
                    !.ret = before + w.ret]

\* fwrite through the buffer: it is flushed whenever it is full and data is
\* left, and at the end when a newline was in the data.
Stored(f, c, before) ==
  IF f.error THEN [f EXCEPT !.ret = before]
  ELSE [Put(f, c) EXCEPT !.ret = before + 1]

Store(f, c) ==
  IF f.error THEN f
  ELSE Stored(IF f.bufp = BufSize THEN Flush(f) ELSE f, c, f.ret)

FillDone(f, newline) == IF newline THEN [Flush(f) EXCEPT !.ret = f.ret] ELSE f

FillBuffer(f, d, before, newline) ==
  LET all[i \in 0 .. Len(d)] == IF i = 0 THEN [f EXCEPT !.ret = before]
                                ELSE Store(all[i - 1], d[i])
  IN FillDone(all[Len(d)], newline)

\* What is left of fwrite: past the buffer or through it, and when it does
\* not fit, after the buffer was flushed.
AtTarget(f) == f.offset = f.target
Lines(f, d) == Linebuf(f) /\ \E i \in DOMAIN d : d[i] = Newline
Fits(f, d) == Cap(f) - f.bufp >= Len(d)

FwriteFlushed(f, d, before) ==
  IF f.error THEN [f EXCEPT !.ret = before]
  ELSE IF AtTarget(f) /\ (Lines(f, d) \/ ~Fits(f, d)) THEN WriteThrough(f, d, before)
  ELSE FillBuffer(f, d, before, Lines(f, d))

FwriteRest(f, d, before) ==
  IF AtTarget(f) /\ (~Buffered(f) \/ (Lines(f, d) /\ f.bufp = 0))
    THEN WriteThrough(f, d, before)
  ELSE IF Fits(f, d) THEN FillBuffer(f, d, before, Lines(f, d))
  ELSE FwriteFlushed(IF f.bufp = 0 THEN f ELSE Flshfp(f, EOF), d, before)

FwriteFirst(f, d) ==
  IF f.error THEN [f EXCEPT !.ret = 0]
  ELSE IF d = <<>> THEN [f EXCEPT !.ret = 1]
  ELSE FwriteRest(CheckOffset(f), d, 1)

Fwrite(f, d) ==
  IF f.error THEN [f EXCEPT !.ret = 0]
  ELSE IF ~f.seen \/ f.putl = 0 THEN FwriteFirst(Flshfp(f, d[1]), Tail(d))
  ELSE FwriteRest(CheckOffset(f), d, 0)

\* Mutant: fseek leaves the end-of-file flag.
AskWhereOnly(f) == CheckOffset([f EXCEPT !.offset = -1])

AskWhere(f) == [CheckOffset([f EXCEPT !.offset = -1]) EXCEPT !.eof = FALSE]

\* fseek: flush, ask the kernel where it is, drop the pushed back character,
\* and make the buffer stand for nothing at the new target.
SeekFrom(f, o, whence) ==
  LET goal == CASE whence = "SET" -> o
                [] whence = "END" -> Len(f.file) + o
                [] whence = "CUR" -> o + f.bufp + f.target
  IN IF goal < 0 THEN [f EXCEPT !.ret = EOF]
     ELSE [f EXCEPT !.target = goal, !.kpos = goal, !.offset = goal, !.bufp = 0,
                    !.getl = 0, !.putl = 0, !.active = FALSE, !.ret = 0]

SeekFlushed(f, o, whence) ==
  IF f.mode.write /\ f.ret = EOF THEN f
  ELSE SeekFrom(Unpush(AskWhere(f)), o, whence)

Fseek(f, o, whence) ==
  SeekFlushed(IF f.mode.write THEN Flshfp(f, EOF) ELSE f, o, whence)

Where(f) == (IF f.target = -1 THEN f.kpos ELSE f.target)
            + (IF f.pushed THEN f.pushbufp - 1 ELSE f.bufp)

Ftell(f) == [CheckOffset(f) EXCEPT !.ret = Where(f)]

PushBack(f, c) ==
  [f EXCEPT !.pushc = c, !.pushed = TRUE, !.pushbufp = f.bufp,
            !.bufp = f.getl, !.eof = FALSE, !.ret = c]

\* ungetc: a stream that was writing is flushed first, which fails exactly if
\* the error flag is set then.
Flushes(f) == f.active \/ f.putl > 0

Ungetc(f, c) ==
  LET x == IF Flushes(f) THEN Flshfp(f, EOF) ELSE f
  IN IF f.pushed THEN [f EXCEPT !.ret = EOF]
     ELSE IF Flushes(f) /\ x.error THEN x
     ELSE PushBack(x, c)

\* __newstream, __stdio_open and setvbuf: a stream nothing was done with.
Fresh(file, m) ==
  [file |-> file, kpos |-> 0, buf |-> [i \in 0 .. BufSize - 1 |-> Junk],
   bufp |-> 0, getl |-> 0, putl |-> 0, target |-> -1, offset |-> -1,
   pushed |-> FALSE, pushbufp |-> 0, pushc |-> Zero,
   eof |-> FALSE, error |-> FALSE, active |-> FALSE, seen |-> FALSE,
   mode |-> m, ret |-> 0]

-----------------------------------------------------------------------------
(* The calls of the program. *)

NoMode == [read |-> FALSE, write |-> FALSE, append |-> FALSE,
           truncate |-> FALSE, buffering |-> "full"]

Init == /\ s = Fresh(<<>>, NoMode)
        /\ open = FALSE /\ dir = "none"
        /\ call = [op |-> "exit"] /\ out = 0

Returns(c, f, result, d) ==
  /\ s' = [f EXCEPT !.ret = 0] /\ out' = result /\ call' = c /\ dir' = d
  /\ UNCHANGED open

\* What a careful program avoids besides: to go on at the end of file with a
\* stream that can write or has no buffer, unless it seeks to a known place.
Wary == Careful => ~(s.eof /\ (s.mode.write \/ ~Buffered(s)))

\* ISO C: after output and before a seek or a flush a program does not read;
\* after input and before a seek it does not write, unless the input met the
\* end of the file.  A careful program seeks before it reads what it appended.
MayRead == /\ open /\ s.mode.read /\ dir # "out" /\ Wary
           /\ Careful /\ s.mode.append => dir # "sync"
MayWrite == open /\ s.mode.write /\ dir # "in" /\ Wary

\* Output the stream holds, and the file as the program sees it.
Holds == s.mode.write /\ ~s.error /\ (s.putl > 0 \/ s.active)
View == IF ~Holds THEN s.file
        ELSE Fileof(s.file,
                    IF s.mode.append THEN Len(s.file)
                    ELSE IF s.target = -1 THEN s.kpos ELSE s.target,
                    Slice(s, 0, IF s.pushed THEN s.pushbufp ELSE s.bufp))

Input(n, f, got) ==
  Returns([op |-> "read", n |-> n], f, got, IF f.eof THEN "none" ELSE "in")

CGetc ==
  /\ MayRead
  /\ \E f \in {Getc(s)} : Input(1, f, IF f.ret = EOF THEN <<>> ELSE <<f.ret>>)

CFread ==
  /\ MayRead
  /\ \E n \in 2 .. BufSize + 1 : \E f \in {Fread(s, n)} : Input(n, f, f.ret)

Output(d, f, count) == Returns([op |-> "write", data |-> d], f, count, "out")

CPutc ==
  /\ MayWrite
  /\ \E c \in Char : \E f \in {Putc(s, c)} :
       Output(<<c>>, f, IF f.ret = EOF THEN EOF ELSE 1)

\* After the end of file fwrite may never end: flushing makes no room in the
\* buffer, or there is none, and the loop at fwrite.c:167 counts past zero.
CFwrite ==
  /\ MayWrite
  /\ ~s.eof /\ (Buffered(s) \/ s.offset = s.target)
  /\ \E d \in UNION {[1 .. n -> Char] : n \in 2 .. BufSize + 1} :
       \E f \in {Fwrite(s, d)} : Output(d, f, f.ret)

\* Before the first character of a file there is nothing to push back, and a
\* careful program pushes nothing back after an unbuffered write failed.
CUngetc ==
  /\ MayRead /\ Where(s) > 0
  /\ Careful /\ s.error => Flushes(s)
  /\ \E c \in Char : \E f \in {Ungetc(s, c)} :
       Returns([op |-> "ungetc", c |-> c], f, f.ret, "in")

CFflush ==
  /\ open /\ dir # "in" /\ Wary
  /\ \E f \in {Flush(s)} :
       Returns([op |-> "fflush"], f, f.ret, IF dir = "out" THEN "sync" ELSE dir)

Seeks(o, whence) ==
  \E f \in {Fseek(s, o, whence)} :
    Returns([op |-> "fseek", offset |-> o, whence |-> whence], f, f.ret,
            IF f.ret = EOF THEN dir ELSE "none")

\* A careful program seeks an update stream inside the file, and does not
\* count from a place it pushed a character back at or from the end of file.
Inside(p) == Careful /\ s.mode.write => p <= Len(View)

CFseek ==
  /\ open
  /\ \/ \E o \in 0 .. MaxFile : Inside(o) /\ Seeks(o, "SET")
     \/ \E o \in {-1, 0} : (Wary \/ o + Len(View) >= 0) /\ Seeks(o, "END")
     \/ \E o \in {-1, 0, 1} :
          /\ Wary /\ Inside(o + Where(s)) /\ (Careful => ~s.pushed)
          /\ o + Where(s) <= MaxFile
          /\ ~(s.mode.append /\ dir \in {"out", "sync"})
          /\ Seeks(o, "CUR")

CFtell == /\ open /\ Wary
          /\ \E f \in {Ftell(s)} : Returns([op |-> "ftell"], f, f.ret, dir)

Clearerr(f) == [f EXCEPT !.eof = FALSE, !.error = FALSE]

\* A careful program does not go on after a write failed.
CClearerr == /\ open
             /\ s.eof \/ s.error
             /\ Careful => ~s.error /\ Buffered(s)
             /\ Returns([op |-> "clearerr"], Clearerr(s), 0, dir)

\* rewind reports nothing: a careful program flushes before.
CRewind ==
  /\ open
  /\ Careful => ~s.error /\ dir # "out"
  /\ Returns([op |-> "fseek", offset |-> 0, whence |-> "SET"],
             Clearerr(Fseek(Clearerr(s), 0, "SET")), 0, "none")

Gone(file) == /\ s' = Fresh(file, NoMode) /\ open' = FALSE /\ dir' = "none"

\* fclose of a stream that cannot be flushed leaves it open.
CFclose ==
  /\ open
  /\ \E f \in {IF s.mode.write THEN Flshfp(s, EOF) ELSE [s EXCEPT !.ret = 0]} :
       IF f.ret = EOF THEN Returns([op |-> "fclose"], f, EOF, dir)
       ELSE Gone(f.file) /\ call' = [op |-> "fclose"] /\ out' = 0

\* exit: fcloseall tries, and the process is gone.
CExit ==
  /\ open
  /\ Gone(IF s.mode.write THEN Flshfp(s, EOF).file ELSE s.file)
  /\ call' = [op |-> "exit"] /\ out' = 0

CFopen == \E m \in Modes :
  /\ ~open
  /\ s' = Fresh(IF m.truncate THEN <<>> ELSE s.file, m)
  /\ open' = TRUE /\ dir' = "none"
  /\ call' = [op |-> "fopen", mode |-> m] /\ out' = 0

Next == \/ CGetc \/ CFread \/ CPutc \/ CFwrite \/ CUngetc \/ CFflush \/ CFseek
        \/ CFtell \/ CClearerr \/ CRewind \/ CFclose \/ CExit \/ CFopen

Spec == Init /\ [][Next]_vars

-----------------------------------------------------------------------------
(* Properties. *)

\* The pointers stay in the buffer and the flags are flags.
TypeOK ==
  /\ s.file \in Seq(Char \cup {Zero, Junk}) /\ Len(s.file) <= MaxFile
  /\ s.bufp \in 0 .. BufSize /\ s.getl \in 0 .. BufSize /\ s.putl \in {0, BufSize}
  /\ s.kpos \in Nat /\ s.target \in Nat \cup {-1} /\ s.offset \in Nat \cup {-1}
  /\ {s.pushed, s.eof, s.error, s.active, s.seen, open} \subseteq BOOLEAN

\* The position the program is at.  ftell counts from where an appending
\* stream stood before its output, and one too far at the end of file of a
\* stream without a buffer; a careful program does not ask there.
Place == IF s.mode.append /\ dir \in {"out", "sync"} THEN Len(View)
         ELSE IF s.eof /\ ~Buffered(s) THEN s.kpos
         ELSE Where(s)

\* What a program sees is a file with one position: every read returns the
\* bytes at the position, every write changes those and no other, fseek,
\* ftell and ungetc agree on the position, a flushed or closed stream is in
\* the file, and a write that failed is reported and harms no other byte.
Abstract == INSTANCE ByteFile WITH
  content <- View, disk <- s.file, failed <- s.error, appends <- s.mode.append,
  pos <- Place,
  pushed <- IF s.pushed THEN <<s.pushc>> ELSE <<>>

ImplementsByteFile == Abstract!BSpec

\* feof is set only where nothing is left to read.
EofIsTheEnd == open /\ s.eof => Place >= Len(View)

\* What malloc left in a buffer is never written to a file.
NoJunk == \A i \in DOMAIN s.file : s.file[i] # Junk
=============================================================================
