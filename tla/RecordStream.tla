---------------------------- MODULE RecordStream ----------------------------
(***************************************************************************)
(* xdr_rec.c: the two ends of a TCP connection of Sun RPC.  One end fills  *)
(* an output buffer and sends it as fragments, each behind a header that   *)
(* gives its length and whether it is the last of its record; the other    *)
(* reads the connection into an input buffer, as many bytes at a time as   *)
(* have arrived, and takes the fragments apart.                            *)
(***************************************************************************)
EXTENDS Integers, Sequences

CONSTANTS Word,     \* BYTES_PER_XDR_UNIT: the bytes of a header and of a long
          OutSize,  \* sendsize, as fix_buf_size rounds it
          InSize,   \* recvsize
          Puts,     \* lengths given to xdrrec_putbytes, padded by xdr_opaque
          Gets,     \* lengths given to xdrrec_getbytes
          Window,   \* bound: the bytes the connection holds
          EOR, Tags, None

\* fix_buf_size makes both buffers whole words, and far longer than two.
ASSUME RecordAssumption ==
  /\ Word \in Nat \ {0} /\ Tags \in Nat \ {0} /\ Window \in Nat
  /\ OutSize \in Nat /\ OutSize % Word = 0 /\ OutSize > 2 * Word
  /\ InSize \in Nat /\ InSize % Word = 0 /\ InSize > Word
  /\ \A n \in Puts : n \in 1 .. OutSize + InSize /\ n % Word = 0
  /\ Gets \subseteq 1 .. OutSize + InSize
  /\ EOR \notin Int

VARIABLES o,      \* the sender's half of RECSTREAM
          r,      \* the reader's half
          wire,   \* bytes between them
          next,   \* the number of the next data byte
          out     \* what the reader's last call returned

vars == <<o, r, wire, next, out>>

\* Byte k of a header, and a data byte.
HeaderByte(k, len, last) == <<k, len, last>>
EmptyFragment == HeaderByte(1, 0, FALSE)
DataByte(n) == <<0, n % Tags, FALSE>>
Header(len, last) == [k \in 1 .. Word |-> HeaderByte(k, len, last)]

Least(a, b) == IF a <= b THEN a ELSE b
From(s, k) == SubSeq(s, k + 1, Len(s))

-----------------------------------------------------------------------------
(* The sender: buf is what lies between out_base and out_finger, frag the  *)
(* place of frag_header in it, todo what is left of a putbytes.            *)

FreshOut == [buf |-> Header(0, FALSE), frag |-> 0, frag_sent |-> FALSE, todo |-> 0]

\* The buffer with the header of its last fragment filled in.
Headed(last) ==
  LET len == Len(o.buf) - o.frag - Word
  IN [i \in 1 .. Len(o.buf) |-> IF i > o.frag /\ i <= o.frag + Word
                                THEN Header(len, last)[i - o.frag] ELSE o.buf[i]]

\* flush_out; the writes go on until the connection took everything.
FlushOut(last, sent, todo) ==
  /\ Len(wire) + Len(o.buf) <= Window
  /\ wire' = wire \o Headed(last)
  /\ o' = [FreshOut EXCEPT !.frag_sent = sent, !.todo = todo]
  /\ UNCHANGED <<r, next, out>>

\* k data bytes go to out_finger.
Store(k, todo) ==
  /\ o' = [o EXCEPT !.buf = @ \o [i \in 1 .. k |-> DataByte(next + i - 1)],
                    !.todo = todo]
  /\ next' = (next + k) % Tags
  /\ UNCHANGED <<r, wire, out>>

Room == OutSize - Len(o.buf)

\* xdrrec_putlong: a full buffer is sent first, the long waits as todo does.
PutLong == /\ o.todo = 0
           /\ IF Word > Room THEN FlushOut(FALSE, TRUE, Word) ELSE Store(Word, 0)

\* xdrrec_putbytes: what fits, and, when that is not all, a flush.
PutBytes(n) == o.todo = 0 /\ Room > 0 /\ Store(Least(n, Room), n - Least(n, Room))
PutFull(n)  == o.todo = 0 /\ Room = 0 /\ FlushOut(FALSE, TRUE, n)
PutMore     == /\ o.todo > 0
               /\ IF Room = 0 THEN FlushOut(FALSE, TRUE, o.todo)
                  ELSE Store(Least(o.todo, Room), o.todo - Least(o.todo, Room))

\* xdrrec_inline, encoding.
PutInline(n) == o.todo = 0 /\ n <= Room /\ Store(n, 0)

\* Mutant: the next header is put down though no data would fit behind it.
EndOfRecordTight(now) ==
  /\ o.todo = 0
  /\ IF now \/ o.frag_sent \/ Len(o.buf) + Word > OutSize
       THEN FlushOut(TRUE, FALSE, 0)
       ELSE /\ o' = [o EXCEPT !.buf = Headed(TRUE) \o Header(0, FALSE),
                              !.frag = Len(o.buf)]
            /\ UNCHANGED <<r, wire, next, out>>

\* Records that are short enough share a buffer until one is shipped.
EndOfRecord(now) ==
  /\ o.todo = 0
  /\ IF now \/ o.frag_sent \/ Len(o.buf) + Word >= OutSize
       THEN FlushOut(TRUE, FALSE, 0)
       ELSE /\ o' = [o EXCEPT !.buf = Headed(TRUE) \o Header(0, FALSE),
                              !.frag = Len(o.buf)]
            /\ UNCHANGED <<r, wire, next, out>>

-----------------------------------------------------------------------------
(* The reader: buf is what lies between in_finger and in_boundry, finger   *)
(* the offset of in_finger from in_base, hdr the part of a header that was *)
(* read, pos the place in the stream modulo Word.                          *)

FreshIn == [buf |-> <<>>, finger |-> InSize, fbtbc |-> 0, last_frag |-> TRUE,
            hdr |-> <<>>, op |-> None, pos |-> 0]

Return(res) == out' = res /\ UNCHANGED <<o, wire, next>>
Running == r.op # None

\* Taking k bytes off the input buffer.
Eaten(k) == [r EXCEPT !.buf = From(@, k), !.finger = @ + k, !.pos = (@ + k) % Word]
Data(k) == [i \in 1 .. k |-> r.buf[i][2]]

Call(name, want) ==
  /\ ~Running
  /\ r' = [r EXCEPT !.op = [name |-> name, want |-> want, got |-> <<>>]]
  /\ Return(None)

\* Mutant: the buffer is filled from its start.
FillFromBase ==
  /\ Running /\ r.buf = <<>> /\ (r.fbtbc > 0 \/ ~r.last_frag)
  /\ \E n \in 1 .. Least(Len(wire), InSize) :
       /\ r' = [r EXCEPT !.buf = SubSeq(wire, 1, n), !.finger = 0]
       /\ wire' = From(wire, n)
  /\ UNCHANGED <<o, next, out>>

\* fill_input_buf: in_boundry keeps its place within a word.
Fill ==
  LET i == (r.finger + Len(r.buf)) % Word
  IN /\ Running /\ r.buf = <<>> /\ (r.fbtbc > 0 \/ ~r.last_frag)
     /\ \E n \in 1 .. Least(Len(wire), InSize - i) :
          /\ r' = [r EXCEPT !.buf = SubSeq(wire, 1, n), !.finger = i]
          /\ wire' = From(wire, n)
     /\ UNCHANGED <<o, next, out>>

\* set_input_fragment.  A header of zero is refused: the call fails, and
\* xdrrec_eof says that there is no more.
ReadHeader ==
  LET k   == Least(Word - Len(r.hdr), Len(r.buf))
      hdr == r.hdr \o SubSeq(r.buf, 1, k)
      len == hdr[1][2]
      last == hdr[1][3]
  IN /\ Running /\ r.fbtbc = 0 /\ ~r.last_frag /\ k > 0
     /\ IF Len(hdr) < Word THEN r' = [Eaten(k) EXCEPT !.hdr = hdr] /\ out' = out
        ELSE LET s == [Eaten(k) EXCEPT !.hdr = <<>>, !.last_frag = last, !.fbtbc = len]
             IN IF len = 0 /\ ~last
                  THEN r' = [s EXCEPT !.op = None] /\ out' = <<r.op.name = "eof", r.op.got>>
                  ELSE r' = s /\ out' = out
     /\ UNCHANGED <<o, wire, next>>

\* xdrrec_getbytes: what the fragment and the buffer have.
Copy ==
  LET want == r.op.want - Len(r.op.got)
      k    == Least(want, Least(r.fbtbc, Len(r.buf)))
      got  == r.op.got \o Data(k)
      s    == [Eaten(k) EXCEPT !.fbtbc = @ - k]
  IN /\ Running /\ r.op.name = "get" /\ k > 0
     /\ IF k = want THEN r' = [s EXCEPT !.op = None] /\ Return(<<TRUE, got>>)
        ELSE r' = [s EXCEPT !.op.got = got] /\ Return(out)

\* Mutant: the loop goes round at the end of the record.
CopySpins == /\ Running /\ r.op.name = "get" /\ r.fbtbc = 0 /\ r.last_frag
             /\ UNCHANGED vars

\* ... which fails when the last fragment is used up.
CopyFails == /\ Running /\ r.op.name = "get" /\ r.fbtbc = 0 /\ r.last_frag
             /\ r' = [r EXCEPT !.op = None]
             /\ Return(<<FALSE, r.op.got>>)

\* xdrrec_getlong's short way and xdrrec_inline, decoding.
GetInline(n) == /\ ~Running /\ n <= r.fbtbc /\ n <= Len(r.buf)
                /\ r' = [Eaten(n) EXCEPT !.fbtbc = @ - n]
                /\ Return(<<TRUE, Data(n)>>)

\* skip_input_bytes
SkipBytes == LET k == Least(r.fbtbc, Len(r.buf))
             IN /\ Running /\ r.op.name \in {"skip", "eof"} /\ k > 0
                /\ r' = [Eaten(k) EXCEPT !.fbtbc = @ - k]
                /\ Return(out)

\* Mutant: last_frag stays.
SkipDoneNoReset ==
  /\ Running /\ r.op.name = "skip" /\ r.fbtbc = 0 /\ r.last_frag
  /\ r' = [r EXCEPT !.op = None]
  /\ Return(<<TRUE, <<>>>>)

\* xdrrec_skiprecord ends where the next record begins.
SkipDone == /\ Running /\ r.op.name = "skip" /\ r.fbtbc = 0 /\ r.last_frag
            /\ r' = [r EXCEPT !.op = None, !.last_frag = FALSE]
            /\ Return(<<TRUE, <<>>>>)

\* xdrrec_eof
EofDone == /\ Running /\ r.op.name = "eof" /\ r.fbtbc = 0 /\ r.last_frag
           /\ r' = [r EXCEPT !.op = None]
           /\ Return(<<r.buf = <<>>, <<>>>>)

-----------------------------------------------------------------------------
Init == /\ o = FreshOut /\ r = FreshIn
        /\ wire = <<>> /\ next = 0 /\ out = None

Sender == \/ PutLong \/ PutMore
          \/ \E n \in Puts : PutBytes(n) \/ PutFull(n) \/ PutInline(n)
          \/ \E now \in BOOLEAN : EndOfRecord(now)

Go == \/ Fill \/ ReadHeader \/ Copy \/ CopyFails
      \/ SkipBytes \/ SkipDone \/ EofDone

Reader == \/ Go
          \/ \E n \in Gets : Call("get", n) \/ GetInline(n)
          \/ Call("skip", 0) \/ Call("eof", 0)

Next == Sender \/ Reader

\* A reader inside a call goes on while there is something to read.
Spec == Init /\ [][Next]_vars /\ WF_vars(Go)

-----------------------------------------------------------------------------
(* The stream of bytes and ends that the buffers and the connection hold.  *)

\* a.fb bytes are left of the fragment, a.seen were read of the header, and
\* a.end comes behind the fragment's data.
Closed(a) == IF a.fb = 0 THEN [a EXCEPT !.toks = @ \o a.end, !.end = <<>>] ELSE a

Fragment(toks, len, last) ==
  Closed([toks |-> toks, fb |-> len, seen |-> 0, end |-> IF last THEN <<EOR>> ELSE <<>>])

Parse(a, x) ==
  IF a.fb > 0
    THEN Closed([a EXCEPT !.fb = @ - 1, !.toks = Append(@, IF x[1] = 0 THEN x[2] ELSE -1)])
  ELSE IF a.seen + 1 < Word THEN [a EXCEPT !.seen = @ + 1]
  ELSE Fragment(a.toks, x[2], x[3])

Parser == [toks : Seq(Int \cup {EOR}), fb : Nat, seen : Nat, end : {<<>>, <<EOR>>}]

\* What is left to parse from byte x[1] on, coming there as x[2].
Parsed(bytes) ==
  LET parsed[x \in (Nat \ {0}) \X Parser] ==
        IF x[1] > Len(bytes) THEN x[2]
        ELSE parsed[<<x[1] + 1, Parse(x[2], bytes[x[1]])>>]
  IN parsed

Tokens(bytes) ==
  Parsed(r.hdr \o bytes)[<<1, Fragment(<<>>, r.fbtbc, r.last_frag)>>].toks

\* What was written and not read.
Unread == Tokens(r.buf \o wire \o Headed(FALSE))

Abstract == INSTANCE Records WITH
  stream <- Unread, Most <- OutSize + InSize, op <- r.op

\* Records arrive whole, in order and one by one, however they were cut into
\* fragments, buffers and reads.
ImplementsRecords == Abstract!RSpec

Byte == (0 .. Word) \X Nat \X BOOLEAN
Op == [name : {"get", "skip", "eof"}, want : Nat, got : Seq(Nat)]

\* Both buffers keep within their bounds, whatever is put and read.
TypeOK ==
  /\ o \in [buf : Seq(Byte), frag : Nat, frag_sent : BOOLEAN, todo : Nat]
  /\ o.frag + Word <= Len(o.buf) /\ Len(o.buf) <= OutSize
  /\ r \in [buf : Seq(Byte), finger : Nat, fbtbc : Nat, last_frag : BOOLEAN,
            hdr : Seq(Byte), op : Op \cup {None}, pos : 0 .. Word - 1]
  /\ r.finger + Len(r.buf) <= InSize /\ Len(r.hdr) < Word
  /\ wire \in Seq(Byte) /\ next \in 0 .. Tags - 1

\* xdrrec_getlong reads a long where in_finger stands: a word of the stream
\* lies at a multiple of the word size in the buffer.
WordsAligned == r.finger % Word = r.pos

\* No fragment that receivers refuse is ever sent.
NoEmptyFragment ==
  \A i \in 1 .. Len(wire) : wire[i] # EmptyFragment

Arrived == LET t == Tokens(r.buf \o wire) IN \E i \in 1 .. Len(t) : t[i] = EOR

\* A call on a record whose end has been sent returns.
CallReturns ==
  (Running /\ Arrived) ~> ~Running
=============================================================================
