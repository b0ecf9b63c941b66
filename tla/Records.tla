------------------------------ MODULE Records ------------------------------
(***************************************************************************)
(* What xdr_rec.c promises the two ends of a connection: records, sent one *)
(* after the other, that are read in pieces of any size.  Reading never    *)
(* leaves a record by itself; it fails at the record's end, and            *)
(* xdrrec_skiprecord goes on to the next one.                              *)
(***************************************************************************)
EXTENDS Integers, Sequences

CONSTANTS EOR,    \* the end of a record
          Tags,   \* data bytes are numbered modulo Tags
          Most,   \* the most bytes that move at a time
          None

VARIABLES stream,   \* the bytes and ends that were written and not read
          next,     \* the number of the next byte
          op,       \* the call the reader is in: [name, want, got], or None
          out       \* what the last call returned

rvars == <<stream, next, op, out>>

\* The reader starts behind a record, the one before the first.
RInit == stream = <<EOR>> /\ next = 0 /\ op = None /\ out = None

Put(n) == /\ next' = (next + n) % Tags
          /\ UNCHANGED <<op, out>>
          /\ stream' = stream \o [i \in 1 .. n |-> (next + i - 1) % Tags]

End == UNCHANGED <<next, op, out>> /\ stream' = Append(stream, EOR)

Call(name, want) == /\ op = None
                    /\ op' = [name |-> name, want |-> want, got |-> <<>>]
                    /\ out' = None
                    /\ UNCHANGED <<next, stream>>

\* The next k bytes are taken off the record the reader is in.
Drop(k) ==
  LET s == stream
  IN /\ k <= Len(s) /\ \A i \in 1 .. k : s[i] # EOR
     /\ stream' = SubSeq(s, k + 1, Len(s))

Take(k) ==
  /\ op # None /\ op.name = "get" /\ Len(op.got) + k <= op.want
  /\ next' = next /\ Drop(k)
  /\ LET got == op.got \o SubSeq(stream, 1, k)
     IN IF Len(got) = op.want THEN op' = None /\ out' = <<TRUE, got>>
        ELSE op' = [op EXCEPT !.got = got] /\ out' = out

Ended == stream # <<>> /\ Head(stream) = EOR

Short == /\ op # None /\ op.name = "get"
         /\ op' = None /\ out' = <<FALSE, op.got>>
         /\ Ended /\ UNCHANGED <<stream, next>>

Skip(k) == /\ op # None /\ op.name \in {"skip", "eof"}
           /\ UNCHANGED <<next, op, out>>
           /\ Drop(k)

NextRecord == /\ op # None /\ op.name = "skip"
              /\ op' = None /\ out' = <<TRUE, <<>>>>
              /\ next' = next
              /\ Ended /\ stream' = Tail(stream)

\* That more than the record has arrived is known only when it has.
Looked == /\ op # None /\ op.name = "eof" /\ op' = None
          /\ \/ out' = <<TRUE, <<>>>>
             \/ out' = <<FALSE, <<>>>> /\ Len(stream) > 1
          /\ Ended /\ UNCHANGED <<stream, next>>

\* xdrrec_inline: bytes that are there anyway.
Inline(k) == /\ op = None /\ UNCHANGED <<next, op>>
             /\ Drop(k)
             /\ out' = <<TRUE, SubSeq(stream, 1, k)>>

RNext == \/ End \/ Short \/ NextRecord \/ Looked
         \/ \E n \in 1 .. Most : Put(n) \/ Take(n) \/ Skip(n) \/ Inline(n)
         \/ \E name \in {"get", "skip", "eof"}, want \in 0 .. Most : Call(name, want)

RSpec == RInit /\ [][RNext]_rvars
=============================================================================
