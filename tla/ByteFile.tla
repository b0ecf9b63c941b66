------------------------------ MODULE ByteFile ------------------------------
(***************************************************************************)
(* What a program that uses a stream of stdio relies on: a file is a       *)
(* sequence of bytes with one position, characters are read and written    *)
(* there, and what was written is in the file once the stream was flushed  *)
(* or closed.  There is no buffer here.  Stream.tla is shown to implement  *)
(* this specification.                                                     *)
(*                                                                         *)
(* call is the last call of the program with its arguments, out what it    *)
(* returned: the actions below say how the two go together.                *)
(***************************************************************************)
EXTENDS Integers, Sequences

CONSTANTS Zero,     \* the byte of a part of a file that was never written
          EOF       \* the result of a call that failed

VARIABLES content,  \* the file as the program sees it through the stream
          disk,     \* the file as the rest of the system sees it
          pos,      \* the file position
          pushed,   \* the character pushed back in front of pos, if any
          failed,   \* a write failed and a call reported it
          appends,  \* output goes to the end, wherever the position is
          call, out

bvars == <<content, disk, pos, pushed, failed, appends, call, out>>

\* The file f after the bytes d were written at the position at.
Overlay(f, at, d) ==
  IF d = <<>> THEN f ELSE
  LET end == at + Len(d)
  IN [i \in 1 .. (IF end > Len(f) THEN end ELSE Len(f)) |->
        IF i \in (at + 1) .. end THEN d[i - at]
        ELSE IF i <= Len(f) THEN f[i] ELSE Zero]

\* Every byte of new is the one old or goal has at its place, and new is
\* at least as long as old.
Between(new, old, goal) ==
  /\ Len(new) >= Len(old)
  /\ \A i \in 1 .. Len(new) : \/ i <= Len(old) /\ new[i] = old[i]
                              \/ i <= Len(goal) /\ new[i] = goal[i]

\* Any part of what the program wrote may reach the disk at any time.
Settle == Between(disk', disk, content')

\* The characters a read of n of them returns.
Ahead(n) ==
  LET all == pushed \o SubSeq(content, pos + Len(pushed) + 1, Len(content))
  IN SubSeq(all, 1, IF n > Len(all) THEN Len(all) ELSE n)

\* The file the program asks for when it writes d now.
After(d) == Overlay(content, IF appends THEN Len(content) ELSE pos, d)

Works == ~failed /\ ~failed' /\ UNCHANGED appends

Read ==
  /\ call'.op = "read"
  /\ Works
  /\ out' = Ahead(call'.n)
  /\ pos' = pos + Len(out')
  /\ pushed' = IF out' = <<>> THEN pushed ELSE <<>>
  /\ UNCHANGED content
  /\ Settle

Write ==
  /\ call'.op = "write"
  /\ Works
  /\ content' = After(call'.data)
  /\ pos' = IF appends THEN Len(content') ELSE pos + Len(call'.data)
  /\ out' = Len(call'.data)
  /\ UNCHANGED pushed
  /\ Settle

Unread ==
  /\ call'.op = "ungetc"
  /\ Works
  /\ IF pushed = <<>>
       THEN /\ pushed' = <<call'.c>> /\ pos' = pos - 1
            /\ out' = call'.c
       ELSE UNCHANGED <<pushed, pos>> /\ out' = EOF
  /\ UNCHANGED content
  /\ Settle

Seek ==
  LET goal == call'.offset + (CASE call'.whence = "SET" -> 0
                                [] call'.whence = "END" -> Len(content)
                                [] call'.whence = "CUR" -> pos)
  IN /\ call'.op = "fseek"
     /\ Works
     /\ out' = IF goal < 0 THEN EOF ELSE 0
     /\ pos' = IF goal < 0 THEN pos + Len(pushed) ELSE goal
     /\ pushed' = <<>>
     /\ disk' = content
     /\ UNCHANGED content

\* Where an appending stream stands is not known before its next fseek.
Tell ==
  /\ call'.op = "ftell"
  /\ Works
  /\ appends \/ out' = pos
  /\ UNCHANGED <<content, disk, pos, pushed>>

Flush ==
  /\ call'.op = "fflush"
  /\ Works
  /\ out' = 0
  /\ disk' = content
  /\ UNCHANGED <<content, pos, pushed>>

Clear ==
  /\ call'.op = "clearerr"
  /\ Works
  /\ UNCHANGED <<content, disk, pos, pushed>>

\* A call that cannot write says so, fwrite at least through ferror.  It
\* harms no byte it was not about.
Fail ==
  /\ failed' /\ UNCHANGED appends
  /\ call'.op \in {"fflush", "fclose", "fseek"} => out' = EOF
  /\ Between(disk', disk,
             IF failed THEN disk
             ELSE IF call'.op = "write" THEN After(call'.data) ELSE content)

\* The stream is gone.  What was written is in the file, unless an error
\* was reported before or, by a program that exits, could not be.
Close ==
  /\ call'.op \in {"fclose", "exit"}
  /\ ~failed'
  /\ call'.op = "fclose" => ~failed /\ disk' = content
  /\ call'.op = "exit" => Between(disk', disk, IF failed THEN disk ELSE content)

\* A new stream.
Open ==
  /\ call'.op = "fopen"
  /\ disk' = IF call'.mode.truncate THEN <<>> ELSE disk
  /\ content' = disk' /\ pos' = 0 /\ pushed' = <<>> /\ ~failed'
  /\ appends' = call'.mode.append

BNext == \/ Read \/ Write \/ Unread \/ Seek \/ Tell \/ Flush \/ Clear
         \/ Fail \/ Close \/ Open

BInit == content = disk /\ pos = 0 /\ pushed = <<>> /\ ~failed

BSpec == BInit /\ [][BNext]_bvars
=============================================================================
