-------------------------------- MODULE Utmp --------------------------------
(***************************************************************************)
(* The file of login records.  Several processes share it; each has its    *)
(* own descriptor, its own idea of where it stands (file_offset) and a     *)
(* copy of the entry it read last.  pututline looks for the record to      *)
(* replace and writes it in separate steps, between which the others run.  *)
(* A record is two units long, so that a write can stop half way.          *)
(***************************************************************************)
EXTENDS Integers, Sequences

CONSTANTS Proc,
          Line,       \* terminal lines
          Boot,       \* stands for the line of the record with the boot time
          None,
          Owns,       \* Owns[p]: the lines whose records p writes
          MaxUnits,   \* the units the disk has room for
          Crashes,    \* how many processes may die
          Initial,    \* what the file holds at first, unit by unit
          Careful     \* only setutent, or it and a search for the record that
                      \* finds it, come before pututline: login and logout

Size == 2

Type == {"boot", "user", "dead"}
Record == [type : Type, line : Line \cup {Boot}, by : Proc \cup {None}]

ASSUME UtmpAssumption ==
  /\ Owns \in [Proc -> SUBSET (Line \cup {Boot})]
  /\ MaxUnits \in Nat /\ Crashes \in Nat
  /\ None \notin Record \cup Line \cup {Boot} \cup Proc /\ Boot \notin Line
  /\ "mixed" \notin Line \cup {Boot, None}

Unit == {<<r, h>> : r \in Record \cup {None}, h \in 1 .. Size}

VARIABLES file,     \* a sequence of units
          u,        \* u[p]: what the library in process p remembers
          writer,   \* the holder of the write lock, or None
          died,     \* how many processes died
          put       \* put[l]: the record written last for l, or None

vars == <<file, u, writer, died, put>>

Halves(r) == [h \in 1 .. Size |-> <<r, h>>]

\* A process that has not opened the file, and one that has just done so.
Closed == [fd |-> FALSE, kpos |-> 0, offset |-> 0, last |-> None, pc |-> "idle",
           data |-> None, found |-> FALSE, since |-> None]
Rewound == [Closed EXCEPT !.fd = TRUE]

\* The first call of a process opens the file.
Ready(p) == IF u[p].fd THEN u[p] ELSE Rewound

\* What a read of one record at position k returns: None at the end and for
\* what is not a record.
RecordAt(f, k) == IF k + Size <= Len(f) /\ f[k + 1][2] = 1
                     /\ f[k + 2] = <<f[k + 1][1], 2>>
                    THEN f[k + 1][1] ELSE None
At(k) == RecordAt(file, k)

\* Mutant: a record of another type does not count.
SameEntry(entry, data) ==
  entry # None /\ entry.type = data.type /\ entry.line = data.line

\* proc_utmp_eq, and the comparison of types for the other records.
Matches(entry, data) ==
  /\ entry # None
  /\ IF data.type = "boot" THEN entry.type = "boot"
     ELSE entry.type # "boot" /\ entry.line = data.line

\* Where a record may be read.
Starts == 0 .. Len(file) - Size

\* Reading on from where the descriptor stands up to the first record at one of
\* the places wanted; what half a record at the end leaves in the copy is not told
\* apart, since offset is -1 then.  r.kpos and r.offset are where that leaves the process.
SearchFor(r, wanted) ==
  LET hits == {k \in wanted : k >= r.kpos /\ (k - r.kpos) % Size = 0}
      hit  == CHOOSE k \in hits : \A j \in hits : k <= j
      rest == Len(file) - r.kpos
      read == IF rest < Size THEN r.last
              ELSE At(Len(file) - Size - (rest % Size))
  IN IF hits # {}
       THEN [r EXCEPT !.kpos = hit + Size, !.offset = @ + hit + Size - r.kpos,
                      !.last = At(hit)]
       ELSE [r EXCEPT !.kpos = IF rest > 0 THEN Len(file) ELSE @, !.offset = -1,
                      !.last = read]

Becomes(p, r) == u' = [u EXCEPT ![p] = r]

\* What a process did since setutent: nothing, a search for one line, or more.
Noted(r, l) == IF r.since = None THEN l ELSE "mixed"

\* A waiting lock request ends when nobody else holds the lock for writing.
NoWriter(p) == writer \in {None, p}

-----------------------------------------------------------------------------
SetUtEnt(p) == /\ u[p].pc = "idle"
               /\ Becomes(p, Rewound)
               /\ UNCHANGED <<file, writer, died, put>>

\* getutent_r: the next record, whatever it is.
GetUtEnt(p) ==
  LET r == Ready(p)
      e == At(r.kpos)
  IN /\ r.pc = "idle" /\ r.offset # -1
     /\ Becomes(p, IF r.kpos + Size <= Len(file)
                     THEN [r EXCEPT !.kpos = @ + Size, !.offset = @ + Size,
                                    !.last = e, !.since = "mixed"]
                     ELSE [r EXCEPT !.kpos = IF @ < Len(file) THEN Len(file) ELSE @, !.offset = -1,
                                    !.since = "mixed"])
     /\ UNCHANGED <<file, writer, died, put>>

Key(l) == [type |-> IF l = Boot THEN "boot" ELSE "user", line |-> l]

GetUtId(p, l) ==
  LET r == Ready(p)
      wanted == {k \in Starts : Matches(At(k), Key(l))}
  IN /\ r.pc = "idle" /\ r.offset # -1 /\ NoWriter(p)
     /\ Becomes(p, [SearchFor(r, wanted) EXCEPT !.since = Noted(r, l)])
     /\ UNCHANGED <<file, writer, died, put>>

GetUtLine(p, l) ==
  LET r == Ready(p)
      wanted == {k \in Starts : At(k) # None /\ At(k).type = "user" /\ At(k).line = l}
  IN /\ r.pc = "idle" /\ r.offset # -1 /\ NoWriter(p)
     /\ Becomes(p, [SearchFor(r, wanted) EXCEPT !.since = Noted(r, l)])
     /\ UNCHANGED <<file, writer, died, put>>

EndUtEnt(p) == /\ u[p].pc = "idle" /\ u[p].fd
               /\ Becomes(p, Closed)
               /\ UNCHANGED <<file, writer, died, put>>

-----------------------------------------------------------------------------
(* pututline, in steps. *)

\* The copy of the last entry decides whether a search is needed.
PutUtLine(p, d) ==
  LET r == Ready(p)
      held == r.offset > 0 /\ Matches(r.last, d)
  IN /\ r.pc = "idle"
     /\ Careful => \/ r.since = None
                   \/ r.since = d.line /\ r.offset > 0
     /\ Becomes(p, [r EXCEPT !.data = d, !.found = held, !.since = "mixed",
                             !.pc = IF held THEN "lock" ELSE "search"])
     /\ UNCHANGED <<file, writer, died, put>>

\* internal_getut_r reads into a buffer of pututline: the copy stays.
Search(p) ==
  LET r == u[p]
      wanted == {k \in Starts : Matches(At(k), r.data)}
      t == SearchFor(r, wanted)
  IN /\ r.pc = "search" /\ NoWriter(p)
     /\ Becomes(p, [t EXCEPT !.last = r.last, !.found = t.offset # -1, !.pc = "lock"])
     /\ UNCHANGED <<file, writer, died, put>>

\* F_SETLK does not wait and nobody looks at its result: while another
\* process writes or searches the lock is not taken.
Lock(p) == /\ u[p].pc = "lock"
           /\ Becomes(p, [u[p] EXCEPT !.pc = "place"])
           /\ writer' \in {writer, IF writer = None THEN p ELSE writer}
           /\ UNCHANGED <<file, died, put>>

\* Mutant: a half record at the end stays.
PlaceUntrimmed(p) ==
  LET r == u[p]
      at == IF r.found THEN r.offset - Size ELSE Len(file)
  IN /\ r.pc = "place"
     /\ Becomes(p, [r EXCEPT !.offset = at, !.kpos = IF at < 0 THEN @ ELSE at,
                             !.pc = "write"])
     /\ UNCHANGED <<file, writer, died, put>>

\* Mutant: the write goes behind the record that was found.
PlaceBehind(p) ==
  LET r == u[p]
      at == IF r.found THEN r.offset ELSE Len(file)
      torn == ~r.found /\ at % Size # 0
  IN /\ r.pc = "place"
     /\ Becomes(p, [r EXCEPT !.offset = IF torn THEN at - (at % Size) ELSE at,
                             !.kpos = at, !.pc = IF torn THEN "trim" ELSE "write"])
     /\ UNCHANGED <<file, writer, died, put>>

\* Back to the record that was found, or to the end of the file.
Place(p) ==
  LET r == u[p]
      at == IF r.found THEN r.offset - Size ELSE Len(file)
      torn == ~r.found /\ at % Size # 0
  IN /\ r.pc = "place"
     /\ Becomes(p, [r EXCEPT !.offset = IF torn THEN at - (at % Size) ELSE at,
                             !.kpos = IF at < 0 THEN @ ELSE at,
                             !.pc = IF torn THEN "trim" ELSE "write"])
     /\ UNCHANGED <<file, writer, died, put>>

\* ftruncate: the file ends at n; what it lacks is filled with nothing.
Truncated(n) == [i \in 1 .. n |-> IF i <= Len(file) THEN file[i] ELSE <<None, 1>>]

Trim(p) == /\ u[p].pc = "trim"
           /\ file' = Truncated(u[p].offset)
           /\ Becomes(p, [u[p] EXCEPT !.kpos = Len(file'), !.pc = "write"])
           /\ UNCHANGED <<writer, died, put>>

\* The file after the first n units of d were written at position k.
Written(k, d, n) ==
  [i \in 1 .. (IF k + n > Len(file) THEN k + n ELSE Len(file)) |->
     IF i > k /\ i <= k + n THEN Halves(d)[i - k]
     ELSE IF i <= Len(file) THEN file[i] ELSE <<None, 1>>]

\* A disk that others have filled, or that is full at MaxUnits, may take a part
\* of a record that is appended.
Write(p) ==
  LET r    == u[p]
      room == IF MaxUnits < r.kpos THEN 0 ELSE MaxUnits - r.kpos
      most == IF room < Size THEN room ELSE Size
  IN /\ r.pc = "write"
     /\ \E n \in 0 .. most :
          /\ n < most => r.kpos + n >= Len(file)
          /\ file' = IF n = 0 THEN file ELSE Written(r.kpos, r.data, n)
          /\ Becomes(p, [r EXCEPT !.kpos = @ + n,
                                  !.offset = IF n = Size THEN @ + Size ELSE @,
                                  !.pc = IF n < Size /\ ~r.found THEN "undo" ELSE "unlock"])
          /\ put' = IF n = Size THEN [put EXCEPT ![r.data.line] = r.data] ELSE put
     /\ UNCHANGED <<writer, died>>

Undo(p) == /\ u[p].pc = "undo"
           /\ file' = Truncated(u[p].offset)
           /\ Becomes(p, [u[p] EXCEPT !.pc = "unlock"])
           /\ UNCHANGED <<writer, died, put>>

\* Mutant: only the process that wrote unlocks.
UnlockSometimes(p) ==
  /\ u[p].pc = "unlock"
  /\ Becomes(p, [u[p] EXCEPT !.pc = "idle", !.data = None, !.found = FALSE])
  /\ writer' = IF writer = p /\ u[p].found THEN None ELSE writer
  /\ UNCHANGED <<file, died, put>>

Unlock(p) == /\ u[p].pc = "unlock"
             /\ Becomes(p, [u[p] EXCEPT !.pc = "idle", !.data = None, !.found = FALSE])
             /\ writer' = IF writer = p THEN None ELSE writer
             /\ UNCHANGED <<file, died, put>>

\* A process dies; the kernel closes its file and drops its lock.  Another
\* takes its place.
Die(p) == /\ died < Crashes /\ u[p].pc # "idle"
          /\ died' = died + 1
          /\ Becomes(p, Closed)
          /\ writer' = IF writer = p THEN None ELSE writer
          /\ UNCHANGED <<file, put>>

-----------------------------------------------------------------------------
Init == /\ file = Initial
        /\ u = [p \in Proc |-> Closed]
        /\ writer = None /\ died = 0
        /\ put = [l \in Line \cup {Boot} |-> None]

Step(p) == \/ Search(p) \/ Lock(p) \/ Place(p) \/ Trim(p) \/ Write(p)
           \/ Undo(p) \/ Unlock(p)

Entry(p) == {[type |-> t, line |-> l, by |-> p] :
               t \in {"user", "dead"}, l \in Owns[p] \ {Boot}}
            \cup {[type |-> "boot", line |-> l, by |-> p] : l \in Owns[p] \cap {Boot}}

Call(p) == \/ SetUtEnt(p) \/ GetUtEnt(p) \/ EndUtEnt(p)
           \/ \E l \in Line \cup {Boot} : GetUtId(p, l)
           \/ \E l \in Line : GetUtLine(p, l)
           \/ \E d \in Entry(p) : PutUtLine(p, d)

Next == \E p \in Proc : Call(p) \/ Step(p) \/ Die(p)

\* A process inside pututline goes on.
Spec == Init /\ [][Next]_vars /\ \A p \in Proc : WF_vars(Step(p))

-----------------------------------------------------------------------------
\* Positions lie inside the file a disk has room for; -1 is the end.
TypeOK ==
  /\ file \in Seq(Unit) /\ Len(file) <= MaxUnits
  /\ writer \in Proc \cup {None} /\ died \in 0 .. Crashes
  /\ \A p \in Proc : u[p].kpos \in 0 .. MaxUnits /\ u[p].offset \in -1 .. MaxUnits
  /\ put \in [Line \cup {Boot} -> Record \cup {None}]

SlotsOf(f) == {k \in 0 .. Len(f) - Size : k % Size = 0}
Slots == SlotsOf(file)

\* Every slot of the file is one whole record, whatever writes stopped half
\* way and whoever died before he could take his half back.
RecordsWhole == \A k \in Slots : At(k) # None

\* One record for a line: a login replaces what the logout left.
OnePerLine == \A j, k \in Slots : At(j).line = At(k).line => j = k

\* The record a process wrote for a line stays until one is written for the
\* same line.
EntryKept == \A l \in Line \cup {Boot} :
               put[l] # None => \E k \in Slots : At(k) = put[l]

\* The inductive strengthening of these three.  A file of whole records, one for
\* a line, that may end with half a record:
Sound(f) ==
  /\ f \in Seq(Unit) /\ Len(f) <= MaxUnits
  /\ \A k \in SlotsOf(f) :
       RecordAt(f, k) \in Record /\ (RecordAt(f, k).type = "boot" <=> RecordAt(f, k).line = Boot)
  /\ \A j, k \in SlotsOf(f) : RecordAt(f, j).line = RecordAt(f, k).line => j = k

Recorded(f, l) == \E k \in SlotsOf(f) : RecordAt(f, k).line = l

\* Processes write records of lines of their own, and only for those of a are
\* there none at first.
OnlyNew(a) ==
  /\ \A p, q \in Proc : p # q => Owns[p] \cap Owns[q] = {}
  /\ Sound(Initial)
  /\ \A p \in Proc \ {a} : \A l \in Owns[p] : Recorded(Initial, l)

Memory == [fd : BOOLEAN, kpos : Nat, offset : Int, last : Record \cup {None},
           pc : {"idle", "search", "lock", "place", "trim", "write", "undo", "unlock"},
           data : Record \cup {None}, found : BOOLEAN, since : Line \cup {Boot, None, "mixed"}]

\* The record for l starts at k.
Holds(k, l) == k \in Slots /\ At(k).line = l

\* What process p may remember between calls, as long as it may write next.
Idle(p, r) ==
  /\ r.since = None => r.kpos = 0 /\ r.offset = 0
  /\ r.since \in Owns[p] /\ r.offset > 0 =>
       /\ Holds(r.offset - Size, r.since)
       /\ r.last # None /\ r.last.line = r.since /\ (r.last.type = "boot" <=> r.since = Boot)

\* Where its pututline stands: it found the record for its line, or there is none and
\* it appends one.
Putting(p, r) ==
  /\ r.data \in Entry(p)
  /\ r.pc = "search" => r.kpos = 0 /\ r.offset = 0
  /\ r.pc \in {"lock", "place"} /\ r.found => Holds(r.offset - Size, r.data.line)
  /\ r.pc = "write" => r.kpos = r.offset /\ (r.found => Holds(r.offset, r.data.line))
  /\ r.pc \in {"trim", "undo"} => ~r.found
  /\ r.pc \in {"lock", "place", "trim", "write", "undo"} /\ ~r.found =>
       /\ ~Recorded(file, r.data.line)
       /\ r.pc = "write" => r.offset = Len(file) /\ r.offset % Size = 0
       /\ r.pc \in {"trim", "undo"} =>
            r.offset % Size = 0 /\ r.offset \in Nat /\ Len(file) \in r.offset .. r.offset + 1

Stands(p, r) == IF r.pc = "idle" THEN Idle(p, r)
                ELSE r.since = "mixed" /\ (r.pc = "unlock" \/ Putting(p, r))

FileSound(a) ==
  /\ Sound(file) /\ u \in [Proc -> Memory]
  /\ put \in [Line \cup {Boot} -> Record \cup {None}]
  /\ \A l \in Line \cup {Boot} : put[l] # None => put[l].line = l
  /\ EntryKept
  /\ \A p \in Proc \ {a} : \A l \in Owns[p] : Recorded(file, l)
  /\ \A p \in Proc : Stands(p, u[p])

\* The lock is given back, whether the write succeeds, fails or its process
\* dies.
LockFreed == \A p \in Proc : (writer = p) ~> (writer # p)
=============================================================================
