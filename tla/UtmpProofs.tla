----------------------------- MODULE UtmpProofs -----------------------------
(***************************************************************************)
(* Proofs about Utmp, for any number of processes, lines and units: as     *)
(* long as each process writes records of its own lines, and only one adds *)
(* new ones, the file stays one of whole records, one for a line, and      *)
(* keeps what was written, whatever the locks do, whoever dies and however *)
(* little the disk takes.                                                  *)
(***************************************************************************)
EXTENDS Utmp, SequenceTheorems, WellFoundedInduction, TLAPS

-----------------------------------------------------------------------------
(* The places of records.                                                  *)

LEMMA SlotFacts ==
  ASSUME NEW f \in Seq(Unit)
  PROVE  /\ Len(f) \in Nat
         /\ \A k \in SlotsOf(f) : /\ k \in Nat /\ k % 2 = 0 /\ k + 2 <= Len(f)
                                  /\ k + 1 \in 1..Len(f) /\ k + 2 \in 1..Len(f)
         /\ \A j, k \in SlotsOf(f) : j # k => j + 2 <= k \/ k + 2 <= j
  BY DEF SlotsOf, Size

\* A unit is half of a record, or of nothing.
LEMMA UnitTypes ==
  /\ \A x \in Unit : x[1] \in Record \cup {None} /\ x[2] \in 1..2
  /\ \A r \in Record \cup {None} : <<r, 1>> \in Unit /\ <<r, 2>> \in Unit
  BY DEF Unit, Size

LEMMA HalvesTypes ==
  ASSUME NEW d
  PROVE  Halves(d)[1] = <<d, 1>> /\ Halves(d)[2] = <<d, 2>>
  BY DEF Halves, Size

\* Files with the same records are as sound as each other.
LEMMA SoundSame ==
  ASSUME NEW f, Sound(f), NEW g \in Seq(Unit), Len(g) <= MaxUnits,
         SlotsOf(g) = SlotsOf(f), \A k \in SlotsOf(f) : RecordAt(g, k) = RecordAt(f, k)
  PROVE  Sound(g) /\ \A l : Recorded(g, l) <=> Recorded(f, l)
  BY DEF Sound, Recorded

-----------------------------------------------------------------------------
(* What the steps of pututline do to the file.                             *)

\* Cutting off half a record at the end leaves every record.
LEMMA TruncatedKeeps ==
  ASSUME Sound(file), NEW n \in Nat, n % Size = 0, Len(file) \in n..(n + 1)
  PROVE  /\ Sound(Truncated(n)) /\ Len(Truncated(n)) = n
         /\ SlotsOf(Truncated(n)) = Slots
         /\ \A k \in Slots : RecordAt(Truncated(n), k) = At(k)
<1> DEFINE g == Truncated(n)
<1>1. file \in Seq(Unit) /\ Len(file) \in Nat /\ n <= Len(file) /\ Len(file) <= n + 1
      /\ Len(file) <= MaxUnits /\ MaxUnits \in Nat
  BY UtmpAssumption DEF Sound
<1>2. \A i \in 1..n : g[i] = file[i] /\ g[i] \in Unit
  BY <1>1 DEF Truncated
<1>3. g = [i \in 1..n |-> g[i]]
  BY DEF Truncated
<1>4. g \in Seq(Unit) /\ Len(g) = n
  <2> HIDE DEF g
  <2> QED BY <1>2, <1>3
<1> HIDE DEF g
<1>5. SlotsOf(g) = SlotsOf(file)
  BY <1>1, <1>4 DEF SlotsOf, Size
<1>6. ASSUME NEW k \in SlotsOf(file) PROVE RecordAt(g, k) = RecordAt(file, k)
  <2>1. k \in Nat /\ k + 2 <= n /\ k + 2 <= Len(file) /\ k + 1 \in 1..n /\ k + 2 \in 1..n
    BY <1>1, <1>4, <1>5, SlotFacts
  <2> QED BY <1>2, <1>4, <2>1 DEF RecordAt, Size
<1>7. Sound(g)
  <2>1. Len(g) <= MaxUnits
    BY <1>1, <1>4
  <2> QED BY <1>4, <1>5, <1>6, <2>1, SoundSame
<1> QED BY <1>4, <1>5, <1>6, <1>7 DEF g, Slots, At

\* The units of a file after a write that leaves no gap.
LEMMA WrittenUnits ==
  ASSUME Sound(file), NEW k \in Nat, k <= Len(file), NEW d \in Record, NEW n \in 1..2
  PROVE  LET g == Written(k, d, n)
         IN /\ g \in Seq(Unit) /\ Len(g) = IF k + n > Len(file) THEN k + n ELSE Len(file)
            /\ g[k + 1] = <<d, 1>> /\ (n = 2 => g[k + 2] = <<d, 2>>)
            /\ \A i \in 1..Len(file) : i <= k \/ i > k + n => g[i] = file[i]
<1> DEFINE g == Written(k, d, n)
<1> DEFINE m == IF k + n > Len(file) THEN k + n ELSE Len(file)
<1>1. file \in Seq(Unit) /\ Len(file) \in Nat
  BY DEF Sound
<1>2. m \in Nat /\ k + n <= m /\ Len(file) <= m
  BY <1>1
<1>3. g = [i \in 1..m |-> IF i > k /\ i <= k + n THEN Halves(d)[i - k]
                          ELSE IF i <= Len(file) THEN file[i] ELSE <<None, 1>>]
  BY DEF Written
<1> HIDE DEF m
<1>4. g[k + 1] = <<d, 1>>
  <2>1. k + 1 \in 1..m /\ k + 1 > k /\ k + 1 <= k + n /\ (k + 1) - k = 1
    BY <1>2
  <2> QED BY <1>3, <2>1, HalvesTypes
<1>5. n = 2 => g[k + 2] = <<d, 2>>
  <2> SUFFICES ASSUME n = 2 PROVE g[k + 2] = <<d, 2>>
    OBVIOUS
  <2>1. k + 2 \in 1..m /\ k + 2 > k /\ k + 2 <= k + n /\ (k + 2) - k = 2
    BY <1>2
  <2> QED BY <1>3, <2>1, HalvesTypes
<1>6. ASSUME NEW i \in 1..Len(file), i <= k \/ i > k + n PROVE g[i] = file[i]
  <2>1. i \in 1..m /\ ~(i > k /\ i <= k + n) /\ i <= Len(file)
    BY <1>1, <1>2, <1>6
  <2> QED BY <1>3, <2>1
<1>7. \A i \in 1..m : g[i] \in Unit
  <2> SUFFICES ASSUME NEW i \in 1..m PROVE g[i] \in Unit
    OBVIOUS
  <2>1. CASE i > k /\ i <= k + n
    <3>1. i = k + 1 \/ (i = k + 2 /\ n = 2)
      BY <2>1
    <3> QED BY <1>4, <1>5, <3>1, UnitTypes
  <2>2. CASE ~(i > k /\ i <= k + n)
    <3>1. g[i] = IF i <= Len(file) THEN file[i] ELSE <<None, 1>>
      BY <1>3, <2>2
    <3>2. i <= Len(file) => file[i] \in Unit
      BY <1>1, <1>2
    <3>3. <<None, 1>> \in Unit
      BY UnitTypes
    <3> QED BY <3>1, <3>2, <3>3
  <2> QED BY <2>1, <2>2
<1>8. g = [i \in 1..m |-> g[i]]
  BY <1>3
<1>9. g \in Seq(Unit) /\ Len(g) = m
  <2> HIDE DEF g
  <2> QED BY <1>2, <1>7, <1>8
<1> QED BY <1>4, <1>5, <1>6, <1>9 DEF m

\* A record in the place of one for the same line.
LEMMA ReplaceKeeps ==
  ASSUME Sound(file), NEW k \in Slots, NEW d \in Record, d.line = At(k).line,
         d.type = "boot" <=> d.line = Boot
  PROVE  LET g == Written(k, d, Size)
         IN /\ Sound(g) /\ SlotsOf(g) = Slots /\ RecordAt(g, k) = d /\ Len(g) = Len(file)
            /\ \A j \in Slots : j # k => RecordAt(g, j) = At(j)
            /\ \A l : Recorded(g, l) <=> Recorded(file, l)
<1> DEFINE g == Written(k, d, Size)
<1>1. file \in Seq(Unit) /\ Len(file) \in Nat /\ Len(file) <= MaxUnits
  BY DEF Sound
<1>2. k \in Nat /\ k + 2 <= Len(file) /\ k <= Len(file)
  BY <1>1, SlotFacts DEF Slots
<1>3. /\ g \in Seq(Unit) /\ Len(g) = Len(file)
      /\ g[k + 1] = <<d, 1>> /\ g[k + 2] = <<d, 2>>
      /\ \A i \in 1..Len(file) : i <= k \/ i > k + 2 => g[i] = file[i]
  BY <1>1, <1>2, WrittenUnits DEF Size
<1> HIDE DEF g
<1>4. SlotsOf(g) = Slots
  BY <1>3 DEF SlotsOf, Slots
<1>5. RecordAt(g, k) = d
  BY <1>2, <1>3 DEF RecordAt, Size
<1>6. ASSUME NEW j \in Slots, j # k PROVE RecordAt(g, j) = At(j)
  <2>1. /\ j + 1 \in 1..Len(file) /\ j + 2 \in 1..Len(file) /\ j \in Nat
        /\ j + 2 <= k \/ k + 2 <= j
    BY <1>1, <1>6, SlotFacts DEF Slots
  <2>2. g[j + 1] = file[j + 1] /\ g[j + 2] = file[j + 2]
    BY <1>2, <1>3, <2>1
  <2> QED BY <1>3, <2>2 DEF At, RecordAt, Size
<1>7. \A j \in Slots : RecordAt(g, j).line = At(j).line
  BY <1>5, <1>6
<1>8. Sound(g)
  <2>1. \A j \in Slots : At(j) \in Record /\ (At(j).type = "boot" <=> At(j).line = Boot)
    BY DEF Sound, Slots, At
  <2>2. \A i, j \in Slots : At(i).line = At(j).line => i = j
    BY DEF Sound, Slots, At
  <2>3. \A j \in Slots : /\ RecordAt(g, j) \in Record
                         /\ RecordAt(g, j).type = "boot" <=> RecordAt(g, j).line = Boot
    BY <1>5, <1>6, <2>1
  <2>4. \A i, j \in Slots : RecordAt(g, i).line = RecordAt(g, j).line => i = j
    BY <1>7, <2>2
  <2> QED BY <1>1, <1>3, <1>4, <2>3, <2>4 DEF Sound
<1>9. \A l : Recorded(g, l) <=> Recorded(file, l)
  BY <1>4, <1>7 DEF Recorded, Slots, At
<1> QED BY <1>3, <1>4, <1>5, <1>6, <1>8, <1>9 DEF g

\* A record at the end of the file, for a line without one.
LEMMA AppendKeeps ==
  ASSUME Sound(file), Len(file) % Size = 0, Len(file) + Size <= MaxUnits,
         NEW d \in Record, ~Recorded(file, d.line), d.type = "boot" <=> d.line = Boot
  PROVE  LET g == Written(Len(file), d, Size)
         IN /\ Sound(g) /\ SlotsOf(g) = Slots \cup {Len(file)} /\ Len(file) \notin Slots
            /\ RecordAt(g, Len(file)) = d
            /\ \A j \in Slots : RecordAt(g, j) = At(j)
<1> DEFINE k == Len(file)
<1> DEFINE g == Written(k, d, Size)
<1>1. file \in Seq(Unit) /\ k \in Nat
  BY DEF Sound
<1>2. k % 2 = 0 /\ k + 2 <= MaxUnits
  BY DEF Size
<1>3. /\ g \in Seq(Unit) /\ Len(g) = k + 2
      /\ g[k + 1] = <<d, 1>> /\ g[k + 2] = <<d, 2>>
      /\ \A i \in 1..k : g[i] = file[i]
  <2>1. /\ g \in Seq(Unit) /\ Len(g) = IF k + 2 > Len(file) THEN k + 2 ELSE Len(file)
        /\ g[k + 1] = <<d, 1>> /\ g[k + 2] = <<d, 2>>
        /\ \A i \in 1..Len(file) : i <= k \/ i > k + 2 => g[i] = file[i]
    <3>1. g = Written(k, d, 2) /\ 2 \in 1..2 /\ k <= Len(file)
      BY <1>1 DEF Size
    <3> HIDE DEF g
    <3> QED BY <1>1, <3>1, WrittenUnits
  <2> HIDE DEF g
  <2> QED BY <1>1, <2>1
<1>4. Slots = {j \in 0..(k - 2) : j % 2 = 0}
  BY DEF Slots, SlotsOf, Size
<1> HIDE DEF g, k
<1>5. SlotsOf(g) = {j \in 0..k : j % 2 = 0}
  <2>1. (k + 2) - 2 = k
    BY <1>1
  <2> QED BY <1>3, <2>1 DEF SlotsOf, Size
<1>6. SlotsOf(g) = Slots \cup {k} /\ k \notin Slots
  BY <1>1, <1>2, <1>4, <1>5
<1>7. RecordAt(g, k) = d
  BY <1>1, <1>3 DEF RecordAt, Size
<1>8. ASSUME NEW j \in Slots PROVE RecordAt(g, j) = At(j)
  <2>1. j \in Nat /\ j + 2 <= k /\ j + 1 \in 1..k /\ j + 2 \in 1..k
    BY <1>1, <1>4
  <2>2. g[j + 1] = file[j + 1] /\ g[j + 2] = file[j + 2] /\ j + 2 <= Len(g) /\ j + 2 <= Len(file)
    BY <1>1, <1>3, <2>1 DEF k
  <2> QED BY <2>2 DEF At, RecordAt, Size
<1>9. Sound(g)
  <2>1. \A j \in Slots : At(j) \in Record /\ (At(j).type = "boot" <=> At(j).line = Boot)
    BY DEF Sound, Slots, At
  <2>2. \A i, j \in Slots : At(i).line = At(j).line => i = j
    BY DEF Sound, Slots, At
  <2>3. \A j \in Slots : At(j).line # d.line
    BY DEF Recorded, Slots, At
  <2>4. \A j \in Slots \cup {k} : /\ RecordAt(g, j) \in Record
                                  /\ RecordAt(g, j).type = "boot" <=> RecordAt(g, j).line = Boot
    BY <1>7, <1>8, <2>1
  <2>5. \A i, j \in Slots \cup {k} : RecordAt(g, i).line = RecordAt(g, j).line => i = j
    BY <1>7, <1>8, <2>2, <2>3
  <2> QED BY <1>2, <1>3, <1>6, <2>4, <2>5 DEF Sound
<1> QED BY <1>6, <1>7, <1>8, <1>9 DEF g, k

\* Half a record at the end of the file.
LEMMA HalfKeeps ==
  ASSUME Sound(file), Len(file) % Size = 0, Len(file) + 1 <= MaxUnits, NEW d \in Record
  PROVE  LET g == Written(Len(file), d, 1)
         IN /\ Sound(g) /\ Len(g) = Len(file) + 1 /\ SlotsOf(g) = Slots
            /\ \A j \in Slots : RecordAt(g, j) = At(j)
<1> DEFINE k == Len(file)
<1> DEFINE g == Written(k, d, 1)
<1>1. file \in Seq(Unit) /\ k \in Nat
  BY DEF Sound
<1>2. k % 2 = 0 /\ k + 1 <= MaxUnits
  BY DEF Size
<1>3. g \in Seq(Unit) /\ Len(g) = k + 1 /\ \A i \in 1..k : g[i] = file[i]
  BY <1>1, WrittenUnits
<1>4. Slots = {j \in 0..(k - 2) : j % 2 = 0}
  BY DEF Slots, SlotsOf, Size
<1> HIDE DEF g, k
<1>5. SlotsOf(g) = Slots
  <2>1. (k + 1) - 2 = k - 1
    BY <1>1
  <2>2. SlotsOf(g) = {j \in 0..(k - 1) : j % 2 = 0}
    BY <1>3, <2>1 DEF SlotsOf, Size
  <2> QED BY <1>1, <1>2, <1>4, <2>2
<1>6. ASSUME NEW j \in Slots PROVE RecordAt(g, j) = At(j)
  <2>1. j \in Nat /\ j + 2 <= k /\ j + 1 \in 1..k /\ j + 2 \in 1..k
    BY <1>1, <1>4
  <2>2. g[j + 1] = file[j + 1] /\ g[j + 2] = file[j + 2] /\ j + 2 <= Len(g) /\ j + 2 <= Len(file)
    BY <1>1, <1>3, <2>1 DEF k
  <2> QED BY <2>2 DEF At, RecordAt, Size
<1>7. Sound(g)
  <2>1. Len(g) <= MaxUnits
    BY <1>2, <1>3
  <2>2. \A j \in SlotsOf(file) : RecordAt(g, j) = RecordAt(file, j)
    BY <1>6 DEF Slots, At
  <2> QED BY <1>3, <1>5, <2>1, <2>2, SoundSame DEF Slots
<1> QED BY <1>3, <1>5, <1>6, <1>7 DEF g, k

-----------------------------------------------------------------------------
(* What a process reads.                                                   *)

LEMMA AtTypes ==
  ASSUME NEW f \in Seq(Unit), NEW k \in Nat
  PROVE  RecordAt(f, k) \in Record \cup {None}
<1>1. CASE k + 2 <= Len(f)
  <2>1. k + 1 \in 1..Len(f)
    BY <1>1
  <2>2. f[k + 1] \in Unit
    BY <2>1
  <2> QED BY <2>2, UnitTypes DEF RecordAt
<1>2. CASE ~(k + 2 <= Len(f))
  BY <1>2 DEF RecordAt, Size
<1> QED BY <1>1, <1>2

LEMMA LeastPlace ==
  ASSUME NEW T \in SUBSET Nat, T # {}
  PROVE  \E k \in T : \A j \in T : k <= j
<1> DEFINE Less == OpToRel(<, Nat)
<1>1. IsWellFoundedOn(Less, Nat)
  BY NatLessThanWellFounded
<1>2. \A j, k \in Nat : j < k => <<j, k>> \in Less
  BY DEF OpToRel
<1> HIDE DEF Less
<1>3. PICK k \in T : \A j \in T : ~ (<<j, k>> \in Less)
  BY <1>1, WFMin
<1>4. \A j \in T : j \in Nat /\ ~(j < k)
  BY <1>2, <1>3
<1> QED BY <1>3, <1>4

\* What a search changes of what a process remembers.
Moved(r, s) ==
  /\ s \in Memory
  /\ s.fd = r.fd /\ s.pc = r.pc /\ s.data = r.data /\ s.found = r.found /\ s.since = r.since

\* A search from the start of the file ends behind a record it wants, or at
\* the end if there is none.
LEMMA SearchMoves ==
  ASSUME Sound(file), NEW r \in Memory, NEW wanted \in SUBSET Starts
  PROVE  LET s == SearchFor(r, wanted)
         IN /\ Moved(r, s)
            /\ r.kpos = 0 /\ r.offset = 0 =>
                 \/ s.offset = -1 /\ wanted \cap Slots = {}
                 \/ /\ s.offset > 0 /\ s.offset - Size \in wanted \cap Slots
                    /\ s.last = At(s.offset - Size)
<1> DEFINE s == SearchFor(r, wanted)
<1> DEFINE hits == {k \in wanted : k >= r.kpos /\ (k - r.kpos) % Size = 0}
<1> DEFINE hit == CHOOSE k \in hits : \A j \in hits : k <= j
<1> DEFINE rest == Len(file) - r.kpos
<1> DEFINE read == IF rest < Size THEN r.last ELSE At(Len(file) - Size - (rest % Size))
<1>1. file \in Seq(Unit) /\ Len(file) \in Nat
  BY DEF Sound
<1>2. r.kpos \in Nat /\ r.offset \in Int /\ r.last \in Record \cup {None}
  BY DEF Memory
<1>3. s = IF hits # {}
            THEN [r EXCEPT !.kpos = hit + Size, !.offset = @ + hit + Size - r.kpos, !.last = At(hit)]
            ELSE [r EXCEPT !.kpos = IF rest > 0 THEN Len(file) ELSE @, !.offset = -1, !.last = read]
  BY DEF SearchFor
<1>4. wanted \subseteq 0..(Len(file) - 2) /\ Slots = {k \in 0..(Len(file) - 2) : k % 2 = 0}
  BY DEF Starts, Slots, SlotsOf, Size
<1>5. hits \in SUBSET Nat /\ (r.kpos = 0 => hits = wanted \cap Slots)
  <2>1. \A k \in wanted : k \in Nat /\ k - 0 = k
    BY <1>1, <1>4
  <2>2. hits \in SUBSET Nat
    BY <2>1
  <2>3. r.kpos = 0 => hits = wanted \cap Slots
    <3> SUFFICES ASSUME r.kpos = 0 PROVE hits = wanted \cap Slots
      OBVIOUS
    <3>1. \A k \in wanted : k >= r.kpos /\ (k - r.kpos) % Size = k % 2
      BY <2>1 DEF Size
    <3> QED BY <1>4, <3>1
  <2> QED BY <2>2, <2>3
<1>6. CASE hits # {}
  <2>1. \E k \in hits : \A j \in hits : k <= j
    <3> HIDE DEF hits
    <3> QED BY <1>5, <1>6, LeastPlace
  <2>2. hit \in hits /\ hit \in Nat
    BY <1>5, <2>1
  <2> HIDE DEF hit, hits
  <2>3. s = [r EXCEPT !.kpos = hit + Size, !.offset = r.offset + hit + Size - r.kpos, !.last = At(hit)]
    BY <1>3, <1>6
  <2>4. At(hit) \in Record \cup {None}
    BY <1>1, <2>2, AtTypes DEF At
  <2>5. hit + Size \in Nat /\ r.offset + hit + Size - r.kpos \in Int
    BY <1>2, <2>2 DEF Size
  <2>6. /\ Moved(r, s) /\ s.offset = r.offset + hit + Size - r.kpos /\ s.last = At(hit)
    BY <2>3, <2>4, <2>5 DEF Memory, Moved
  <2>7. r.kpos = 0 /\ r.offset = 0 => s.offset = hit + Size /\ s.offset - Size = hit /\ s.offset > 0
    BY <2>2, <2>6 DEF Size
  <2> HIDE DEF s
  <2>8. r.kpos = 0 /\ r.offset = 0 =>
          s.offset > 0 /\ s.offset - Size \in wanted \cap Slots /\ s.last = At(s.offset - Size)
    BY <1>5, <2>2, <2>6, <2>7
  <2> QED BY <2>6, <2>8 DEF s
<1>7. CASE hits = {}
  <2>1. s = [r EXCEPT !.kpos = IF rest > 0 THEN Len(file) ELSE r.kpos, !.offset = -1, !.last = read]
    BY <1>3, <1>7
  <2>2. read \in Record \cup {None}
    <3>1. CASE rest < 2
      BY <1>2, <3>1 DEF Size
    <3>2. CASE ~(rest < 2)
      <4>1. Len(file) - 2 - (rest % 2) \in Nat
        BY <1>1, <1>2, <3>2
      <4> QED BY <1>1, <3>2, <4>1, AtTypes DEF At, Size
    <3> QED BY <3>1, <3>2
  <2> DEFINE next == IF rest > 0 THEN Len(file) ELSE r.kpos
  <2>3. next \in Nat
    BY <1>1, <1>2
  <2> DEFINE end == -1
  <2>4. s = [r EXCEPT !.kpos = next, !.offset = end, !.last = read] /\ end \in Int
    BY <2>1
  <2> HIDE DEF read, hits, next, s, end
  <2>5. s \in Memory /\ s.offset = end
    BY <2>2, <2>3, <2>4 DEF Memory
  <2>6. s.fd = r.fd /\ s.pc = r.pc /\ s.data = r.data /\ s.found = r.found /\ s.since = r.since
    BY <2>4 DEF Memory
  <2> QED BY <1>5, <1>7, <2>5, <2>6 DEF s, Moved, end
<1> QED BY <1>6, <1>7

\* In a sound file a record matches what is written for its line.
LEMMA MatchesLine ==
  ASSUME Sound(file), NEW k \in Slots, NEW d, d.type = "boot" <=> d.line = Boot
  PROVE  Matches(At(k), d) <=> At(k).line = d.line
<1>1. At(k) \in Record /\ (At(k).type = "boot" <=> At(k).line = Boot)
  BY DEF Sound, Slots, At
<1>2. At(k) # None
  BY <1>1, UtmpAssumption
<1> QED BY <1>1, <1>2 DEF Matches

LEMMA EntryTypes ==
  ASSUME NEW p \in Proc, NEW d \in Entry(p)
  PROVE  d \in Record /\ d.line \in Owns[p] /\ d.by = p /\ (d.type = "boot" <=> d.line = Boot)
<1>1. Owns[p] \subseteq Line \cup {Boot}
  BY UtmpAssumption
<1> QED BY <1>1 DEF Entry, Record, Type

-----------------------------------------------------------------------------
(* What a step of one process leaves of the rest.                          *)

\* A step that does not touch the file.
LEMMA QuietStep ==
  ASSUME NEW a, FileSound(a), NEW p \in Proc, NEW r \in Memory, u' = [u EXCEPT ![p] = r],
         Stands(p, r), UNCHANGED <<file, put>>
  PROVE  FileSound(a)'
<1>1. u' \in [Proc -> Memory]
  BY DEF FileSound
<1>2. ASSUME NEW q \in Proc PROVE Stands(q, u'[q])
  <2>1. u \in [Proc -> Memory] /\ Stands(q, u[q])
    BY DEF FileSound
  <2>2. u'[q] = IF q = p THEN r ELSE u[q]
    BY <2>1
  <2> QED BY <2>1, <2>2
<1>3. ASSUME NEW q \in Proc PROVE Stands(q, u[q])'
  BY <1>2 DEF Stands, Idle, Putting, Holds, Recorded, Slots, At
<1>4. EntryKept'
  BY DEF FileSound, EntryKept, Slots, At
<1> QED BY <1>1, <1>3, <1>4 DEF FileSound

\* The records keep their places and lines, and the file its length, or only the
\* one process that adds to it could tell.
LinesStay(p, a) ==
  /\ \A k \in Slots : k \in Slots' /\ At(k)'.line = At(k).line
  /\ (Slots' = Slots /\ Len(file') = Len(file)) \/ p = a

LEMMA RecordedStays ==
  ASSUME NEW p, NEW a, LinesStay(p, a), NEW l, Recorded(file, l)
  PROVE  Recorded(file, l)'
  BY DEF LinesStay, Recorded, Slots, At

LEMMA OthersStand ==
  ASSUME NEW a, FileSound(a), NEW p \in Proc, LinesStay(p, a), NEW q \in Proc \ {p}, u'[q] = u[q]
  PROVE  Stands(q, u[q])'
<1> DEFINE r == u[q]
<1>1. Stands(q, r) /\ (q # a => \A l \in Owns[q] : Recorded(file, l))
  BY DEF FileSound
<1>2. ASSUME NEW k, NEW l, Holds(k, l) PROVE Holds(k, l)'
  BY <1>2 DEF Holds, LinesStay
<1>3. ASSUME Slots' = Slots, NEW l, Recorded(file, l)' PROVE Recorded(file, l)
  BY <1>3 DEF LinesStay, Recorded, Slots, At
<1>4. CASE r.pc = "idle"
  <2>1. Idle(q, r)
    BY <1>1, <1>4 DEF Stands
  <2>2. Idle(q, u[q])'
    BY <1>2, <2>1 DEF Idle
  <2> QED BY <1>4, <2>2 DEF Stands
<1>5. CASE r.pc = "unlock"
  BY <1>1, <1>5 DEF Stands
<1>6. CASE r.pc \notin {"idle", "unlock"}
  <2>1. Putting(q, r) /\ r.since = "mixed"
    BY <1>1, <1>6 DEF Stands
  <2>2. r.data \in Entry(q) /\ r.data.line \in Owns[q]
    BY <2>1, EntryTypes DEF Putting
  <2>3. CASE q # a
    <3>1. Recorded(file, r.data.line)
      BY <1>1, <2>2, <2>3
    <3>2. Putting(q, u[q])'
      BY <1>2, <2>1, <3>1 DEF Putting
    <3> QED BY <1>6, <2>1, <3>2 DEF Stands
  <2>4. CASE q = a
    <3>1. Slots' = Slots /\ Len(file') = Len(file)
      BY <2>4 DEF LinesStay
    <3>2. Putting(q, u[q])'
      BY <1>2, <1>3, <2>1, <3>1 DEF Putting
    <3> QED BY <1>6, <2>1, <3>2 DEF Stands
  <2> QED BY <2>3, <2>4
<1> QED BY <1>4, <1>5, <1>6

\* A step that changes the file.
LEMMA FileStep ==
  ASSUME NEW a, FileSound(a), NEW p \in Proc, NEW r \in Memory, u' = [u EXCEPT ![p] = r],
         Sound(file'), LinesStay(p, a), Stands(p, u[p])',
         put' \in [Line \cup {Boot} -> Record \cup {None}],
         \A l \in Line \cup {Boot} : put'[l] # None => put'[l].line = l,
         EntryKept'
  PROVE  FileSound(a)'
<1>1. u \in [Proc -> Memory] /\ u' \in [Proc -> Memory] /\ \A q \in Proc \ {p} : u'[q] = u[q]
  BY DEF FileSound
<1>2. \A q \in Proc : Stands(q, u[q])'
  BY <1>1, OthersStand
<1>3. \A q \in Proc \ {a} : \A l \in Owns[q] : Recorded(file, l)'
  BY RecordedStays DEF FileSound
<1> QED BY <1>1, <1>2, <1>3 DEF FileSound

\* The records are those there were.
LEMMA EntryStays ==
  ASSUME EntryKept, UNCHANGED put, Slots' = Slots, \A k \in Slots : At(k)' = At(k)
  PROVE  EntryKept'
  BY DEF EntryKept

-----------------------------------------------------------------------------
(* The calls that only read.                                               *)

LEMMA FreshTypes ==
  /\ Closed \in Memory /\ Rewound \in Memory /\ Closed.pc = "idle" /\ Rewound.pc = "idle"
  /\ \A p \in Proc : Idle(p, Closed) /\ Idle(p, Rewound)
<1>1. Closed \in Memory /\ Rewound \in Memory /\ Closed.pc = "idle" /\ Rewound.pc = "idle"
  <2>1. Closed \in Memory /\ Closed.pc = "idle"
    BY DEF Closed, Memory
  <2>2. Rewound \in Memory /\ Rewound.pc = Closed.pc
    BY <2>1 DEF Rewound, Memory
  <2> QED BY <2>1, <2>2
<1>2. /\ Closed.since = None /\ Closed.kpos = 0 /\ Closed.offset = 0
      /\ Rewound.since = None /\ Rewound.kpos = 0 /\ Rewound.offset = 0
  BY DEF Closed, Rewound
<1> QED BY <1>1, <1>2 DEF Idle

\* What a process knows that has the file open.
LEMMA ReadyFacts ==
  ASSUME NEW a, FileSound(a), NEW p \in Proc, Ready(p).pc = "idle"
  PROVE  Ready(p) \in Memory /\ Idle(p, Ready(p))
<1>1. u[p] \in Memory /\ Stands(p, u[p])
  BY DEF FileSound
<1> QED BY <1>1, FreshTypes DEF Ready, Stands

\* After more than a search for its line, a process may not write.
LEMMA MixedStands ==
  ASSUME NEW p \in Proc, NEW r, r.since = "mixed", r.pc = "idle"
  PROVE  Stands(p, r)
<1>1. "mixed" # None /\ "mixed" \notin Owns[p]
  BY UtmpAssumption
<1> QED BY <1>1 DEF Stands, Idle

\* A search leaves the process where its record for l is, or unable to write.
LEMMA SearchStands ==
  ASSUME NEW a, FileSound(a), NEW p \in Proc, Ready(p).pc = "idle", NEW l \in Line \cup {Boot},
         NEW wanted \in SUBSET Starts, \A k \in wanted \cap Slots : At(k).line = l,
         u' = [u EXCEPT ![p] = [SearchFor(Ready(p), wanted) EXCEPT !.since = Noted(Ready(p), l)]],
         UNCHANGED <<file, put>>
  PROVE  FileSound(a)'
<1> DEFINE r == Ready(p)
<1> DEFINE s == SearchFor(r, wanted)
<1> DEFINE t == [s EXCEPT !.since = Noted(r, l)]
<1>1. Sound(file) /\ r \in Memory /\ Idle(p, r) /\ r.pc = "idle"
  BY ReadyFacts DEF FileSound
<1>2. /\ s \in Memory /\ s.pc = "idle"
      /\ r.kpos = 0 /\ r.offset = 0 =>
           \/ s.offset = -1
           \/ s.offset > 0 /\ s.offset - Size \in wanted \cap Slots /\ s.last = At(s.offset - Size)
  BY <1>1, SearchMoves DEF Moved
<1> HIDE DEF r, s
<1>3. Noted(r, l) \in Line \cup {Boot, None, "mixed"}
  BY DEF Noted
<1>4. /\ t \in Memory /\ t.since = Noted(r, l) /\ t.pc = "idle" /\ t.offset = s.offset
      /\ t.last = s.last
  BY <1>2, <1>3 DEF Memory
<1>5. u' = [u EXCEPT ![p] = t]
  BY DEF r, s
<1> HIDE DEF t
<1>6. Stands(p, t)
  <2>1. CASE r.since # None
    BY <1>4, <2>1, MixedStands DEF Noted
  <2>2. CASE r.since = None
    <3>1. t.since = l /\ l # None
      BY <1>4, <2>2, UtmpAssumption DEF Noted
    <3>2. r.kpos = 0 /\ r.offset = 0
      BY <1>1, <2>2 DEF Idle, r
    <3>3. CASE s.offset = -1
      <4>1. ~(t.offset > 0)
        BY <1>4, <3>3
      <4> QED BY <1>4, <3>1, <4>1 DEF Stands, Idle
    <3>4. CASE s.offset > 0 /\ s.offset - Size \in wanted \cap Slots /\ s.last = At(s.offset - Size)
      <4>1. Holds(t.offset - Size, l) /\ t.last = At(t.offset - Size) /\ t.offset - Size \in Slots
        BY <1>4, <3>4 DEF Holds
      <4>2. t.last \in Record /\ (t.last.type = "boot" <=> t.last.line = Boot) /\ t.last.line = l
        BY <1>1, <4>1 DEF Sound, Slots, At, Holds
      <4>3. t.last # None
        BY <4>2, UtmpAssumption
      <4> QED BY <1>4, <3>1, <4>1, <4>2, <4>3 DEF Stands, Idle
    <3> QED BY <1>2, <3>2, <3>3, <3>4
  <2> QED BY <2>1, <2>2
<1> QED BY <1>4, <1>5, <1>6, QuietStep

LEMMA ReadsKeep ==
  ASSUME NEW a, FileSound(a), NEW p \in Proc,
         \/ SetUtEnt(p) \/ GetUtEnt(p) \/ EndUtEnt(p) \/ Die(p)
         \/ \E l \in Line \cup {Boot} : GetUtId(p, l)
         \/ \E l \in Line : GetUtLine(p, l)
  PROVE  FileSound(a)'
<1>1. CASE SetUtEnt(p)
  BY <1>1, FreshTypes, QuietStep DEF SetUtEnt, Becomes, Stands
<1>2. CASE EndUtEnt(p) \/ Die(p)
  BY <1>2, FreshTypes, QuietStep DEF EndUtEnt, Die, Becomes, Stands
<1>3. CASE GetUtEnt(p)
  <2> DEFINE r == Ready(p)
  <2> DEFINE e == At(r.kpos)
  <2> DEFINE s == [r EXCEPT !.kpos = @ + Size, !.offset = @ + Size, !.last = e, !.since = "mixed"]
  <2> DEFINE end == IF r.kpos < Len(file) THEN Len(file) ELSE r.kpos
  <2> DEFINE t == [r EXCEPT !.kpos = end, !.offset = -1, !.since = "mixed"]
  <2>1. r \in Memory /\ r.pc = "idle" /\ UNCHANGED <<file, put>>
    BY <1>3, ReadyFacts DEF GetUtEnt
  <2>2. u' = [u EXCEPT ![p] = s] \/ u' = [u EXCEPT ![p] = t]
    BY <1>3 DEF GetUtEnt, Becomes
  <2>3. file \in Seq(Unit) /\ Len(file) \in Nat
    BY DEF FileSound, Sound
  <2>4. e \in Record \cup {None}
    BY <2>1, <2>3, AtTypes DEF At, Memory
  <2> HIDE DEF r, e
  <2>5. s \in Memory /\ s.since = "mixed" /\ s.pc = "idle"
    <3> DEFINE k == r.kpos + Size
    <3> DEFINE o == r.offset + Size
    <3>1. k \in Nat /\ o \in Int
      BY <2>1 DEF Memory, Size
    <3>2. s = [r EXCEPT !.kpos = k, !.offset = o, !.last = e, !.since = "mixed"]
      BY <2>1
    <3> HIDE DEF k, o, s
    <3> QED BY <2>1, <2>4, <3>1, <3>2 DEF Memory
  <2>6. t \in Memory /\ t.since = "mixed" /\ t.pc = "idle"
    <3> DEFINE o == -1
    <3>1. o \in Int /\ end \in Nat
      BY <2>1, <2>3 DEF Memory
    <3>2. t = [r EXCEPT !.kpos = end, !.offset = o, !.since = "mixed"]
      BY <2>1
    <3> HIDE DEF o, t, end
    <3> QED BY <2>1, <3>1, <3>2 DEF Memory
  <2> HIDE DEF s, t
  <2>7. Stands(p, s) /\ Stands(p, t)
    BY <2>5, <2>6, MixedStands
  <2> QED BY <2>1, <2>2, <2>5, <2>6, <2>7, QuietStep
<1>4. ASSUME NEW l \in Line \cup {Boot}, GetUtId(p, l) PROVE FileSound(a)'
  <2> DEFINE wanted == {k \in Starts : Matches(At(k), Key(l))}
  <2>1. /\ Ready(p).pc = "idle" /\ UNCHANGED <<file, put>>
        /\ u' = [u EXCEPT ![p] = [SearchFor(Ready(p), wanted) EXCEPT !.since = Noted(Ready(p), l)]]
    BY <1>4 DEF GetUtId, Becomes
  <2>2. Key(l).line = l /\ (Key(l).type = "boot" <=> Key(l).line = Boot)
    BY DEF Key
  <2>3. \A k \in wanted \cap Slots : At(k).line = l
    BY <2>2, MatchesLine DEF FileSound
  <2>4. wanted \in SUBSET Starts
    OBVIOUS
  <2> HIDE DEF wanted
  <2> QED BY <2>1, <2>3, <2>4, SearchStands
<1>5. ASSUME NEW l \in Line, GetUtLine(p, l) PROVE FileSound(a)'
  <2> DEFINE wanted == {k \in Starts : At(k) # None /\ At(k).type = "user" /\ At(k).line = l}
  <2>1. /\ Ready(p).pc = "idle" /\ UNCHANGED <<file, put>>
        /\ u' = [u EXCEPT ![p] = [SearchFor(Ready(p), wanted) EXCEPT !.since = Noted(Ready(p), l)]]
    BY <1>5 DEF GetUtLine, Becomes
  <2>2. (\A k \in wanted \cap Slots : At(k).line = l) /\ wanted \in SUBSET Starts
    OBVIOUS
  <2> HIDE DEF wanted
  <2> QED BY <2>1, <2>2, SearchStands
<1> QED BY <1>1, <1>2, <1>3, <1>4, <1>5

-----------------------------------------------------------------------------
(* pututline, step by step.                                                *)

LEMMA PutUtLineKeeps ==
  ASSUME Careful, NEW a, FileSound(a), NEW p \in Proc, NEW d \in Entry(p), PutUtLine(p, d)
  PROVE  FileSound(a)'
<1> DEFINE r == Ready(p)
<1> DEFINE held == r.offset > 0 /\ Matches(r.last, d)
<1> DEFINE next == IF held THEN "lock" ELSE "search"
<1> DEFINE t == [r EXCEPT !.data = d, !.found = held, !.since = "mixed", !.pc = next]
<1>1. /\ r.pc = "idle" /\ UNCHANGED <<file, put>> /\ u' = [u EXCEPT ![p] = t]
      /\ r.since = None \/ (r.since = d.line /\ r.offset > 0)
  BY DEF PutUtLine, Becomes
<1>2. r \in Memory /\ Idle(p, r)
  BY <1>1, ReadyFacts
<1>3. d \in Record /\ d.line \in Owns[p] /\ (d.type = "boot" <=> d.line = Boot)
  BY EntryTypes
<1>4. /\ ~held => r.kpos = 0 /\ r.offset = 0
      /\ held => Holds(r.offset - Size, d.line)
  <2>1. CASE r.since = None
    <3>1. r.kpos = 0 /\ r.offset = 0
      BY <1>2, <2>1 DEF Idle
    <3> QED BY <3>1
  <2>2. CASE r.since = d.line /\ r.offset > 0
    <3>1. /\ Holds(r.offset - Size, d.line)
          /\ r.last # None /\ r.last.line = d.line /\ (r.last.type = "boot" <=> d.line = Boot)
      BY <1>2, <1>3, <2>2 DEF Idle
    <3>2. Matches(r.last, d)
      BY <1>3, <3>1 DEF Matches
    <3> QED BY <2>2, <3>1, <3>2
  <2> QED BY <1>1, <2>1, <2>2
<1>5. held \in BOOLEAN /\ next \in {"lock", "search"} /\ (held <=> next = "lock")
  BY DEF Matches
<1> HIDE DEF r, held, next
<1>6. /\ t \in Memory /\ t.data = d /\ t.found = held /\ t.pc = next /\ t.since = "mixed"
      /\ t.kpos = r.kpos /\ t.offset = r.offset
  BY <1>2, <1>3, <1>5 DEF Memory
<1> HIDE DEF t
<1>7. Putting(p, t)
  BY <1>4, <1>5, <1>6 DEF Putting
<1>8. Stands(p, t)
  BY <1>5, <1>6, <1>7 DEF Stands
<1> QED BY <1>1, <1>6, <1>8, QuietStep DEF t

\* What holds before each of the steps.
LEMMA PuttingFacts ==
  ASSUME NEW a, FileSound(a), NEW p \in Proc, u[p].pc \notin {"idle", "unlock"}
  PROVE  /\ u[p] \in Memory /\ u[p].since = "mixed" /\ Sound(file) /\ Putting(p, u[p])
         /\ u[p].data \in Record /\ u[p].data.line \in Owns[p]
         /\ (u[p].data.type = "boot" <=> u[p].data.line = Boot)
         /\ ~Recorded(file, u[p].data.line) => p = a
<1>1. u[p] \in Memory /\ Sound(file) /\ Stands(p, u[p])
  BY DEF FileSound
<1>2. u[p].since = "mixed" /\ Putting(p, u[p])
  BY <1>1 DEF Stands
<1>3. /\ u[p].data \in Record /\ u[p].data.line \in Owns[p]
      /\ (u[p].data.type = "boot" <=> u[p].data.line = Boot)
  BY <1>2, EntryTypes DEF Putting
<1>4. ~Recorded(file, u[p].data.line) => p = a
  BY <1>3 DEF FileSound
<1> QED BY <1>1, <1>2, <1>3, <1>4

LEMMA SearchKeeps ==
  ASSUME NEW a, FileSound(a), NEW p \in Proc, Search(p)
  PROVE  FileSound(a)'
<1> DEFINE r == u[p]
<1> DEFINE d == r.data
<1> DEFINE wanted == {k \in Starts : Matches(At(k), d)}
<1> DEFINE s == SearchFor(r, wanted)
<1> DEFINE hit == s.offset # -1
<1> DEFINE t == [s EXCEPT !.last = r.last, !.found = hit, !.pc = "lock"]
<1>1. r.pc = "search" /\ UNCHANGED <<file, put>> /\ u' = [u EXCEPT ![p] = t]
  BY DEF Search, Becomes
<1>2. /\ r \in Memory /\ Sound(file) /\ Putting(p, r) /\ r.kpos = 0 /\ r.offset = 0
      /\ d \in Entry(p) /\ (d.type = "boot" <=> d.line = Boot) /\ r.since = "mixed"
  BY <1>1, PuttingFacts DEF Putting
<1>3. wanted \in SUBSET Starts
  OBVIOUS
<1>4. Slots \subseteq Starts
  BY DEF Slots, SlotsOf, Starts
<1>5. \A k \in Slots : k \in wanted <=> At(k).line = d.line
  BY <1>2, <1>4, MatchesLine
<1> HIDE DEF wanted, d
<1>6. /\ s \in Memory /\ s.data = d /\ s.since = "mixed"
      /\ \/ s.offset = -1 /\ wanted \cap Slots = {}
         \/ s.offset > 0 /\ s.offset - Size \in wanted \cap Slots
  BY <1>2, <1>3, SearchMoves DEF Moved, d
<1>7. hit \in BOOLEAN /\ r.last \in Record \cup {None}
  BY <1>2 DEF Memory
<1>8. /\ hit => Holds(s.offset - Size, d.line)
      /\ ~hit => ~Recorded(file, d.line)
  <2>1. s.offset \in Int /\ ~(-1 > 0)
    BY <1>6 DEF Memory
  <2>2. CASE s.offset = -1 /\ wanted \cap Slots = {}
    BY <1>5, <2>2 DEF Recorded, Slots, At
  <2>3. CASE s.offset > 0 /\ s.offset - Size \in wanted \cap Slots
    BY <1>5, <2>1, <2>3 DEF Holds
  <2> QED BY <1>6, <2>2, <2>3
<1> HIDE DEF s, r, hit
<1>9. t \in Memory /\ t.pc = "lock" /\ t.found = hit /\ t.data = d /\ t.offset = s.offset
      /\ t.since = "mixed"
  BY <1>6, <1>7 DEF Memory
<1> HIDE DEF t
<1>10. Putting(p, t)
  BY <1>2, <1>7, <1>8, <1>9 DEF Putting
<1>11. Stands(p, t)
  BY <1>9, <1>10 DEF Stands
<1> QED BY <1>1, <1>9, <1>11, QuietStep DEF t, s, r, wanted, d, hit

LEMMA LockKeeps ==
  ASSUME NEW a, FileSound(a), NEW p \in Proc, Lock(p)
  PROVE  FileSound(a)'
<1> DEFINE r == u[p]
<1> DEFINE t == [r EXCEPT !.pc = "place"]
<1>1. r.pc = "lock" /\ UNCHANGED <<file, put>> /\ u' = [u EXCEPT ![p] = t]
  BY DEF Lock, Becomes
<1>2. r \in Memory /\ Putting(p, r) /\ r.since = "mixed"
  BY <1>1, PuttingFacts
<1> HIDE DEF r
<1>3. /\ t \in Memory /\ t.since = "mixed" /\ t.pc = "place" /\ t.data = r.data /\ t.found = r.found
      /\ t.offset = r.offset /\ t.kpos = r.kpos
  BY <1>2 DEF Memory
<1> HIDE DEF t
<1>4. Putting(p, t)
  BY <1>1, <1>2, <1>3 DEF Putting
<1>5. Stands(p, t)
  BY <1>3, <1>4 DEF Stands
<1> QED BY <1>1, <1>3, <1>5, QuietStep DEF t, r

LEMMA UnlockKeeps ==
  ASSUME NEW a, FileSound(a), NEW p \in Proc, Unlock(p)
  PROVE  FileSound(a)'
<1> DEFINE r == u[p]
<1> DEFINE t == [r EXCEPT !.pc = "idle", !.data = None, !.found = FALSE]
<1>1. r.pc = "unlock" /\ UNCHANGED <<file, put>> /\ u' = [u EXCEPT ![p] = t]
  BY DEF Unlock, Becomes
<1>2. r \in Memory /\ r.since = "mixed"
  BY <1>1 DEF FileSound, Stands
<1> HIDE DEF r
<1>3. t \in Memory /\ t.pc = "idle" /\ t.since = "mixed"
  BY <1>2 DEF Memory
<1> HIDE DEF t
<1>4. Stands(p, t)
  BY <1>3, MixedStands
<1> QED BY <1>1, <1>3, <1>4, QuietStep DEF t, r

\* To the record that was found, or to the end.
LEMMA PlaceKeeps ==
  ASSUME NEW a, FileSound(a), NEW p \in Proc, Place(p)
  PROVE  FileSound(a)'
<1> DEFINE r == u[p]
<1> DEFINE at == IF r.found THEN r.offset - Size ELSE Len(file)
<1> DEFINE torn == ~r.found /\ at % Size # 0
<1> DEFINE o == IF torn THEN at - (at % Size) ELSE at
<1> DEFINE k == IF at < 0 THEN r.kpos ELSE at
<1> DEFINE next == IF torn THEN "trim" ELSE "write"
<1> DEFINE t == [r EXCEPT !.offset = o, !.kpos = k, !.pc = next]
<1>1. /\ r \in Memory /\ r.pc = "place" /\ UNCHANGED <<file, put>>
      /\ Putting(p, r) /\ r.since = "mixed" /\ Sound(file)
  BY PuttingFacts DEF Place
<1>2. u' = [u EXCEPT ![p] = t]
  BY <1>1 DEF Place, Becomes
<1>3. file \in Seq(Unit) /\ Len(file) \in Nat
  BY <1>1 DEF Sound
<1>4. r.found => Holds(at, r.data.line) /\ at \in Nat
  <2> SUFFICES ASSUME r.found PROVE Holds(at, r.data.line) /\ at \in Nat
    OBVIOUS
  <2>1. Holds(at, r.data.line)
    BY <1>1 DEF Putting
  <2> QED BY <1>3, <2>1, SlotFacts DEF Holds, Slots
<1>5. ~r.found => at = Len(file) /\ ~Recorded(file, r.data.line)
  BY <1>1 DEF Putting
<1>6. at \in Nat
  BY <1>3, <1>4, <1>5
<1>7. /\ k = at /\ torn \in BOOLEAN /\ o \in Nat
      /\ ~torn => o = at /\ next = "write" /\ (~r.found => at % 2 = 0)
      /\ torn => o % 2 = 0 /\ at \in o..(o + 1) /\ next = "trim" /\ ~r.found
  <2> HIDE DEF at
  <2> QED BY <1>6 DEF Size
<1> HIDE DEF r, at, torn, o, k, next
<1>8. /\ t \in Memory /\ t.offset = o /\ t.kpos = k /\ t.pc = next /\ t.found = r.found
      /\ t.data = r.data /\ t.since = "mixed"
  <2>1. next \in {"trim", "write"} /\ k \in Nat /\ o \in Int
    BY <1>6, <1>7
  <2> QED BY <1>1, <2>1 DEF Memory
<1> HIDE DEF t
<1>9. Putting(p, t)
  <2>1. CASE torn
    BY <1>1, <1>5, <1>7, <1>8, <2>1 DEF Putting, Size
  <2>2. CASE ~torn
    BY <1>1, <1>4, <1>5, <1>7, <1>8, <2>2 DEF Putting, Size
  <2> QED BY <2>1, <2>2
<1>10. Stands(p, t)
  <2>1. t.pc # "idle"
    BY <1>7, <1>8
  <2> QED BY <1>8, <1>9, <2>1 DEF Stands
<1> QED BY <1>1, <1>2, <1>8, <1>10, QuietStep DEF r

\* The half record at the end goes, before a write and after one that failed.
LEMMA CutKeeps ==
  ASSUME NEW a, FileSound(a), NEW p \in Proc, Trim(p) \/ Undo(p)
  PROVE  FileSound(a)'
<1> DEFINE r == u[p]
<1> DEFINE n == r.offset
<1>1. /\ r.pc \in {"trim", "undo"} /\ file' = Truncated(n) /\ UNCHANGED put
  BY DEF Trim, Undo
<1>2. /\ r \in Memory /\ Putting(p, r) /\ r.since = "mixed" /\ Sound(file)
      /\ ~Recorded(file, r.data.line) => p = a
  BY <1>1, PuttingFacts
<1>3. /\ n % Size = 0 /\ n \in Nat /\ Len(file) \in n..(n + 1)
      /\ ~Recorded(file, r.data.line) /\ p = a /\ ~r.found /\ r.data \in Entry(p)
  BY <1>1, <1>2 DEF Putting
<1>4. /\ Sound(file') /\ Len(file') = n /\ Slots' = Slots /\ \A k \in Slots : At(k)' = At(k)
  BY <1>1, <1>2, <1>3, TruncatedKeeps DEF Slots, At
<1>5. LinesStay(p, a)
  BY <1>3, <1>4 DEF LinesStay
<1>6. EntryKept'
  BY <1>1, <1>4, EntryStays DEF FileSound
<1>7. ~Recorded(file', r.data.line)
  BY <1>3, <1>4 DEF Recorded, Slots, At
<1>8. /\ put' \in [Line \cup {Boot} -> Record \cup {None}]
      /\ \A l \in Line \cup {Boot} : put'[l] # None => put'[l].line = l
  BY <1>1 DEF FileSound
<1>9. \E t \in Memory : u' = [u EXCEPT ![p] = t] /\ Stands(p, u[p])'
  <2>1. u \in [Proc -> Memory]
    BY DEF FileSound
  <2>2. CASE Trim(p)
    <3> DEFINE t == [r EXCEPT !.kpos = Len(file'), !.pc = "write"]
    <3>1. u' = [u EXCEPT ![p] = t]
      BY <2>2 DEF Trim, Becomes
    <3>2. u'[p] = t
      BY <2>1, <3>1
    <3>3. /\ t \in Memory /\ t.kpos = n /\ t.pc = "write" /\ t.offset = n /\ t.found = r.found
          /\ t.data = r.data /\ t.since = "mixed"
      <4> HIDE DEF r
      <4> QED BY <1>2, <1>3, <1>4 DEF Memory
    <3> HIDE DEF t
    <3>4. Putting(p, u[p])'
      <4> HIDE DEF n, r
      <4> QED BY <1>3, <1>4, <1>7, <3>2, <3>3 DEF Putting
    <3>5. Stands(p, u[p])'
      BY <3>2, <3>3, <3>4 DEF Stands
    <3> QED BY <3>1, <3>3, <3>5
  <2>3. CASE Undo(p)
    <3> DEFINE t == [r EXCEPT !.pc = "unlock"]
    <3>1. u' = [u EXCEPT ![p] = t]
      BY <2>3 DEF Undo, Becomes
    <3>2. u'[p] = t
      BY <2>1, <3>1
    <3>3. t \in Memory /\ t.pc = "unlock" /\ t.since = "mixed"
      BY <1>2 DEF Memory
    <3> HIDE DEF t
    <3>4. Stands(p, u[p])'
      BY <3>2, <3>3 DEF Stands
    <3> QED BY <3>1, <3>3, <3>4
  <2> QED BY <2>2, <2>3
<1> QED BY <1>4, <1>5, <1>6, <1>8, <1>9, FileStep

\* A record written leaves the others, and replaces what was put for its line.
LEMMA EntryPut ==
  ASSUME Sound(file), NEW d \in Record, NEW k,
         put \in [Line \cup {Boot} -> Record \cup {None}],
         \A l \in Line \cup {Boot} : put[l] # None => put[l].line = l,
         EntryKept, put' = [put EXCEPT ![d.line] = d],
         k \in Slots', At(k)' = d,
         \A j \in Slots : At(j).line # d.line => j \in Slots' /\ At(j)' = At(j)
  PROVE  /\ put' \in [Line \cup {Boot} -> Record \cup {None}]
         /\ \A l \in Line \cup {Boot} : put'[l] # None => put'[l].line = l
         /\ EntryKept'
<1>1. d.line \in Line \cup {Boot}
  BY DEF Record
<1>2. \A l \in Line \cup {Boot} : put'[l] = IF l = d.line THEN d ELSE put[l]
  BY <1>1
<1>3. ASSUME NEW l \in Line \cup {Boot}, put'[l] # None PROVE \E j \in Slots' : At(j)' = put'[l]
  <2>1. CASE l = d.line
    BY <1>2, <2>1
  <2>2. CASE l # d.line
    <3>1. put'[l] = put[l] /\ put[l] # None /\ put[l].line = l
      BY <1>2, <1>3, <2>2
    <3>2. PICK j \in Slots : At(j) = put[l]
      BY <3>1 DEF EntryKept
    <3> QED BY <2>2, <3>1, <3>2
  <2> QED BY <2>1, <2>2
<1> QED BY <1>1, <1>2, <1>3 DEF EntryKept

\* A write in the place of a record is whole; one at the end may not be.
LEMMA WriteKeeps ==
  ASSUME NEW a, FileSound(a), NEW p \in Proc, Write(p)
  PROVE  FileSound(a)'
<1> DEFINE r == u[p]
<1> DEFINE d == r.data
<1> DEFINE room == IF MaxUnits < r.kpos THEN 0 ELSE MaxUnits - r.kpos
<1> DEFINE most == IF room < Size THEN room ELSE Size
<1>1. r.pc = "write"
  BY DEF Write
<1>2. /\ r \in Memory /\ Putting(p, r) /\ r.since = "mixed" /\ Sound(file)
      /\ d \in Record /\ (d.type = "boot" <=> d.line = Boot) /\ r.kpos = r.offset
      /\ ~Recorded(file, d.line) => p = a
  BY <1>1, PuttingFacts DEF Putting
<1>3. /\ u \in [Proc -> Memory] /\ put \in [Line \cup {Boot} -> Record \cup {None}]
      /\ \A l \in Line \cup {Boot} : put[l] # None => put[l].line = l
      /\ EntryKept
  BY DEF FileSound
<1>4. file \in Seq(Unit) /\ Len(file) \in Nat /\ Len(file) <= MaxUnits /\ MaxUnits \in Nat
  BY <1>2, UtmpAssumption DEF Sound
<1>5. r.kpos \in Nat /\ r.offset \in Int /\ r.found \in BOOLEAN
  BY <1>2 DEF Memory
<1>6. PICK n \in 0..most :
        /\ n < most => r.kpos + n >= Len(file)
        /\ file' = IF n = 0 THEN file ELSE Written(r.kpos, d, n)
        /\ Becomes(p, [r EXCEPT !.kpos = @ + n,
                                !.offset = IF n = Size THEN @ + Size ELSE @,
                                !.pc = IF n < Size /\ ~r.found THEN "undo" ELSE "unlock"])
        /\ put' = IF n = Size THEN [put EXCEPT ![d.line] = d] ELSE put
  BY DEF Write
<1> DEFINE k == r.kpos + n
<1> DEFINE o == IF n = Size THEN r.offset + Size ELSE r.offset
<1> DEFINE next == IF n < Size /\ ~r.found THEN "undo" ELSE "unlock"
<1> DEFINE t == [r EXCEPT !.kpos = k, !.offset = o, !.pc = next]
<1>7. room \in Nat /\ most \in Nat /\ most <= 2 /\ most <= room
      /\ (MaxUnits >= r.kpos => r.kpos + room = MaxUnits) /\ n \in Nat /\ n <= most
      /\ (room >= 2 => most = 2)
  <2>1. room \in Nat /\ (MaxUnits >= r.kpos => r.kpos + room = MaxUnits)
    BY <1>4, <1>5
  <2> HIDE DEF room
  <2>2. most \in Nat /\ most <= 2 /\ most <= room /\ (room >= 2 => most = 2)
    BY <2>1 DEF Size
  <2> HIDE DEF most
  <2> QED BY <2>1, <2>2
<1>8. u' = [u EXCEPT ![p] = t]
  BY <1>6 DEF Becomes
<1> HIDE DEF room, most
<1>9. /\ t \in Memory /\ t.pc = next /\ t.offset = o /\ t.found = r.found /\ t.data = d
      /\ t.since = "mixed"
  <2>1. k \in Nat /\ o \in Int /\ next \in {"undo", "unlock"}
    BY <1>5, <1>7 DEF Size
  <2> HIDE DEF k, o, next, r
  <2> QED BY <1>2, <2>1 DEF Memory
<1> HIDE DEF k, t
<1>10. u'[p] = t
  BY <1>3, <1>8
<1>11. CASE r.found
  <2>1. Holds(r.kpos, d.line) /\ r.kpos \in Slots
    BY <1>1, <1>2, <1>11 DEF Putting, Holds
  <2>2. r.kpos + 2 <= Len(file)
    BY <1>4, <2>1, SlotFacts DEF Slots
  <2>3. n = 2 /\ next = "unlock"
    BY <1>4, <1>5, <1>6, <1>7, <1>11, <2>2
  <2>4. file' = Written(r.kpos, d, Size) /\ put' = [put EXCEPT ![d.line] = d]
    BY <1>6, <2>3 DEF Size
  <2>5. /\ Sound(file') /\ SlotsOf(file') = Slots /\ RecordAt(file', r.kpos) = d
        /\ Len(file') = Len(file)
        /\ \A j \in Slots : j # r.kpos => RecordAt(file', j) = At(j)
    BY <1>2, <2>1, <2>4, ReplaceKeeps DEF Holds
  <2>6. LinesStay(p, a)
    BY <2>1, <2>5 DEF LinesStay, Slots, At, Holds
  <2>7. Stands(p, u[p])'
    BY <1>9, <1>10, <2>3 DEF Stands
  <2>8. /\ r.kpos \in SlotsOf(file')
        /\ \A j \in Slots : At(j).line # d.line => j \in SlotsOf(file') /\ RecordAt(file', j) = At(j)
    BY <2>1, <2>5 DEF Holds
  <2>9. /\ put' \in [Line \cup {Boot} -> Record \cup {None}]
        /\ \A l \in Line \cup {Boot} : put'[l] # None => put'[l].line = l
        /\ EntryKept'
    BY <1>2, <1>3, <2>4, <2>5, <2>8, EntryPut DEF Slots, At
  <2> QED BY <1>8, <1>9, <2>5, <2>6, <2>7, <2>9, FileStep
<1>12. CASE ~r.found
  <2>1. /\ ~Recorded(file, d.line) /\ p = a /\ r.offset = Len(file) /\ r.kpos = Len(file)
        /\ Len(file) % Size = 0 /\ d \in Entry(p)
    BY <1>1, <1>2, <1>12 DEF Putting
  <2>2. r.kpos + n <= MaxUnits
    BY <1>4, <1>5, <1>7, <2>1
  <2>3. CASE n = 2
    <3>1. file' = Written(Len(file), d, Size) /\ put' = [put EXCEPT ![d.line] = d] /\ next = "unlock"
      BY <1>6, <2>1, <2>3 DEF Size
    <3>2. Len(file) + Size <= MaxUnits
      BY <2>1, <2>2, <2>3 DEF Size
    <3>3. /\ Sound(file') /\ SlotsOf(file') = Slots \cup {Len(file)} /\ Len(file) \notin Slots
          /\ RecordAt(file', Len(file)) = d
          /\ \A j \in Slots : RecordAt(file', j) = At(j)
      BY <1>2, <2>1, <3>1, <3>2, AppendKeeps
    <3>4. LinesStay(p, a)
      BY <2>1, <3>3 DEF LinesStay, Slots, At
    <3>5. Stands(p, u[p])'
      BY <1>9, <1>10, <3>1 DEF Stands
    <3>6. /\ put' \in [Line \cup {Boot} -> Record \cup {None}]
          /\ \A l \in Line \cup {Boot} : put'[l] # None => put'[l].line = l
          /\ EntryKept'
      BY <1>2, <1>3, <3>1, <3>3, EntryPut DEF Slots, At
    <3> QED BY <1>8, <1>9, <3>3, <3>4, <3>5, <3>6, FileStep
  <2>4. CASE n # 2
    <3>1. n \in {0, 1} /\ n < Size /\ n # Size /\ next = "undo" /\ o = r.offset /\ put' = put
      BY <1>6, <1>7, <1>12, <2>4 DEF Size
    <3>2. /\ Sound(file') /\ Len(file') \in Len(file)..(Len(file) + 1)
          /\ SlotsOf(file') = Slots /\ \A j \in Slots : RecordAt(file', j) = At(j)
      <4>1. CASE n = 0
        BY <1>2, <1>4, <1>6, <4>1 DEF Slots, At
      <4>2. CASE n = 1
        <5>1. file' = Written(Len(file), d, 1) /\ Len(file) + 1 <= MaxUnits
          BY <1>6, <2>1, <2>2, <4>2
        <5> QED BY <1>2, <1>4, <2>1, <5>1, HalfKeeps
      <4> QED BY <3>1, <4>1, <4>2
    <3>3. LinesStay(p, a)
      BY <2>1, <3>2 DEF LinesStay, Slots, At
    <3>4. EntryKept'
      BY <1>3, <3>1, <3>2, EntryStays DEF Slots, At
    <3>5. ~Recorded(file', d.line)
      BY <2>1, <3>2 DEF Recorded, Slots, At
    <3>6. Stands(p, u[p])'
      <4>1. /\ t.pc = "undo" /\ t.offset = Len(file) /\ ~t.found /\ t.data = d
            /\ t.offset % Size = 0 /\ t.offset \in Nat /\ Len(file') \in t.offset..(t.offset + 1)
        BY <1>4, <1>9, <1>12, <2>1, <3>1, <3>2
      <4>2. Putting(p, u[p])'
        <5> HIDE DEF r, d
        <5> QED BY <1>10, <2>1, <3>5, <4>1 DEF Putting
      <4> QED BY <1>9, <1>10, <4>1, <4>2 DEF Stands
    <3> QED BY <1>3, <1>8, <1>9, <3>1, <3>2, <3>3, <3>4, <3>6, FileStep
  <2> QED BY <2>3, <2>4
<1> QED BY <1>5, <1>11, <1>12

-----------------------------------------------------------------------------
(* The theorems.                                                           *)

LEMMA StepKeeps ==
  ASSUME Careful, NEW a, FileSound(a), [Next]_vars
  PROVE  FileSound(a)'
<1>1. CASE UNCHANGED vars
  BY <1>1 DEF vars, FileSound, Stands, Idle, Putting, Holds, Recorded, Slots, At, EntryKept
<1>2. ASSUME NEW p \in Proc, Call(p) PROVE FileSound(a)'
  BY <1>2, ReadsKeep, PutUtLineKeeps DEF Call
<1>3. ASSUME NEW p \in Proc, Step(p) PROVE FileSound(a)'
  BY <1>3, SearchKeeps, LockKeeps, PlaceKeeps, CutKeeps, WriteKeeps, UnlockKeeps DEF Step
<1>4. ASSUME NEW p \in Proc, Die(p) PROVE FileSound(a)'
  BY <1>4, ReadsKeep
<1> QED BY <1>1, <1>2, <1>3, <1>4 DEF Next

\* In programs that call pututline (login/utmp_file.c) as login and logout do,
\* and of which one only adds records, no interleaving of its steps, lock that
\* is not taken, full disk or process that dies harms the file, nor what a
\* process remembers of it.
THEOREM FileIsSound ==
  ASSUME Careful, NEW CONSTANT a, OnlyNew(a)
  PROVE  Spec => []FileSound(a)
<1>1. Init => FileSound(a)
  <2> SUFFICES ASSUME Init PROVE FileSound(a)
    OBVIOUS
  <2>1. /\ file = Initial /\ u = [p \in Proc |-> Closed]
        /\ put = [l \in Line \cup {Boot} |-> None]
    BY DEF Init
  <2>2. \A p \in Proc : Stands(p, u[p])
    BY <2>1, FreshTypes DEF Stands
  <2>3. u \in [Proc -> Memory]
    BY <2>1, FreshTypes
  <2> QED BY <2>1, <2>2, <2>3 DEF FileSound, OnlyNew, EntryKept
<1>2. FileSound(a) /\ [Next]_vars => FileSound(a)'
  BY StepKeeps
<1> QED BY <1>1, <1>2, PTL DEF Spec

\* No slot of the file holds half a record.
THEOREM RecordsStayWhole ==
  ASSUME Careful, NEW CONSTANT a, OnlyNew(a)
  PROVE  Spec => []RecordsWhole
<1>1. FileSound(a) => RecordsWhole
  BY UtmpAssumption DEF FileSound, Sound, RecordsWhole, Slots, At
<1> QED BY <1>1, FileIsSound, PTL

\* A login replaces what the logout left: no line has two records.
THEOREM OneRecordPerLine ==
  ASSUME Careful, NEW CONSTANT a, OnlyNew(a)
  PROVE  Spec => []OnePerLine
<1>1. FileSound(a) => OnePerLine
  BY DEF FileSound, Sound, OnePerLine, Slots, At
<1> QED BY <1>1, FileIsSound, PTL

\* What pututline wrote for a line stays until more is written for it.
THEOREM EntriesStay ==
  ASSUME Careful, NEW CONSTANT a, OnlyNew(a)
  PROVE  Spec => []EntryKept
<1>1. FileSound(a) => EntryKept
  BY DEF FileSound
<1> QED BY <1>1, FileIsSound, PTL
=============================================================================
