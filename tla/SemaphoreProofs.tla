-------------------------- MODULE SemaphoreProofs --------------------------
(***************************************************************************)
(* Semaphore for any number of processes, any identifiers, any initial     *)
(* values and any SEM_VALUE_MAX: exclusion through the kernel semaphore    *)
(* and the cap on max_count.  NamedSemaphore for any number of processes,  *)
(* blocks and calls that do not overlap: whoever has the name open is      *)
(* counted, and no block is freed under him.                               *)
(***************************************************************************)
EXTENDS Semaphore, NamedSemaphore, FiniteSetTheorems, TLAPS

\* The invariant holds before the first sem_init.
LEMMA InitSound == Init => SemSound
BY ConstantAssumption
   DEF Init, SemSound, TypeOK, CallSound, HolderOwns, CountCapped, Forever

\* sem_init and sem_destroy keep the invariant: a fresh kernel semaphore has
\* an owner but no holder.
LEMMA LifeSound ==
    ASSUME SemSound, NEW p \in Procs,
           \/ \E v \in Values, id \in Ids : SemInit(p, v, id)
           \/ SemDestroy(p)
    PROVE  SemSound'
<1> USE ConstantAssumption DEF SemSound
<1>1. ASSUME NEW v \in Values, NEW id \in Ids, SemInit(p, v, id)
      PROVE  SemSound'
  <2> USE <1>1 DEF SemInit, timers, Quiet
  <2>1. TypeOK' BY DEF TypeOK
  <2>2. CallSound' BY DEF TypeOK, CallSound
  <2>3. HolderOwns' /\ CountCapped' BY DEF HolderOwns, CountCapped
  <2> QED BY <2>1, <2>2, <2>3
<1>2. ASSUME SemDestroy(p) PROVE SemSound'
  BY <1>2 DEF SemDestroy, timers, Quiet, TypeOK, CallSound, HolderOwns,
              CountCapped
<1> QED BY <1>1, <1>2

\* The steps of sem_wait, sem_timedwait and sem_clockwait keep the invariant.
\* The store of Take is at most the maximum because the register it comes
\* from was loaded when max_count was.
LEMMA WaitSound ==
    ASSUME SemSound, NEW p \in Procs,
           \/ CallWait(p) \/ \E d \in Deadlines : CallTimedWait(p, d)
           \/ Spin(p) \/ SpinLate(p) \/ Take(p) \/ Acquire(p)
    PROVE  SemSound'
<1> USE ConstantAssumption
    DEF SemSound, TypeOK, Goto, At, sem, timers, Forever, Waiting, CanCall,
        Available
<1>1. CASE CallWait(p)
  BY <1>1 DEF CallWait, CallSound, HolderOwns, CountCapped
<1>2. ASSUME NEW d \in Deadlines, CallTimedWait(p, d) PROVE SemSound'
  <2>1. PICK ms \in TimeoutMs(d) : left' = [left EXCEPT ![p] = 2 * ms]
    BY <1>2 DEF CallTimedWait
  <2>2. ms \in Nat BY <1>2 DEF CallTimedWait, NotPassed, TimeoutMs
  <2> QED BY <1>2, <2>1, <2>2
          DEF CallTimedWait, CallSound, HolderOwns, CountCapped
<1>3. CASE Spin(p)
  BY <1>3 DEF Spin, CallSound, HolderOwns, CountCapped
<1>4. CASE SpinLate(p)
  BY <1>4 DEF SpinLate, Return, CallSound, HolderOwns, CountCapped
<1>5. CASE Take(p)
  BY <1>5 DEF Take, CallSound, HolderOwns, CountCapped
<1>6. CASE Acquire(p)
  <2> USE <1>6 DEF Acquire, Return, Granted
  <2>1. TypeOK' BY DEF CallSound
  <2>2. CallSound' BY DEF CallSound
  <2>3. HolderOwns' BY DEF CallSound, HolderOwns
  <2> QED BY <2>1, <2>2, <2>3 DEF CountCapped
<1> QED BY <1>1, <1>2, <1>3, <1>4, <1>5, <1>6

\* The steps of sem_trywait keep the invariant: the process between the
\* acquisition and the decrement owns the kernel semaphore.
LEMMA TrySound ==
    ASSUME SemSound, NEW p \in Procs,
           CallTryWait(p) \/ TryAcquire(p) \/ TryTake(p)
    PROVE  SemSound'
<1> USE ConstantAssumption
    DEF SemSound, TypeOK, Goto, At, sem, timers, Forever, Trying, CanCall,
        Available
<1>1. CASE CallTryWait(p)
  BY <1>1 DEF CallTryWait, CallSound, HolderOwns, CountCapped
<1>2. CASE TryAcquire(p)
  <2> USE <1>2 DEF TryAcquire, Return, Granted
  <2>1. TypeOK' BY DEF CallSound
  <2>2. CallSound' BY DEF CallSound
  <2>3. HolderOwns' BY DEF CallSound, HolderOwns
  <2> QED BY <2>1, <2>2, <2>3 DEF CountCapped
<1>3. CASE TryTake(p)
  BY <1>3 DEF TryTake, Return, CallSound, HolderOwns, CountCapped
<1> QED BY <1>1, <1>2, <1>3

\* The steps of sem_post keep the invariant: only the owner, which no other
\* process can be a holder beside, releases, and the store adds one to a
\* register that was loaded below the maximum.
LEMMA PostSound ==
    ASSUME SemSound, NEW p \in Procs,
           CallPost(p) \/ PostStore(p) \/ Release(p) \/ Rollback(p)
    PROVE  SemSound'
<1> USE ConstantAssumption
    DEF SemSound, TypeOK, Goto, At, sem, timers, Forever, Posting, CanCall, Full
<1>1. CASE CallPost(p)
  BY <1>1 DEF CallPost, CallSound, HolderOwns, CountCapped
<1>2. CASE PostStore(p)
  BY <1>2 DEF PostStore, CallSound, HolderOwns, CountCapped
<1>3. CASE Release(p)
  <2> USE <1>3 DEF Release, Return
  <2>1. TypeOK' BY DEF CallSound
  <2>2. CallSound' BY DEF CallSound
  <2>3. HolderOwns' BY DEF CallSound, HolderOwns
  <2> QED BY <2>1, <2>2, <2>3 DEF CountCapped
<1>4. CASE Rollback(p)
  BY <1>4 DEF Rollback, Return, CallSound, HolderOwns, CountCapped
<1> QED BY <1>1, <1>2, <1>3, <1>4

\* Whatever the interleaving of the calls, the invariant of the semaphore
\* holds.
THEOREM SemaphoreIsSound == Spec => []SemSound
<1>1. ASSUME SemSound, [Next]_vars PROVE SemSound'
  <2>1. CASE UNCHANGED vars
    BY <1>1, <2>1 DEF vars, SemSound, TypeOK, CallSound, HolderOwns, CountCapped
  <2>2. CASE Tick
    <3> USE <1>1, <2>2, ConstantAssumption DEF Tick, SemSound, At, sem
    <3>1. TypeOK' BY DEF TypeOK, Forever
    <3>2. CallSound' BY DEF TypeOK, CallSound, Forever
    <3> QED BY <3>1, <3>2 DEF HolderOwns, CountCapped
  <2>3. ASSUME NEW p \in Procs, Call(p) \/ Step(p) PROVE SemSound'
    BY <1>1, <2>3, LifeSound, WaitSound, TrySound, PostSound DEF Call, Step
  <2> QED BY <1>1, <2>1, <2>2, <2>3 DEF Next
<1> QED BY InitSound, <1>1, PTL DEF Spec

\* The state keeps its type.
THEOREM TypeCorrect == Spec => []TypeOK
BY SemaphoreIsSound, PTL DEF SemSound

\* Any two processes past a successful wait would both own the kernel
\* semaphore: whatever the races on max_count, there is at most one.
THEOREM Exclusion == Spec => []HolderOwns
BY SemaphoreIsSound, PTL DEF SemSound

\* max_count never exceeds SEM_VALUE_MAX.
THEOREM NeverAboveMaximum == Spec => []CountCapped
BY SemaphoreIsSound, PTL DEF SemSound

\* Every call keeps to its course: whoever waits, posts or has timed out does
\* so on a semaphore that exists, with what it read still true.
THEOREM CallsSound == Spec => []CallSound
BY SemaphoreIsSound, PTL DEF SemSound

-----------------------------------------------------------------------------
(* Named semaphores.  As OpensCounted asks, one call at a time; the        *)
(* children of sem_unlink run beside it.  Processes are finitely many.     *)

Calm == MaxActive = 1 /\ IsFiniteSet(Openers)

\* Nobody else is inside a call when p enters one.
LEMMA EntersAlone ==
    ASSUME Calm, NEW p \in Openers, NEW l, Enter(p, l)
    PROVE  \A q \in Openers : Is(q, "idle")
<1> DEFINE S == {q \in Openers : ~Is(q, "idle")}
<1>1. IsFiniteSet(S) BY FS_Subset, S \in SUBSET Openers DEF Calm
<1>2. Cardinality(S) \in Nat /\ Cardinality(S) < 1
  BY <1>1, FS_CardinalityType DEF Calm, Enter
<1>3. S = {} BY <1>1, <1>2, FS_EmptySet
<1> QED BY <1>3

\* What opens and closes do to the number of processes that have a block open.
LEMMA HoldersFinite ==
    ASSUME Calm, NEW b \in Blocks
    PROVE  IsFiniteSet(Holders(b)) /\ Cardinality(Holders(b)) \in Nat
BY FS_Subset, FS_CardinalityType, Holders(b) \in SUBSET Openers DEF Calm, Holders

\* Opening adds at most one.
LEMMA OneHolderMore ==
    ASSUME Calm, NEW b \in Blocks, NEW S, NEW p, S \subseteq Holders(b) \cup {p}
    PROVE  Cardinality(S) \in Nat /\ Cardinality(S) <= Cardinality(Holders(b)) + 1
<1>1. IsFiniteSet(Holders(b) \cup {p}) /\ Cardinality(Holders(b)) \in Nat
      /\ Cardinality(Holders(b) \cup {p}) <= Cardinality(Holders(b)) + 1
  <2>1. IsFiniteSet(Holders(b)) /\ Cardinality(Holders(b)) \in Nat BY HoldersFinite
  <2>2. /\ IsFiniteSet(Holders(b) \cup {p})
        /\ Cardinality(Holders(b) \cup {p})
             = IF p \in Holders(b) THEN Cardinality(Holders(b))
               ELSE Cardinality(Holders(b)) + 1
    BY <2>1, FS_AddElement, Zenon
  <2> QED BY <2>1, <2>2
<1>2. IsFiniteSet(S) /\ Cardinality(S) <= Cardinality(Holders(b) \cup {p})
  BY <1>1, FS_Subset
<1>3. Cardinality(S) \in Nat /\ Cardinality(Holders(b) \cup {p}) \in Nat
  BY <1>1, <1>2, FS_CardinalityType
<1> QED BY <1>1, <1>2, <1>3

\* Closing adds none.
LEMMA FewerHolders ==
    ASSUME Calm, NEW b \in Blocks, NEW S, S \subseteq Holders(b)
    PROVE  Cardinality(S) \in Nat /\ Cardinality(S) <= Cardinality(Holders(b))
BY HoldersFinite, FS_Subset, FS_CardinalityType

\* The invariant holds before the first sem_open.
LEMMA InitOpens == ASSUME NInit PROVE OpensSound
<1>1. \A b \in Blocks : Holders(b) = {} BY NameAssumption DEF NInit, Holders
<1> QED BY <1>1, NameAssumption DEF NInit, OpensSound, NTypeOK, Alone, Is,
               UnusedUnknown, Fresh, CallKnows, Counted

\* sem_open keeps the invariant: the block is new, or its count is right.
LEMMA OpenSound ==
    ASSUME Calm, OpensSound, NEW p \in Openers,
           \/ CallCreate(p) \/ CreateNoMemory(p) \/ CreateAttach(p) \/ CreateFields(p)
           \/ CreateKernel(p) \/ CallOpen(p) \/ Opened(p)
    PROVE  OpensSound'
<1> USE NameAssumption DEF OpensSound, shared, Go, Is
<1>1. CASE CallCreate(p)
  <2>1. \A q \in Openers : Is(q, "idle") BY <1>1, EntersAlone DEF CallCreate
  <2> USE <1>1, <2>1 DEF CallCreate, Enter
  <2>2. NTypeOK' /\ Alone' BY DEF NTypeOK, Alone
  <2>3. UnusedUnknown' /\ CallKnows'
    BY DEF NTypeOK, UnusedUnknown, CallKnows, Fresh, Holders
  <2>4. Counted' BY DEF NTypeOK, Counted, Reopened, Holders
  <2> QED BY <2>2, <2>3, <2>4
<1>2. CASE CreateNoMemory(p)
  <2> USE <1>2 DEF CreateNoMemory
  <2>2. NTypeOK' /\ Alone' BY DEF NTypeOK, Alone
  <2>3. UnusedUnknown' /\ CallKnows'
    BY DEF NTypeOK, UnusedUnknown, CallKnows, Fresh, Holders
  <2>4. Counted' BY DEF NTypeOK, Counted, Reopened, Holders
  <2> QED BY <2>2, <2>3, <2>4
<1>3. CASE CreateAttach(p)
  <2> USE <1>3 DEF CreateAttach
  <2>1. PICK b \in Blocks, io \in Garbage :
          /\ mem[b] = "unused"
          /\ mem' = [mem EXCEPT ![b] = "live"]
          /\ io_count' = [io_count EXCEPT ![b] = io]
          /\ ptr' = [ptr EXCEPT ![p] = b]
          /\ file' = b
    OBVIOUS
  <2>2. NTypeOK' /\ Alone' BY <2>1 DEF NTypeOK, Alone
  <2>3. \A q \in Openers \ {p} : place[q] = "idle" BY DEF Alone
  <2>4. UnusedUnknown' /\ CallKnows'
    BY <2>1, <2>3 DEF NTypeOK, UnusedUnknown, CallKnows, Fresh, Holders
  <2>5. Counted' BY <2>1, <2>3 DEF NTypeOK, Counted, Reopened, Holders
  <2> QED BY <2>2, <2>4, <2>5
<1>4. CASE CreateFields(p)
  <2> USE <1>4 DEF CreateFields
  <2>1. \A q \in Openers \ {p} : place[q] = "idle" BY DEF Alone
  <2>2. NTypeOK' /\ Alone' BY DEF NTypeOK, Alone, CallKnows
  <2>3. UnusedUnknown' /\ CallKnows'
    BY <2>1 DEF NTypeOK, UnusedUnknown, CallKnows, Fresh, Holders
  <2>4. \A b \in Blocks : ~Reopened(b)' BY <2>1 DEF Reopened, NTypeOK
  <2>5. Holders(ptr[p])' = {} BY DEF CallKnows, Fresh, Holders
  <2>6. Cardinality(Holders(ptr[p])') = 0 BY <2>5, FS_EmptySet
  <2>7. ASSUME NEW b \in Blocks, mem[b] = "live"
        PROVE  io_count'[b] >= Cardinality(Holders(b)')
    <3>1. CASE b = ptr[p] BY <2>6, <2>7, <3>1 DEF NTypeOK
    <3>2. CASE b # ptr[p]
      <4>1. ~Reopened(b) BY <2>1 DEF Reopened
      <4>2. io_count[b] >= Cardinality(Holders(b)) + 0 BY <2>1, <2>7, <3>2, <4>1 DEF Counted
      <4>3. /\ io_count'[b] = io_count[b] /\ io_count[b] \in Int
            /\ Holders(b)' = Holders(b) /\ Cardinality(Holders(b)) \in Nat
        BY <3>2, HoldersFinite DEF NTypeOK, Holders
      <4> QED BY <4>2, <4>3
    <3> QED BY <3>1, <3>2
  <2>8. Counted'
    <3> SUFFICES ASSUME NEW b \in Blocks, mem[b] = "live"
                 PROVE  io_count'[b] >= Cardinality(Holders(b)') + 0
      BY <2>4 DEF Counted
    <3>1. Cardinality(Holders(b)') \in Nat
      BY HoldersFinite, Holders(b)' = Holders(b) DEF Holders
    <3> QED BY <2>7, <3>1
  <2> QED BY <2>2, <2>3, <2>8
<1>5. CASE CreateKernel(p)
  <2> USE <1>5 DEF CreateKernel, Free
  <2>1. \A q \in Openers \ {p} : place[q] = "idle" BY DEF Alone
  <2>2. ptr[p] \in Blocks BY DEF CallKnows
  <2>3. \A io \in Garbage : io \in Int OBVIOUS
  <2> USE <2>3
  <2>4. NTypeOK' /\ Alone'
    <3>1. CASE ~named BY <2>2, <3>1 DEF NTypeOK, Alone
    <3>2. CASE named BY <2>2, <3>2 DEF NTypeOK, Alone
    <3> QED BY <3>1, <3>2
  <2>5. UnusedUnknown' /\ CallKnows'
    BY <2>1, <2>2 DEF NTypeOK, UnusedUnknown, CallKnows, Fresh, Holders
  <2>6. Counted'
    BY <2>1, <2>2 DEF NTypeOK, CallKnows, Counted, Reopened, Holders
  <2> QED BY <2>4, <2>5, <2>6
<1>6. CASE CallOpen(p)
  <2>1. \A q \in Openers : Is(q, "idle") BY <1>6, EntersAlone DEF CallOpen
  <2> USE <1>6, <2>1 DEF CallOpen, Enter
  <2>2. NTypeOK' /\ Alone' BY DEF NTypeOK, Alone
  <2>3. UnusedUnknown' /\ CallKnows'
    BY DEF NTypeOK, UnusedUnknown, CallKnows, Fresh, Holders
  <2>4. Counted' BY DEF NTypeOK, Counted, Reopened, Holders
  <2> QED BY <2>2, <2>3, <2>4
<1>7. CASE Opened(p)
  <2> USE <1>7 DEF Opened, Count
  <2>1. \A q \in Openers \ {p} : place[q] = "idle" BY DEF Alone
  <2>2. ptr[p] \in Blocks /\ mem[ptr[p]] # "unused" BY DEF CallKnows
  <2>3. NTypeOK' /\ Alone' BY <2>2 DEF NTypeOK, Alone
  <2>4. UnusedUnknown' /\ CallKnows'
    BY <2>1, <2>2 DEF NTypeOK, UnusedUnknown, CallKnows, Fresh, Holders
  <2>5. ASSUME NEW b \in Blocks, mem[b] = "live"
        PROVE  io_count'[b] >= Cardinality(Holders(b)')
    <3>1. io_count[b] >= Cardinality(Holders(b)) /\ io_count[b] \in Int
          /\ Cardinality(Holders(b)) \in Nat
      <4>1. Cardinality(Holders(b)) \in Nat BY HoldersFinite
      <4>2. \A q \in Openers : ~Is(q, "fields") BY <2>1
      <4> QED BY <4>1, <4>2, <2>5 DEF Counted, NTypeOK
    <3>2. CASE b = ptr[p]
      <4>1. Holders(b)' \subseteq Holders(b) \cup {p} BY DEF Holders, NTypeOK
      <4>2. Cardinality(Holders(b)') <= Cardinality(Holders(b)) + 1
            /\ Cardinality(Holders(b)') \in Nat
        BY <4>1, OneHolderMore
      <4>3. io_count'[b] = io_count[b] + 1 BY <3>2 DEF NTypeOK
      <4> QED BY <3>1, <4>2, <4>3
    <3>3. CASE b # ptr[p]
      <4>1. Holders(b)' \subseteq Holders(b) BY <3>3 DEF Holders, NTypeOK
      <4>2. Cardinality(Holders(b)') <= Cardinality(Holders(b))
            /\ Cardinality(Holders(b)') \in Nat
        BY <4>1, FewerHolders
      <4>3. io_count'[b] = io_count[b] BY <3>3 DEF NTypeOK
      <4> QED BY <3>1, <4>2, <4>3
    <3> QED BY <3>2, <3>3
  <2>6. \A b \in Blocks : ~Reopened(b)' BY <2>1 DEF Reopened, NTypeOK
  <2>7. Counted'
    <3> SUFFICES ASSUME NEW b \in Blocks, mem[b] = "live"
                 PROVE  io_count'[b] >= Cardinality(Holders(b)') + 0
      BY <2>6 DEF Counted
    <3>1. Holders(b)' \subseteq Holders(b) \cup {p} BY DEF Holders, NTypeOK
    <3>2. Cardinality(Holders(b)') \in Nat BY <3>1, OneHolderMore
    <3> QED BY <2>5, <3>2
  <2> QED BY <2>3, <2>4, <2>7
<1> QED BY <1>1, <1>2, <1>3, <1>4, <1>5, <1>6, <1>7

\* The open that sem_close and sem_unlink make themselves is counted.
LEMMA CountedMore ==
    ASSUME Calm, OpensSound, NEW p \in Openers, Count(p, 1), ptr[p] \in Blocks,
           place[p] \in {"reopen", "unlinkOpen"}, \A q \in Openers \ {p} : place[q] = "idle",
           \E l \in {"load", "unlinkFork"} : place' = [place EXCEPT ![p] = l],
           UNCHANGED <<mem, ptr, handle>>
    PROVE  Counted'
<1> SUFFICES ASSUME NEW b \in Blocks, mem[b] = "live"
             PROVE  io_count'[b] >= Cardinality(Holders(b)) + (IF Reopened(b)' THEN 1 ELSE 0)
  BY \A b \in Blocks : Holders(b)' = Holders(b) DEF Counted, Holders
<1>1. Cardinality(Holders(b)) \in Nat /\ io_count[b] \in Int
  BY HoldersFinite DEF OpensSound, NTypeOK
<1>2. ~Reopened(b) BY DEF Reopened
<1>3. io_count[b] >= Cardinality(Holders(b)) + 0 BY <1>2 DEF OpensSound, Counted, Is
<1>4. CASE b = ptr[p]
  <2>1. io_count'[b] = io_count[b] + 1 BY <1>4 DEF Count, OpensSound, NTypeOK
  <2> QED BY <1>1, <1>3, <2>1
<1>5. CASE b # ptr[p]
  <2>1. io_count'[b] = io_count[b] BY <1>5 DEF Count, OpensSound, NTypeOK
  <2>2. ~Reopened(b)' BY <1>5 DEF Reopened, OpensSound, NTypeOK
  <2> QED BY <1>1, <1>3, <2>1, <2>2
<1> QED BY <1>4, <1>5

\* sem_close takes back no more than the open it made itself.
LEMMA CloseSound ==
    ASSUME Calm, OpensSound, NEW p \in Openers,
           CallClose(p) \/ CloseReopen(p) \/ CloseLoad(p) \/ CloseStore(p)
    PROVE  OpensSound'
<1> USE NameAssumption DEF OpensSound, shared, Go, Is
<1>1. CASE CallClose(p)
  <2>1. \A q \in Openers : Is(q, "idle") BY <1>1, EntersAlone DEF CallClose
  <2> USE <1>1, <2>1 DEF CallClose, Enter
  <2>2. NTypeOK' /\ Alone' BY DEF NTypeOK, Alone
  <2>3. UnusedUnknown' /\ CallKnows'
    BY DEF NTypeOK, UnusedUnknown, CallKnows, Fresh, Holders
  <2>4. Counted' BY DEF NTypeOK, Counted, Reopened, Holders
  <2> QED BY <2>2, <2>3, <2>4
<1>2. CASE CloseReopen(p)
  <2>1. place[p] = "reopen" BY <1>2 DEF CloseReopen
  <2>2. ptr[p] \in Blocks BY <2>1 DEF CallKnows
  <2> USE <1>2, <2>2 DEF CloseReopen
  <2>3. \A q \in Openers \ {p} : place[q] = "idle" BY DEF Alone
  <2>4. NTypeOK' /\ Alone' BY DEF NTypeOK, Alone, Count
  <2>5. UnusedUnknown' /\ CallKnows'
    BY <2>3 DEF NTypeOK, UnusedUnknown, CallKnows, Fresh, Holders
  <2>6. Counted' BY <2>3, CountedMore, place' = [place EXCEPT ![p] = "load"]
  <2> QED BY <2>4, <2>5, <2>6
<1>3. CASE CloseLoad(p)
  <2> USE <1>3 DEF CloseLoad
  <2>1. \A q \in Openers \ {p} : place[q] = "idle" BY DEF Alone
  <2>2. ptr[p] \in Blocks /\ mem[ptr[p]] # "unused" BY DEF CallKnows
  <2>3. NTypeOK' /\ Alone' BY <2>2 DEF NTypeOK, Alone
  <2>4. UnusedUnknown' /\ CallKnows'
    BY <2>1, <2>2 DEF NTypeOK, UnusedUnknown, CallKnows, Fresh, Holders
  <2>5. \A b \in Blocks : Reopened(b)' <=> Reopened(b) BY <2>1 DEF Reopened, NTypeOK
  <2>6. \A b \in Blocks : Holders(b)' = Holders(b) BY DEF Holders
  <2>7. Counted' BY <2>1, <2>5, <2>6 DEF Counted, NTypeOK
  <2> QED BY <2>3, <2>4, <2>7
<1>4. CASE CloseStore(p)
  <2> USE <1>4 DEF CloseStore
  <2>1. \A q \in Openers \ {p} : place[q] = "idle" BY DEF Alone
  <2>2. ptr[p] \in Blocks /\ mem[ptr[p]] # "unused" BY DEF CallKnows
  <2>3. NTypeOK' /\ Alone' BY <2>2 DEF NTypeOK, Alone
  <2>4. UnusedUnknown' /\ CallKnows'
    BY <2>1, <2>2 DEF NTypeOK, UnusedUnknown, CallKnows, Fresh, Holders
  <2>5. \A b \in Blocks : ~Reopened(b)' BY <2>1 DEF Reopened, NTypeOK
  <2>6. Counted'
    <3> SUFFICES ASSUME NEW b \in Blocks, mem[b] = "live"
                 PROVE  io_count'[b] >= Cardinality(Holders(b)') + 0
      BY <2>5 DEF Counted
    <3>1. Holders(b)' \subseteq Holders(b) BY DEF Holders, NTypeOK
    <3>2. /\ Cardinality(Holders(b)') \in Nat /\ Cardinality(Holders(b)) \in Nat
          /\ Cardinality(Holders(b)') <= Cardinality(Holders(b))
      BY <3>1, FewerHolders, HoldersFinite
    <3>3. io_count[b] \in Int BY DEF NTypeOK
    <3>4. CASE b = ptr[p]
      <4>1. Reopened(b) BY <3>4 DEF Reopened
      <4>2. io_count[b] >= Cardinality(Holders(b)) + 1 BY <2>1, <4>1 DEF Counted
      <4>3. loaded[p] = io_count[b] BY <3>4 DEF CallKnows
      <4>4. io_count'[b] = io_count[b] - 1 BY <3>2, <3>3, <3>4, <4>2, <4>3 DEF NTypeOK
      <4> QED BY <3>2, <3>3, <4>2, <4>4
    <3>5. CASE b # ptr[p]
      <4>1. ~Reopened(b) BY <2>1, <3>5 DEF Reopened
      <4>2. io_count[b] >= Cardinality(Holders(b)) + 0 BY <2>1, <4>1 DEF Counted
      <4>3. io_count'[b] = io_count[b] BY <3>5 DEF NTypeOK
      <4> QED BY <3>2, <3>3, <4>2, <4>3
    <3> QED BY <3>4, <3>5
  <2> QED BY <2>3, <2>4, <2>6
<1> QED BY <1>1, <1>2, <1>3, <1>4

\* So does sem_unlink.
LEMMA UnlinkSound ==
    ASSUME Calm, OpensSound, NEW p \in Openers,
           CallUnlink(p) \/ UnlinkOpen(p) \/ UnlinkFork(p)
    PROVE  OpensSound'
<1> USE NameAssumption DEF OpensSound, shared, Go, Is
<1>1. CASE CallUnlink(p)
  <2>1. \A q \in Openers : Is(q, "idle") BY <1>1, EntersAlone DEF CallUnlink
  <2> USE <1>1, <2>1 DEF CallUnlink, Enter
  <2>2. NTypeOK' /\ Alone' BY DEF NTypeOK, Alone
  <2>3. UnusedUnknown' /\ CallKnows'
    BY DEF NTypeOK, UnusedUnknown, CallKnows, Fresh, Holders
  <2>4. Counted' BY DEF NTypeOK, Counted, Reopened, Holders
  <2> QED BY <2>2, <2>3, <2>4
<1>2. CASE UnlinkOpen(p)
  <2>1. place[p] = "unlinkOpen" BY <1>2 DEF UnlinkOpen
  <2>2. ptr[p] \in Blocks BY <2>1 DEF CallKnows
  <2> USE <1>2, <2>2 DEF UnlinkOpen
  <2>3. \A q \in Openers \ {p} : place[q] = "idle" BY DEF Alone
  <2>4. NTypeOK' /\ Alone' BY DEF NTypeOK, Alone, Count
  <2>5. UnusedUnknown' /\ CallKnows'
    BY <2>3 DEF NTypeOK, UnusedUnknown, CallKnows, Fresh, Holders
  <2>6. Counted' BY <2>3, CountedMore, place' = [place EXCEPT ![p] = "unlinkFork"]
  <2> QED BY <2>4, <2>5, <2>6
<1>3. CASE UnlinkFork(p)
  <2> USE <1>3 DEF UnlinkFork, Count
  <2>1. \A q \in Openers \ {p} : place[q] = "idle" BY DEF Alone
  <2>2. ptr[p] \in Blocks /\ mem[ptr[p]] # "unused" BY DEF CallKnows
  <2>3. NTypeOK' /\ Alone'
    <3>1. children' \in [Blocks -> Nat] BY <2>2 DEF NTypeOK
    <3>2. io_count' \in [Blocks -> Int] BY <2>2 DEF NTypeOK
    <3> QED BY <2>2, <3>1, <3>2 DEF NTypeOK, Alone
  <2>4. UnusedUnknown' /\ CallKnows'
    BY <2>1, <2>2 DEF NTypeOK, UnusedUnknown, CallKnows, Fresh, Holders
  <2>5. \A b \in Blocks : ~Reopened(b)' BY <2>1 DEF Reopened, NTypeOK
  <2>6. Counted'
    <3> SUFFICES ASSUME NEW b \in Blocks, mem[b] = "live"
                 PROVE  io_count'[b] >= Cardinality(Holders(b)) + 0
      BY <2>5, \A b \in Blocks : Holders(b)' = Holders(b) DEF Counted, Holders
    <3>1. Cardinality(Holders(b)) \in Nat /\ io_count[b] \in Int
      BY HoldersFinite DEF NTypeOK
    <3>2. CASE b = ptr[p]
      <4>1. Reopened(b) BY <3>2 DEF Reopened
      <4>2. io_count[b] >= Cardinality(Holders(b)) + 1 BY <2>1, <4>1 DEF Counted
      <4>3. io_count'[b] = io_count[b] + -1 BY <3>2 DEF NTypeOK
      <4> QED BY <3>1, <4>2, <4>3
    <3>3. CASE b # ptr[p]
      <4>1. ~Reopened(b) BY <2>1, <3>3 DEF Reopened
      <4>2. io_count[b] >= Cardinality(Holders(b)) + 0 BY <2>1, <4>1 DEF Counted
      <4>3. io_count'[b] = io_count[b] BY <3>3 DEF NTypeOK
      <4> QED BY <3>1, <4>2, <4>3
    <3> QED BY <3>2, <3>3
  <2> QED BY <2>3, <2>4, <2>6
<1> QED BY <1>1, <1>2, <1>3

\* The child of sem_unlink releases what nobody has open.
LEMMA ChildSound ==
    ASSUME Calm, OpensSound,
           UnlinkDelete \/ \E b \in Blocks : UnlinkChild(b)
    PROVE  OpensSound'
<1> USE NameAssumption DEF OpensSound, Is
<1>1. CASE UnlinkDelete
  <2> USE <1>1 DEF UnlinkDelete
  <2>1. NTypeOK' /\ Alone' BY DEF NTypeOK, Alone
  <2>2. UnusedUnknown' /\ CallKnows' BY DEF UnusedUnknown, CallKnows, Fresh, Holders
  <2>3. Counted' BY DEF Counted, Reopened, Holders
  <2> QED BY <2>1, <2>2, <2>3
<1>2. ASSUME NEW b \in Blocks, UnlinkChild(b) PROVE OpensSound'
  <2> USE <1>2 DEF UnlinkChild, Free
  <2>1. \A io \in Garbage : io \in Int OBVIOUS
  <2>2. NTypeOK' /\ Alone' BY <2>1 DEF NTypeOK, Alone
  <2>3. mem[b] # "unused" BY DEF UnusedUnknown, Fresh, NTypeOK
  <2>4. UnusedUnknown' BY <2>3 DEF NTypeOK, UnusedUnknown, Fresh, Holders
  <2>5. \A p \in Openers : place[p] \in {"fields", "kernel"} => ptr[p] # b
    BY DEF CallKnows, Fresh, NTypeOK
  <2>6. CallKnows' BY <2>3, <2>5 DEF NTypeOK, CallKnows, Fresh, Holders
  <2>7. Counted' BY DEF NTypeOK, Counted, Reopened, Holders
  <2> QED BY <2>2, <2>4, <2>6, <2>7
<1> QED BY <1>1, <1>2

\* The invariant of one name.
THEOREM OpensAreSound ==
    ASSUME Calm
    PROVE  NSpec => []OpensSound
<1>1. NInit => OpensSound BY InitOpens
<1>2. ASSUME OpensSound, [NNext]_nvars PROVE OpensSound'
  <2>1. CASE UNCHANGED nvars
    BY <1>2, <2>1 DEF nvars, OpensSound, NTypeOK, Alone, Is,
        UnusedUnknown, Fresh, CallKnows, Counted, Reopened,
        Holders
  <2>2. CASE NNext
    BY <1>2, <2>2, OpenSound, CloseSound, UnlinkSound, ChildSound DEF NNext, NStep
  <2> QED BY <1>2, <2>1, <2>2
<1> QED BY <1>1, <1>2, PTL DEF NSpec

\* The property is part of the invariant: no block being created is open.
LEMMA CountedOpens ==
    ASSUME Calm, OpensSound PROVE OpensCounted
<1> SUFFICES ASSUME NEW b \in Blocks, mem[b] = "live", Holders(b) # {}
             PROVE  io_count[b] >= Cardinality(Holders(b))
  BY DEF OpensCounted
<1>1. Cardinality(Holders(b)) \in Nat /\ io_count[b] \in Int
  BY HoldersFinite DEF OpensSound, NTypeOK
<1>2. \A p \in Openers : Is(p, "fields") => ptr[p] # b
  BY DEF OpensSound, CallKnows, Fresh, Is
<1> QED BY <1>1, <1>2 DEF OpensSound, Counted

\* When calls do not overlap, every process that has the semaphore open is
\* counted, through any sequence of opens, closes and unlinks.
THEOREM EveryOpenCounts ==
    ASSUME Calm
    PROVE  NSpec => []OpensCounted
<1>1. OpensSound => OpensCounted BY CountedOpens
<1> QED BY <1>1, OpensAreSound, PTL

\* What sem_unlink's child, or a creation that failed, gives back to the
\* kernel (Mfree) is open in no process.
THEOREM OpenBlocksKept ==
    ASSUME Calm
    PROVE  NSpec => [][\A b \in Blocks : mem[b] = "live" /\ mem'[b] = "freed"
                                            => Holders(b) = {}]_nvars
<1> DEFINE Unheld == \A b \in Blocks : mem[b] = "live" /\ mem'[b] = "freed"
                                        => Holders(b) = {}
<1>1. ASSUME OpensSound, NNext PROVE Unheld
  <2> SUFFICES ASSUME NEW b \in Blocks, mem[b] = "live", mem'[b] = "freed"
               PROVE  Holders(b) = {}
    OBVIOUS
  <2> USE <1>1 DEF OpensSound
  <2>1. CASE UnlinkChild(b)
    <3>1. io_count[b] <= 0 /\ io_count[b] \in Int
      BY <2>1 DEF UnlinkChild, NTypeOK
    <3>2. IsFiniteSet(Holders(b)) /\ Cardinality(Holders(b)) \in Nat
      BY HoldersFinite
    <3>3. CASE Holders(b) # {}
      <4>1. io_count[b] >= Cardinality(Holders(b))
        BY <3>3, CountedOpens DEF OpensCounted
      <4>2. Cardinality(Holders(b)) = 0 BY <3>1, <3>2, <4>1
      <4> QED BY <3>2, <4>2, FS_EmptySet
    <3> QED BY <3>3
  <2>2. ASSUME NEW p \in Openers, CreateKernel(p) PROVE Holders(b) = {}
    <3>1. b = ptr[p]
      BY <2>2 DEF CreateKernel, Free, NTypeOK
    <3> QED BY <2>2, <3>1 DEF CreateKernel, Is, CallKnows, Fresh
  <2>3. ASSUME NEW c \in Blocks, UnlinkChild(c), c # b PROVE FALSE
    BY <2>3 DEF UnlinkChild, Free, NTypeOK
  <2>4. ASSUME NEW p \in Openers, CreateAttach(p) PROVE FALSE
    BY <2>4 DEF CreateAttach, NTypeOK
  <2>5. mem' = mem \/ (\E p \in Openers : CreateKernel(p) \/ CreateAttach(p))
        \/ (\E c \in Blocks : UnlinkChild(c))
    BY DEF NNext, NStep, CallCreate, CreateNoMemory,
        CreateFields, CallOpen, Opened, CallClose,
        CloseReopen, CloseLoad, CloseStore, CallUnlink,
        UnlinkOpen, UnlinkFork, UnlinkDelete, shared
  <2> QED BY <2>1, <2>2, <2>3, <2>4, <2>5
<1>2. OpensSound /\ [NNext]_nvars => [Unheld]_nvars
  BY <1>1
<1> QED BY <1>2, OpensAreSound, PTL DEF NSpec
=============================================================================
