----------------------------- MODULE Semaphore -----------------------------
(***************************************************************************)
(* The POSIX semaphores of posix/sem_*.c, built from two shared things:    *)
(* the word max_count of the sem_t, which every caller reads and writes    *)
(* without a lock, and a FreeMiNT kernel semaphore reached through         *)
(* Psemaphore.  The kernel semaphore is binary and is owned: creating it   *)
(* makes the caller its owner, a second acquisition by the owner fails,    *)
(* and only the owner can release it.                                      *)
(*                                                                         *)
(* Every access to shared state is a step of its own.  The library is      *)
(* built with -O2 (configvars:143), so a test of max_count followed by     *)
(* max_count++ or max_count-- with no call in between loads the word once  *)
(* and stores the changed register: reg[p] is that register.  A lone       *)
(* max_count-- after a call is one read-modify-write instruction.          *)
(***************************************************************************)
EXTENDS Integers, FiniteSets

CONSTANTS
    Procs,          \* the processes sharing the sem_t
    Ids,            \* what gen_sem_id can draw
    Values,         \* initial values handed to sem_init
    Ops,            \* calls the program makes: "wait", "timed", "try", "post"
    SemValueMax,    \* SEM_VALUE_MAX
    Deadlines,      \* abs_timeout arguments, in half milliseconds
    MaxClock,       \* bound: the clock's last value
    MaxDrift,       \* bound: no sem_post starts once max_count is below -MaxDrift
    Nobody, NoSem,  \* a kernel semaphore nobody owns; one that does not exist
    NULL, Dangling  \* sem_id when unset, and after a failed sem_init freed it

ASSUME ConstantAssumption ==
    /\ SemValueMax \in Nat \ {0}
    /\ Values \subseteq Nat
    /\ MaxClock \in Nat /\ MaxDrift \in Nat
    /\ MaxClock \div 2 < 2^30  \* timeout_ms, half the clock, fits 32 bits
    /\ Deadlines \subseteq 0 .. MaxClock
    /\ Nobody \notin Procs /\ NoSem \notin Procs \cup {Nobody}
    /\ NULL \notin Ids /\ Dangling \notin Ids

VARIABLES
    sem_id,     \* sem->sem_id
    max_count,  \* sem->max_count
    value,      \* the value of the last sem_init
    kernel,     \* owner of each kernel semaphore
    clock,      \* clock_gettime, in half milliseconds
    pc,         \* where each process is inside its call
    reg,        \* the loaded max_count of each process
    deadline,   \* abs_timeout of each process's call, Forever for sem_wait
    left,       \* time left to the process's Psemaphore, Forever for -1
    got         \* processes whose wait returned 0 and which did not post since

vars == << sem_id, max_count, value, kernel, clock, pc, reg, deadline, left,
           got >>
sem == << sem_id, value >>
timers == << clock, deadline, left >>

Forever == -1

Waiting == {"spin", "late", "take", "acquire"}
Trying == {"try", "tryTake"}
Posting == {"store", "release", "rollback"}

Quiet == \A p \in Procs : pc[p] = "idle"

Goto(p, l) == pc' = [pc EXCEPT ![p] = l]
At(p, l) == pc[p] = l

\* Back to the program: the call's locals are gone.
Return(p) ==
    /\ Goto(p, "idle")
    /\ deadline' = [deadline EXCEPT ![p] = Forever]
    /\ left' = [left EXCEPT ![p] = Forever]

CanCall(p, op) == op \in Ops /\ At(p, "idle") /\ sem_id \in Ids

-----------------------------------------------------------------------------
\* sem_init and sem_destroy.  As POSIX asks of the program, they are called
\* while no other call on the semaphore is in progress.

SemInit(p, v, id) ==
    /\ Quiet
    /\ sem_id \notin Ids
    /\ v <= SemValueMax
    /\ max_count' = v
    /\ value' = v
    /\ \/ /\ kernel[id] = NoSem
          /\ sem_id' = id
          /\ kernel' = [kernel EXCEPT ![id] = p]
       \/ /\ kernel[id] # NoSem
          /\ sem_id' = Dangling
          /\ UNCHANGED kernel
    /\ got' = {}
    /\ UNCHANGED << pc, reg, timers >>

\* The call is Psemaphore(1, &sem_id, 0): it names the semaphore by the
\* address of a local variable, so that no semaphore in use is destroyed.
SemDestroy(p) ==
    /\ Quiet
    /\ sem_id \in Ids
    /\ sem_id' = NULL
    /\ UNCHANGED << max_count, value, kernel, pc, reg, got, timers >>

-----------------------------------------------------------------------------
\* sem_wait, sem_timedwait, sem_clockwait: the blocking side of
\* sem_waitcommon.

CallWait(p) ==
    /\ CanCall(p, "wait")
    /\ Goto(p, "spin")
    /\ deadline' = [deadline EXCEPT ![p] = Forever]
    /\ left' = [left EXCEPT ![p] = Forever]
    /\ UNCHANGED << sem, max_count, kernel, clock, reg, got >>

\* The difference to now in milliseconds is rounded down or up, depending on
\* which of the two nanosecond fields is larger.
TimeoutMs(d) == {(d - clock) \div 2, (d - clock + 1) \div 2}

\* "Check if timeout has already passed"
NotPassed(d) == clock < d

CallTimedWait(p, d) ==
    /\ CanCall(p, "timed")
    /\ NotPassed(d)
    /\ Goto(p, "spin")
    /\ deadline' = [deadline EXCEPT ![p] = d]
    /\ \E ms \in TimeoutMs(d) : left' = [left EXCEPT ![p] = 2 * ms]
    /\ UNCHANGED << sem, max_count, kernel, clock, reg, got >>

\* What sem_waitcommon tests before it takes one.
Available == max_count > 0

\* One evaluation of the loop condition max_count <= 0.
Spin(p) ==
    /\ At(p, "spin")
    /\ \/ /\ Available
          /\ reg' = [reg EXCEPT ![p] = max_count]
          /\ Goto(p, "take")
       \/ /\ ~Available /\ deadline[p] # Forever
          /\ Goto(p, "late")
          /\ UNCHANGED reg
    /\ UNCHANGED << sem, max_count, kernel, timers, got >>

\* Mutant: the loop of the timed wait does not look at the clock.
SpinNeverLate(p) ==
    /\ At(p, "late") /\ Goto(p, "spin")
    /\ UNCHANGED << sem, max_count, kernel, timers, reg, got >>

\* The clock is read in every round of the timed loop.
SpinLate(p) ==
    /\ At(p, "late")
    /\ \/ clock >= deadline[p] /\ Return(p)
       \/ clock < deadline[p] /\ Goto(p, "spin") /\ UNCHANGED << deadline, left >>
    /\ UNCHANGED << sem, max_count, kernel, clock, reg, got >>

Take(p) ==
    /\ At(p, "take")
    /\ max_count' = reg[p] - 1
    /\ reg' = [reg EXCEPT ![p] = 0]
    /\ Goto(p, "acquire")
    /\ UNCHANGED << sem, kernel, timers, got >>

\* Psemaphore(2): granted when nobody owns it, refused to its owner at once
\* and to the others when the time is over, which is at once for a timeout
\* of 0 and never for -1.
Granted == kernel[sem_id] = Nobody
Refused(p) == \/ kernel[sem_id] = p
              \/ kernel[sem_id] # Nobody /\ left[p] = 0

\* Mutant: sem_wait does not look at what Psemaphore returns.
AcquireUnchecked(p) ==
    /\ At(p, "acquire")
    /\ \/ Granted /\ kernel' = [kernel EXCEPT ![sem_id] = p]
       \/ Refused(p) /\ UNCHANGED kernel
    /\ got' = got \cup {p}
    /\ Return(p)
    /\ UNCHANGED << sem, max_count, clock, reg >>

Acquire(p) ==
    /\ At(p, "acquire")
    /\ \/ /\ Granted
          /\ kernel' = [kernel EXCEPT ![sem_id] = p]
          /\ got' = got \cup {p}
       \/ Refused(p) /\ UNCHANGED << kernel, got >>
    /\ Return(p)
    /\ UNCHANGED << sem, max_count, clock, reg >>

-----------------------------------------------------------------------------
\* sem_trywait: the test, Psemaphore(2) with a timeout of 0, the decrement.

CallTryWait(p) ==
    /\ CanCall(p, "try")
    /\ Available
    /\ Goto(p, "try")
    /\ left' = [left EXCEPT ![p] = 0]
    /\ UNCHANGED << sem, max_count, kernel, clock, deadline, reg, got >>

TryAcquire(p) ==
    /\ At(p, "try")
    /\ \/ /\ Granted
          /\ kernel' = [kernel EXCEPT ![sem_id] = p]
          /\ Goto(p, "tryTake")
          /\ UNCHANGED << deadline, left >>
       \/ Refused(p) /\ Return(p) /\ UNCHANGED kernel
    /\ UNCHANGED << sem, max_count, clock, reg, got >>

TryTake(p) ==
    /\ At(p, "tryTake")
    /\ max_count' = max_count - 1
    /\ Return(p)
    /\ got' = got \cup {p}
    /\ UNCHANGED << sem, kernel, clock, reg >>

-----------------------------------------------------------------------------
\* sem_post: the test and the load, the store, Psemaphore(3), the rollback.

\* Mutant: the test for EOVERFLOW is off by one.
FullLate == max_count > SemValueMax

Full == max_count >= SemValueMax

CallPost(p) ==
    /\ CanCall(p, "post")
    /\ max_count >= -MaxDrift
    /\ ~Full
    /\ reg' = [reg EXCEPT ![p] = max_count]
    /\ Goto(p, "store")
    /\ UNCHANGED << sem, max_count, kernel, timers, got >>

PostStore(p) ==
    /\ At(p, "store")
    /\ max_count' = reg[p] + 1
    /\ reg' = [reg EXCEPT ![p] = 0]
    /\ Goto(p, "release")
    /\ UNCHANGED << sem, kernel, timers, got >>

Release(p) ==
    /\ At(p, "release")
    /\ \/ /\ kernel[sem_id] = p
          /\ kernel' = [kernel EXCEPT ![sem_id] = Nobody]
          /\ got' = got \ {p}
          /\ Return(p)
       \/ /\ kernel[sem_id] # p
          /\ Goto(p, "rollback")
          /\ UNCHANGED << kernel, got, deadline, left >>
    /\ UNCHANGED << sem, max_count, clock, reg >>

Rollback(p) ==
    /\ At(p, "rollback")
    /\ max_count' = max_count - 1
    /\ Return(p)
    /\ UNCHANGED << sem, kernel, clock, reg, got >>

-----------------------------------------------------------------------------
\* Time passes for the clock and for every process inside Psemaphore.  The
\* clock stops at MaxClock; the kernel's timers do not.
Tick ==
    /\ \/ clock < MaxClock
       \/ \E p \in Procs : At(p, "acquire") /\ left[p] > 0
    /\ clock' = IF clock < MaxClock THEN clock + 1 ELSE clock
    /\ left' = [p \in Procs |->
                  IF At(p, "acquire") /\ left[p] > 0 THEN left[p] - 1
                                                     ELSE left[p]]
    /\ UNCHANGED << sem, max_count, kernel, pc, reg, deadline, got >>

Init ==
    /\ sem_id = NULL
    /\ max_count = 0
    /\ value = 0
    /\ kernel = [id \in Ids |-> NoSem]
    /\ clock = 0
    /\ pc = [p \in Procs |-> "idle"]
    /\ reg = [p \in Procs |-> 0]
    /\ deadline = [p \in Procs |-> Forever]
    /\ left = [p \in Procs |-> Forever]
    /\ got = {}

Call(p) ==
    \/ \E v \in Values, id \in Ids : SemInit(p, v, id)
    \/ SemDestroy(p)
    \/ CallWait(p)
    \/ \E d \in Deadlines : CallTimedWait(p, d)
    \/ CallTryWait(p)
    \/ CallPost(p)

\* The rest of a call once it is under way.
Step(p) ==
    \/ Spin(p) \/ SpinLate(p) \/ Take(p) \/ Acquire(p)
    \/ TryAcquire(p) \/ TryTake(p)
    \/ PostStore(p) \/ Release(p) \/ Rollback(p)

Next == Tick \/ \E p \in Procs : Call(p) \/ Step(p)

Spec == Init /\ [][Next]_vars

\* A process inside a call goes on, since the loops yield and the kernel is
\* preemptive; the clock goes on.  Nothing makes a program start a call.
FairSpec == Spec /\ WF_vars(Tick) /\ \A p \in Procs : WF_vars(Step(p))

-----------------------------------------------------------------------------
\* The type of the state.
TypeOK ==
    /\ sem_id \in Ids \cup {NULL, Dangling}
    /\ max_count \in Int
    /\ value \in Nat
    /\ kernel \in [Ids -> Procs \cup {Nobody, NoSem}]
    /\ clock \in 0 .. MaxClock
    /\ pc \in [Procs -> {"idle"} \cup Waiting \cup Trying \cup Posting]
    /\ reg \in [Procs -> Int]
    /\ deadline \in [Procs -> Nat \cup {Forever}]
    /\ left \in [Procs -> Nat \cup {Forever}]
    /\ got \subseteq Procs

\* A timed call never hands -1, which is "wait forever", to Psemaphore.  A call
\* under way uses an existing kernel semaphore, a waiter past its loop
\* loaded a positive count and a poster past its test one below the maximum.
CallSound ==
    /\ sem_id \in Ids => kernel[sem_id] # NoSem
    /\ \A p \in Procs :
         /\ pc[p] # "idle" => sem_id \in Ids
         /\ deadline[p] # Forever => left[p] # Forever
         /\ pc[p] = "take" => reg[p] \in 1 .. SemValueMax
         /\ pc[p] = "store" => reg[p] < SemValueMax
         /\ pc[p] = "tryTake" => kernel[sem_id] = p

\* Whatever the races on max_count let through the loop of sem_waitcommon,
\* no two processes are ever past a successful wait: the one that is owns
\* the kernel semaphore until its own sem_post releases it.
HolderOwns == sem_id \in Ids => \A p \in got : kernel[sem_id] = p

\* No interleaving of sem_post calls stores more than SEM_VALUE_MAX, although
\* the test for EOVERFLOW and the increment are not one step.
CountCapped == max_count <= SemValueMax

\* The invariant the proof goes by.
SemSound == TypeOK /\ CallSound /\ HolderOwns /\ CountCapped

\* sem_timedwait and sem_clockwait return, whoever holds the semaphore: the
\* loop looks at the clock in every round and Psemaphore has a timeout.
TimedWaitReturns ==
    \A p \in Procs :
      (pc[p] \in Waiting /\ deadline[p] # Forever) ~> (pc[p] = "idle")

\* "Rollback on error" (sem_post.c:32): between calls, a program that only
\* posts finds max_count at the initial value plus the posts that succeeded,
\* which are the one that released the creator's kernel semaphore.
FailedPostsLeaveNoTrace ==
    (Ops = {"post"} /\ Quiet /\ sem_id \in Ids) =>
       max_count = value + (IF kernel[sem_id] = Nobody THEN 1 ELSE 0)
=============================================================================
