--------------------------- MODULE NamedSemaphore ---------------------------
(***************************************************************************)
(* The life of one named semaphore: sem_open, sem_close and sem_unlink.    *)
(* The name is a file in the kernel's shared memory file system (U:\SHM,   *)
(* external) to which sem_open attaches a block of global memory holding   *)
(* the sem_t.  io_count in that block counts the opens; sem_unlink forks a *)
(* child that waits for it to reach 0 and then releases everything.        *)
(*                                                                         *)
(* io_count++ and io_count-- alone are single read-modify-write            *)
(* instructions; the test and decrement of sem_close load the word once.   *)
(*                                                                         *)
(* No name here is one of Semaphore: a module may extend both.             *)
(***************************************************************************)
EXTENDS Integers, FiniteSets

CONSTANTS
    Openers,      \* the processes using the name
    Blocks,     \* blocks Mxalloc can return for a sem_t
    Garbage,    \* what io_count may hold in memory just allocated or freed
    MaxActive,  \* processes that may be inside a call at the same time
    MaxCalls,   \* bound: calls of sem_open and sem_unlink by the program
    NoFile, NoBlock

ASSUME NameAssumption ==
    /\ MaxCalls \in Nat /\ MaxActive \in Nat \ {0}
    /\ Garbage \subseteq Int
    /\ NoFile \notin Blocks /\ NoBlock \notin Blocks /\ NoFile # NoBlock

VARIABLES
    file,       \* the name: NoFile, a file with NoBlock, or its block
    mem,        \* the state of each block: "unused", "live" or "freed"
    io_count,   \* io_count of each block
    named,     \* whether the kernel semaphore of the name exists
    place,         \* where each process is inside its call
    ptr,        \* sem_ptr of the call under way
    loaded,        \* the io_count sem_close loaded
    handle,     \* the sem_t each process has open, or NoBlock
    children,   \* how many forked children wait to release each block
    deleting,   \* how many have released theirs and not yet deleted the file
    calls       \* calls of sem_open and sem_unlink made by the program

nvars == << file, mem, io_count, named, place, ptr, loaded, handle, children,
           deleting, calls >>
shared == << file, mem, named, children, deleting >>

Go(p, l) == place' = [place EXCEPT ![p] = l]
Is(p, l) == place[p] = l

\* p enters a call; the bound on calls in progress leaves room for it.
Enter(p, l) ==
    /\ Is(p, "idle")
    /\ Cardinality({q \in Openers : ~Is(q, "idle")}) < MaxActive
    /\ Go(p, l)

\* Mfree: whoever gets the memory next writes to it.
Free(b) ==
    /\ mem' = [mem EXCEPT ![b] = "freed"]
    /\ \E io \in Garbage : io_count' = [io_count EXCEPT ![b] = io]

\* sem_ptr->io_count += n
Count(p, n) == io_count' = [io_count EXCEPT ![ptr[p]] = @ + n]

-----------------------------------------------------------------------------
\* sem_open with O_CREAT: Fcreate makes the file (external: it does not
\* replace an existing one), SHMSETBLK attaches the block, the fields are set,
\* the kernel semaphore is created.

CallCreate(p) ==
    /\ Enter(p, "attach") /\ handle[p] = NoBlock /\ calls < MaxCalls
    /\ file = NoFile
    /\ file' = NoBlock
    /\ calls' = calls + 1
    /\ UNCHANGED << mem, io_count, named, ptr, loaded, handle, children, deleting >>

\* Mxalloc fails: the call does, and the file stays.
CreateNoMemory(p) ==
    /\ Is(p, "attach")
    /\ Go(p, "idle")
    /\ UNCHANGED << shared, io_count, ptr, loaded, handle, calls >>

CreateAttach(p) ==
    /\ Is(p, "attach")
    /\ \E b \in Blocks, io \in Garbage :
         /\ mem[b] = "unused"
         /\ mem' = [mem EXCEPT ![b] = "live"]
         /\ io_count' = [io_count EXCEPT ![b] = io]
         /\ ptr' = [ptr EXCEPT ![p] = b]
         /\ file' = b
    /\ Go(p, "fields")
    /\ UNCHANGED << named, loaded, handle, children, deleting, calls >>

CreateFields(p) ==
    /\ Is(p, "fields")
    /\ io_count' = [io_count EXCEPT ![ptr[p]] = 0]
    /\ Go(p, "kernel")
    /\ UNCHANGED << shared, ptr, loaded, handle, calls >>

\* Psemaphore(0) fails when the name's kernel semaphore exists; the block is
\* freed then, and stays attached to the file.
CreateKernel(p) ==
    /\ Is(p, "kernel")
    /\ \/ /\ ~named
          /\ named' = TRUE
          /\ Go(p, "opened")
          /\ UNCHANGED << mem, io_count >>
       \/ /\ named
          /\ Free(ptr[p])
          /\ Go(p, "idle")
          /\ UNCHANGED named
    /\ UNCHANGED << file, ptr, loaded, handle, children, deleting, calls >>

\* sem_open without O_CREAT: the block the file has, if any.
CallOpen(p) ==
    /\ Enter(p, "opened") /\ handle[p] = NoBlock /\ calls < MaxCalls
    /\ file \in Blocks
    /\ ptr' = [ptr EXCEPT ![p] = file]
    /\ calls' = calls + 1
    /\ UNCHANGED << shared, io_count, loaded, handle >>

Opened(p) ==
    /\ Is(p, "opened")
    /\ Count(p, 1)
    /\ handle' = [handle EXCEPT ![p] = ptr[p]]
    /\ Go(p, "idle")
    /\ UNCHANGED << shared, ptr, loaded, calls >>

-----------------------------------------------------------------------------
\* sem_close finds the block by opening the name once more, which counts; it
\* then takes one from the count.

CallClose(p) ==
    /\ Enter(p, "reopen") /\ handle[p] # NoBlock
    /\ file \in Blocks
    /\ ptr' = [ptr EXCEPT ![p] = file]
    /\ UNCHANGED << shared, io_count, loaded, handle, calls >>

CloseReopen(p) ==
    /\ Is(p, "reopen")
    /\ Count(p, 1)
    /\ Go(p, "load")
    /\ UNCHANGED << shared, ptr, loaded, handle, calls >>

CloseLoad(p) ==
    /\ Is(p, "load")
    /\ loaded' = [loaded EXCEPT ![p] = io_count[ptr[p]]]
    /\ Go(p, "store")
    /\ UNCHANGED << shared, io_count, ptr, handle, calls >>

CloseStore(p) ==
    /\ Is(p, "store")
    /\ io_count' = IF loaded[p] > 0
                   THEN [io_count EXCEPT ![ptr[p]] = loaded[p] - 1]
                   ELSE io_count
    /\ handle' = [handle EXCEPT ![p] = NoBlock]
    /\ loaded' = [loaded EXCEPT ![p] = 0]
    /\ Go(p, "idle")
    /\ UNCHANGED << shared, ptr, calls >>

-----------------------------------------------------------------------------
\* sem_unlink opens the name, takes that open back and forks.

CallUnlink(p) ==
    /\ Enter(p, "unlinkOpen") /\ calls < MaxCalls
    /\ file \in Blocks
    /\ ptr' = [ptr EXCEPT ![p] = file]
    /\ calls' = calls + 1
    /\ UNCHANGED << shared, io_count, loaded, handle >>

\* Mutant: sem_unlink looks the block up without opening it.
UnlinkOpenUncounted(p) ==
    /\ Is(p, "unlinkOpen")
    /\ Go(p, "unlinkFork")
    /\ UNCHANGED << shared, io_count, ptr, loaded, handle, calls >>

UnlinkOpen(p) ==
    /\ Is(p, "unlinkOpen")
    /\ Count(p, 1)
    /\ Go(p, "unlinkFork")
    /\ UNCHANGED << shared, ptr, loaded, handle, calls >>

UnlinkFork(p) ==
    /\ Is(p, "unlinkFork")
    /\ Count(p, -1)
    /\ \/ children' = [children EXCEPT ![ptr[p]] = @ + 1]
       \/ UNCHANGED children                          \* fork fails: EAGAIN
    /\ Go(p, "idle")
    /\ UNCHANGED << file, mem, named, ptr, loaded, handle, deleting, calls >>

\* The child leaves its loop once io_count is not positive.  Its
\* Psemaphore(1, &sem_id, 0) names no existing semaphore, as in sem_destroy.
UnlinkChild(b) ==
    /\ children[b] > 0
    /\ io_count[b] <= 0
    /\ Free(b)
    /\ children' = [children EXCEPT ![b] = @ - 1]
    /\ deleting' = deleting + 1
    /\ UNCHANGED << file, named, place, ptr, loaded, handle, calls >>

\* Fdelete: by name, whichever block the file has by now.
UnlinkDelete ==
    /\ deleting > 0
    /\ file' = NoFile
    /\ deleting' = deleting - 1
    /\ UNCHANGED << mem, io_count, named, place, ptr, loaded, handle, children, calls >>

\* Another name of the same four letters may have the kernel semaphore.
NInit ==
    /\ file = NoFile
    /\ mem = [b \in Blocks |-> "unused"]
    /\ io_count = [b \in Blocks |-> 0]
    /\ named \in BOOLEAN
    /\ place = [p \in Openers |-> "idle"]
    /\ ptr = [p \in Openers |-> NoBlock]
    /\ loaded = [p \in Openers |-> 0]
    /\ handle = [p \in Openers |-> NoBlock]
    /\ children = [b \in Blocks |-> 0]
    /\ deleting = 0
    /\ calls = 0

\* What goes on by itself once a call is under way.
NStep(p) ==
    \/ CreateNoMemory(p) \/ CreateAttach(p) \/ CreateFields(p)
    \/ CreateKernel(p) \/ Opened(p)
    \/ CloseReopen(p) \/ CloseLoad(p) \/ CloseStore(p)
    \/ UnlinkOpen(p) \/ UnlinkFork(p)

NNext ==
    \/ \E p \in Openers :
         CallCreate(p) \/ CallOpen(p) \/ CallClose(p) \/ CallUnlink(p) \/ NStep(p)
    \/ \E b \in Blocks : UnlinkChild(b)
    \/ UnlinkDelete

\* Calls and children go on, as processes are scheduled preemptively, and a
\* program closes in the end what it opened.
NSpec ==
    /\ NInit /\ [][NNext]_nvars
    /\ \A p \in Openers : WF_nvars(NStep(p)) /\ WF_nvars(CallClose(p))
    /\ \A b \in Blocks : WF_nvars(UnlinkChild(b))
    /\ WF_nvars(UnlinkDelete)

-----------------------------------------------------------------------------
\* "Fork a process to handle the actual unlinking" (sem_unlink.c:44): when
\* the program opens nothing any more and closes what it has open, the child
\* of sem_unlink gets to delete the name.
UnlinkCompletes ==
    \A b \in Blocks : (children[b] > 0) ~> (children[b] = 0)

Holders(b) == {p \in Openers : handle[p] = b}

\* When calls do not overlap (MaxActive = 1), every process that has the
\* semaphore open is counted, through any sequence of opens, closes and
\* unlinks: the child of sem_unlink does not release what is in use.
OpensCounted ==
    \A b \in Blocks :
      mem[b] = "live" /\ Holders(b) # {} => io_count[b] >= Cardinality(Holders(b))

\* Its inductive strengthening.  Who is inside a call is there alone.
NTypeOK ==
    /\ file \in Blocks \cup {NoFile, NoBlock}
    /\ mem \in [Blocks -> {"unused", "live", "freed"}]
    /\ io_count \in [Blocks -> Int]
    /\ named \in BOOLEAN
    /\ place \in [Openers -> {"idle", "attach", "fields", "kernel", "opened", "reopen",
                        "load", "store", "unlinkOpen", "unlinkFork"}]
    /\ ptr \in [Openers -> Blocks \cup {NoBlock}]
    /\ loaded \in [Openers -> Int]
    /\ handle \in [Openers -> Blocks \cup {NoBlock}]
    /\ children \in [Blocks -> Nat]
    /\ deleting \in Nat /\ calls \in Nat

Alone == \A p, q \in Openers : ~Is(p, "idle") /\ ~Is(q, "idle") => p = q

\* A block never allocated is known to nobody, and one just allocated only to
\* the process that creates it.
Fresh(b) == Holders(b) = {} /\ children[b] = 0
UnusedUnknown == \A b \in Blocks : mem[b] = "unused" => Fresh(b) /\ file # b
CallKnows ==
    \A p \in Openers :
      /\ place[p] \notin {"idle", "attach"} => ptr[p] \in Blocks /\ mem[ptr[p]] # "unused"
      /\ place[p] \in {"fields", "kernel"} => mem[ptr[p]] = "live" /\ Fresh(ptr[p])
      /\ Is(p, "store") /\ mem[ptr[p]] = "live" => loaded[p] = io_count[ptr[p]]

\* The opens sem_close and sem_unlink have yet to take back are counted too.
Reopened(b) == \E p \in Openers : place[p] \in {"load", "store", "unlinkFork"} /\ ptr[p] = b
Counted ==
    \A b \in Blocks :
      mem[b] = "live" /\ (\A p \in Openers : Is(p, "fields") => ptr[p] # b) =>
        io_count[b] >= Cardinality(Holders(b)) + (IF Reopened(b) THEN 1 ELSE 0)

OpensSound == NTypeOK /\ Alone /\ UnusedUnknown /\ CallKnows /\ Counted
=============================================================================
