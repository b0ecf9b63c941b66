# MiNTLib in TLA+

This directory holds specifications of the parts of MiNTLib, the C library of
FreeMiNT, that keep state of their own: what they keep, which steps change it,
what must stay true, and how that was checked with TLC and proved with TLAPS.
`PROJECT.json` says for every definition which lines of the source it stands for.

## 1. Inventory

MiNTLib sits between programs and two kernels, the single-tasking TOS (GEMDOS)
and the multi-tasking FreeMiNT. Much of it is one kernel call per function or a
pure function. The parts with state of their own, and what makes them correct:

| Part | State | Operations | Interacts with | Hard, and what makes it correct |
|---|---|---|---|---|
| Heap (`mintlib/malloc.c`, `realloc.c`, `calloc.c`, `posix_memalign.c`, `unix/sbrk.c`) | free list in address order, chunk headers, `MINHUNK`, `_heapbase`, `_stksize`, `_split_mem` | malloc, calloc, realloc, free, memalign, sbrk, `_mallocChunkSize` | GEMDOS Malloc/Mfree; the stack; almost every other part | long call sequences; merging, borders, return of memory; order and exactness of the list, no overlap, nothing in use given back |
| Unnamed semaphores (`posix/sem_*.c`) | `max_count` in shared memory, a kernel semaphore | init, destroy, wait, timedwait, clockwait, trywait, post | Psemaphore, the clock, other processes | unlocked counters between processes; exclusion, the cap, waits that end |
| Named semaphores (`posix/sem_open.c`, `sem_close.c`, `sem_unlink.c`) | file in U:\SHM, shared block, `io_count`, a forked child | open, close, unlink | kernel files and shared memory, fork | creation in steps, deferred removal; the count of opens is right and removal happens |
| RPC client over UDP (`sunrpc/clnt_udp.c`) | out buffer with the transaction id, time waited | create, call, control, destroy | UDP, the server, authentication | loss, repetition, late replies; a call gets its own reply and returns |
| RPC server over UDP (`sunrpc/svc_udp.c`, `svc.c`) | buffers, reply cache (hash chains, fifo, saved key) | recv, reply, enablecache, dispatch | UDP, the program's procedures | reuse of nodes and buffers; chains consistent, cached replies intact and the right ones |
| RPC registry and loop (`svc.c`, `svc_run.c`) | `xports`, `svc_pollfd`, callout list | register, unregister, `svc_run`, `svc_exit` | poll, dispatch routines that register and destroy | a snapshot that goes stale; nothing freed is used, every call is served |
| RPC over TCP (`xdr_rec.c`, `clnt_tcp.c`, `svc_tcp.c`) | record fragments, in and out buffers | get, put, skip and end of record | sockets | fragment boundaries, partial reads |
| stdio streams (`stdio/internals.c` ...) | buffer, three limits, target, offset, pushback, line buffering | getc, putc, fseek, fflush, ungetc, fclose, exit | read, write, lseek; `__stdio_head` | switches between reading, writing and seeking; a stream is a byte sequence with a position |
| popen (`stdio/popen.c`) | list of pipes, redirected handle | popen, pclose | spawn, waitpid | paths that fail half way |
| Signals without kernel support (`unix/kill.c`, `sigsetmask.c`, ...) | `_sigmask`, `_sigpending`, handlers | kill, block, set mask, pause | handlers that call back | pending signals delivered once, never while masked |
| sleep and alarm (`posix/sleep.c`) | the one alarm timer | sleep, usleep, nanosleep | the program's alarm and handler | the program's alarm survives |
| Start-up, exit, threads (`crtinit.c`, `exit.c`, `atexit.c`, `thread.c`) | memory model, `_at_exit` | `_crtinit`, atexit, exit, tfork | heap, stdio | every handler once, in reverse order |
| poll on Fselect (`unix/poll.c`) | remaining time, masks | poll | kernel | long timeouts in rounds |
| utmp, shadow lock (`login/utmp_file.c`, `shadow/lckpwdf.c`) | file offset, last entry; `lock_fd`, alarm | getutent, pututline; lckpwdf | other processes, advisory locks | search, lock, write not in one piece |
| Resolver (`socket/res_send.c`) | socket, connected, try | res_send | UDP, TCP, servers | retries and stale answers |
| tsearch, hsearch, obstacks, directories | trees, tables | insert, delete, find | malloc | balance and order |

The rest is formatting, strings, numbers, time zones, regular expressions, XDR,
encryption and wrappers of kernel calls: no state of its own, or imported code
whose value space a model checker can not cover. `PROJECT.json` lists each with
the reason it is not modelled, and lists every hazard found, with its line.

## 2. Plan

The order follows how much depends on a part, and how hard it is to test.

1. Done: the heap, with its abstract specification, the proof of its invariant and
   the proof that it implements the abstract one.
2. Done: both kinds of semaphores, with proofs.
3. Done: RPC over UDP, client and server composed by a network, with the proofs of the
   cache and of `OwnReply`.
4. Done: a stdio stream over a file, and the abstract `ByteFile` it implements, with the
   proofs of its invariant and that it implements `ByteFile`.
5. Done: RPC over TCP: the record stream of `xdr_rec.c` with the abstract `Records`
   it implements, and the server with its registry and `svc_run`, both with proofs; that
   the record stream implements `Records` is proved.
6. Done: login records; sleep and the shadow lock against the alarm timer;
   signals, threads and exit where the kernel has no signals; all with proofs.
7. Next: `Popen` (the list of pipes and the handle redirected around spawn);
   `PollRounds` (a timeout in rounds of 65535 ms); `ResSend` (servers, retries,
   the switch to TCP); `clnt_tcp.c` on top of `RecordStream` (a client that goes on after
   `RPC_TIMEDOUT` in the middle of a record, `xdr_rec.c:277`).
8. Then: `TreeSearch` and `HashSearch` against reference definitions; `system` and its
   signal mask; `wait4` on TOS; `clock_nanosleep`; the callout list of `svc.c`;
   `updwtmp`.

Theorems: every safety property the passing runs check is proved, and so are the three
refinements. Left is what the prover can not do, liveness.

## 3. The modules

### Heap: `Malloc`, `Allocator`, `MCMalloc`, `MallocProofs`

Memory is a range of byte addresses. `chunk` maps the address of each
`struct mem_chunk` to its fields, `fl` is the list from `_mchunk_free_list`,
`region` is what GEMDOS has given to the process, `live` is what the program
holds. Sizes and addresses are the real ones: headers of 12 bytes, borders of 16,
chunks rounded up to 8. A call is cut where the code goes from one loop to
the next (`pc`), so that realloc and memalign run the `__malloc` and `__free` that
everybody runs:

    CallMalloc, CallMemalign,     search ---------------> carve -> return to the program,
    CallShrink, CallGrow           SearchFound, or          |      align (AlignKept, AlignMoved)
                                   SearchFailed -> sbrk     |      or copy (ReallocCopy) -+
                                   (SbrkOs, SbrkHeap,   CarveSplit,                       |
                                    SbrkSwitch,         CarveWhole                        |
                                    SbrkFailed)                                           |
    CallFree ---------------------------------------------------------> free <------------+
                     FreeRefused, or FreeAlone, FreeAfter -> merge
                                   MergeLink, MergeBorder, MergeBefore -> return

`CallKeep` and `CallExtend` are the two ways realloc leaves a block in place.
calloc is malloc with the block cleared, and `realloc (p, 0)` is free. The loops
over the list are written by where they stop (`StopsAt`, `SearchFound`). Where
the code tests that two chunks do not overlap and returns if they do
(`malloc.c:179`, `194`, `220`, `253`), the model does the same: it leaves the chunk
unlinked, and the invariants say that this never happens. `assert` is off in
malloc.c (`NDEBUG`) and on in realloc.c, where failing goes to `pc = "abort"`.

`Init` chooses what `_crtinit` set up: everything from GEMDOS (`"malloc"`), GEMDOS
first and then the own heap (`"split"`), only the own heap (`"heap"`). GEMDOS
Malloc is external: any place in `OsBases` not in use, or none. HeapAlloc compares
with the stack pointer, so that is any member of `StackPtrs`.

`Allocator` is what a program may rely on, over `live` alone: a new block is apart
from all others, and each call changes only the block it names. `Malloc` is checked
to implement it (`ImplementsAllocator`).

### Unnamed semaphores: `Semaphore`, `MCSemaphore`, `SemaphoreProofs`

A `sem_t` is a word `max_count` that every process reads and writes without a
lock, and a kernel semaphore. Each access to either is one action. The library
is compiled with -O2 (`configvars:143`), so that a test of `max_count` followed by
`++` or `--` with no call in between is one load and one store (`reg` is the
register), and a `--` after a call is one read-modify-write instruction. Psemaphore
is external: binary, owned by its creator at first, refused to its owner, released
only by its owner. `sem_destroy` passes the address of a local variable where a name
is expected, so that no kernel semaphore goes away: a `sem_init` that draws the
same name again fails. The clock counts half milliseconds, which lets the rounding
of the timeout to milliseconds go both ways.

### Named semaphores: `NamedSemaphore`, `MCNamedSemaphore`, `SemaphoreProofs`

One name: its file in U:\SHM, the block attached to it, `io_count`, the kernel
semaphore, the child that `sem_unlink` forks. `sem_close` and `sem_unlink` call
`sem_open`, so each of them is several steps. The child ends by returning into the
program as a second process (`sem_unlink.c:75`); what the program does then is not
modelled. It frees the block before it deletes the file, so that the name may be
opened in between; freed memory holds any value. `children` counts who waits for a
block, `deleting` who is between the two steps. The kernel semaphore may exist at the
start: its name is the first four letters only, and another semaphore may have them.
Fcreate is taken not to replace an existing file (external). `MaxActive` bounds how
many processes are inside a call at once; the children run beside them in any case.
No name of this module is one of `Semaphore`, so that one module of proofs extends both.

### RPC over UDP: `Datagrams`, `ClntUdp`, `SvcUdp`, `RpcUdp`, `MCRpcUdp`, `RpcProofs`

`Datagrams` is the network (external): a set of datagrams that may stay for ever
(lost), leave in any order, and stay when delivered (repeated). `ClntUdp` is
`clntudp_call`: the id is incremented in the out buffer, the call is sent, `poll`
returns nothing for `cu_wait` and the call is sent again until the time waited
reaches the timeout; a reply is taken when its first word is that id; a refused call
may be made again under the next id after a refresh of the credentials. `SvcUdp`
is `svcudp_recv`, the dispatch of `svc_getreq_common`, `svcudp_reply` and the
cache: a node of `uc_fifo` is known by its place, chains are sequences of places,
buffers have identities, since a cached reply is kept by exchanging buffers.
`uc_last` is the program, version, procedure and address `cache_get` saved when
it last found nothing. `RpcUdp` joins them.

### Streams: `Stream`, `ByteFile`, `MCStream`, `StreamProofs`, `StreamRefinement`

`Stream` is one `FILE` over a regular file: the buffer with `__bufp`, `__get_limit`
and `__put_limit`, `__target` and `__offset`, pushback, the flags for end of file and
error, line buffering, append. The calls are whole actions: getc and
`fillbuf`, putc and `flushbuf`, fread, fwrite, ungetc, fflush, fseek, ftell, rewind,
clearerr, fclose and exit, each with what `__flshfp`, `init_stream`, `seek` and
the default room functions do under it. The disk may be full: a write then takes a part
of the data and fails. `ByteFile` is what
the program is promised: a sequence of bytes and one position in it, on which each call
has the result the standard says. `ImplementsByteFile` maps the file, the buffer not yet written, the
offset and the pushback to that.

`Careful = TRUE` (`Wary`, `Inside` and the guards that name it) leaves out calls after
which the code is known to do something else: going on after end
of file on an update stream (`internals.c:385`, the run `stream_eof`), end of file on
an unbuffered stream (`internals.c:666`), seeking from the current position after
ungetc, seeking an update stream beyond its end, clearing the error after
a write that failed, pushing back after an unbuffered write failed, update streams with line buffering, append without a buffer and
ftell on append, fwrite of what does not fit after a flush that failed
(`fwrite.c:167`, `187`), closing when the last flush fails, and setvbuf after reading.

### Login records: `Utmp`, `MCUtmp`, `UtmpProofs`

The utmp file is a sequence of units, two to a record, so that a write to a full disk
can stop half way. Each process has a descriptor, `file_offset` and `last_entry`
(`u[p]`). pututline is the steps search, lock, place, trim, write, undo, unlock; others run
between them, and a process may die. `F_SETLK` does not wait and its result is not looked at:
`Lock` may leave the lock with somebody else. `Careful = TRUE` keeps programs to
`setutent`, at most a search for the line, and pututline, and `Owns` gives each line to one
process, as login and getty do.

### Record marking: `RecordStream`, `Records`, `MCRecordStream`, `RecordStreamProofs`

Both ends of one connection of `xdr_rec.c`. A word is a byte count, a value a tag. The
sending half is putlong, putbytes, inline, endofrecord and `flush_out` with fragment
headers reserved in the buffer; the receiving half is getlong, getbytes, inline, skiprecord,
eof and the chain `get_input_bytes`, `fill_input_buf`, `set_input_fragment`, with `in_base`,
`in_finger`, `in_boundry`, `fbtbc` and `last_frag`. The connection delivers any
part of what was sent. `Records` is a sequence of records, written at one end and read
at the other; `ImplementsRecords` maps fragments and buffers to it.

### The alarm timer: `Alarm`, `MCAlarm`, `SignalProofs`

One process, its alarm timer, handler and mask of SIGALRM; `sleep` and `lckpwdf` each
in the steps of their kernel calls, between which time passes (`Tick`), the alarm
arrives (`Deliver`) or another process takes or gives up the lock. In lckpwdf sigaction,
sigprocmask (`SetupFails`) and the lock itself may fail; what can fail before them has changed
nothing yet. `due` is when the
program asked its alarm for, counted down with the clock. `unsigned long` is `WordSize` wide.
`MaxLate` bounds how late a process runs after its alarm.
`Heedless` names what a program or a machine may do that the code does not survive: a sleep that
ends late (`"sleep"`, `sleep.c:88`), an alarm set when lckpwdf is called (`"lock"`,
`lckpwdf.c:144`), SIGALRM blocked in sleep (`"blocked"`).

### Signals, threads and exit on TOS: `TosSignals`, `MCTosSignals`, `SignalProofs`

Where the kernel has no signals, `_sigmask`, `_sigpending` and the handlers are the
library's. The model is a stack of frames: a call of the program, `kill`,
`sigsetmask` going through the set of pending signals it read, a handler (which runs
under the mask as it is: `kill` saves none), sigsetjmp with and without the mask and
siglongjmp, tfork running its function on the spot and
its `exit` jumping back, exit running `_at_exit`. The ghost `owed` is an account of actions: a
raise is owed one, an action pays it (`Due`). `DeliveredOnce` says that nothing is paid
twice, `NothingLost` that what is owed is pending or will be sent. `Careless` names what breaks
them: a handler that unmasks while a set read before is gone through (`"unmask"`,
`sigsetmask.c:22`), ignoring a signal that is pending (`"ignore"`, `kill.c:45`), jumping
to a place whose mask (the present one, if none was saved) leaves a pending signal
unblocked, or leaves behind a `sigsetmask` with unblocked signals to send (`"jump"`,
`setjmp.S:80`).

### The RPC server over TCP: `SvcRun`, `MCSvcRun`, `RpcProofs`

A call is a header and arguments, which may arrive apart: `svctcp_recv` reads the header and
skips what is left of the record before, the routine may read the arguments, and `xdrrec_eof`
in `svctcp_stat` skips them otherwise. Each of the three may have to wait for them in `readtcp`,
which fails after 35 seconds. A connection `xdrrec_eof` gave up on is left registered and marked
dead; it ends in a later round.
`xports` and `svc_pollfd` of `svc.c`; `svc_run` in steps: test for the end, copy, poll,
the loop of `svc_getreq_poll` over the copy, `svc_getreq_common` with the
rendezvous and the connections of `svc_tcp.c`, destruction of transports by
routines, `svc_exit` from anywhere. Sockets and peers are the kernel (external): they
connect, send calls (or what is none) and hang up at any time, and a closed descriptor is used again by the next
accept. poll is `Fpoll`, or its emulation by `Fselect` up to a limit (`poll.c:81`).
`Careless` names what the server does not survive: `svc_exit` from a handler between test and
poll (`"signal"`, against `svc_run.c:47`), a routine that destroys its own transport
(`"own"`, `svc.c:464`), one that destroys a transport further on in the copy (`"stale"`),
urgent data under `Fselect`, which counts one descriptor twice (`"urgent"`). No name of this
module is one of `RpcUdp` (hence `RunInit`, `RunNext`, `RunSpec`), so that one module of
proofs extends both.

## 4. What the runs show

| Run | What it asks | Result |
|---|---|---|
| `malloc` | the heap over GEMDOS blocks, in its own area beside the stack, and from one to the other; memalign; `_mallocChunkSize` | sound, nothing lost but what memalign leaks by design; implements `Allocator` |
| `semaphore` | two processes, all calls, all interleavings | exclusion, cap and end of timed waits hold |
| `semaphore_named` | three processes and one name: opens, closes and unlinks one at a time, children beside them | whoever has it open is counted |
| `semaphore_unlink` | "Fork a process to handle the actual unlinking" (`sem_unlink.c:44`) | `sem_close` raises the count by what it lowers: the child never ends |
| `rpc_udp` | two handles with distinct ids, a caching server, a network that loses, repeats and reorders | chains, buffers, own replies hold; calls return |
| `stream` | every mix of calls on a stream in ten modes | implements `ByteFile`; end of file means the end; no byte nobody put |
| `stream_eof` | "put in the buffer after it has been flushed" (`internals.c:195`) | after end of file, bytes nobody put reach the file |
| `utmp` | a process that appends and one that replaces, a full disk, half a record at the end, a crash | records whole, one per line, entries kept, lock given back |
| `record` | fragments cut by the sender's buffer, delivery cut anywhere | implements `Records`; longs aligned; no fragment the receiver refuses; calls return |
| `alarm` | sleep, lckpwdf and the program's alarm in one process | alarm, handler and mask come back; the lock is what the call says; calls return |
| `tos_signals` | handlers, masks, threads and exit nested | delivered once, none lost, none left, exit runs every function once |
| `svc_run` | connections that come, go and are replaced during a round, kernels with and without `Fpoll` | nothing read that is gone, nothing poll can not see, calls served, `svc_exit` ends it |

A run that finds a violation checks one property, taken from a comment of
the source. Each property of the other runs has a mutant, an operator beside the one
it replaces that errs the way the code might; TLC finds the property violated when
the mutant takes its place.

### What does not hold

Some statements the source makes, or a reader would expect, are in the modules and are
not true of the code. Beside the two runs above, TLC shows them like this:

| Statement | Where it fails | How to see it |
|---|---|---|
| `Coalesced`: "merge before if possible" | `malloc.c:190`, not for the last entry | `INVARIANT Coalesced` in `MCMalloc.cfg` |
| `RelayAligned`: "If we need less alignment than we give anyway" | `posix_memalign.c:20`: alignment 8 is relayed, blocks are at 4 modulo 8 | `Alignments = {8}`, `INVARIANT RelayAligned` in `MCMalloc.cfg` |
| `FailedPostsLeaveNoTrace`: "Rollback on error" | `sem_post.c:32`, between load and store of another post | `Ops = {"post"}`, `INVARIANT FailedPostsLeaveNoTrace` in `MCSemaphore.cfg` |
| `OpensCounted` for calls that overlap | `sem_open.c:104`, `sem_close.c:37` | `MaxActive = 2` in `MCNamedSemaphore.cfg` |
| `AtMostOnce`: "execute-at-most-once" | `svc_udp.c:288` returns TRUE after it resent: dispatched again | `PROPERTY AtMostOnce` in `MCRpcUdp.cfg` |
| `IndexRespected`: "Index into cache is xid, proc, vers, prog and address" | `svc_udp.c:565` compares with the key saved at the last miss | `XidStart <- EqualXids`, `INVARIANT IndexRespected` in `MCRpcUdp.cfg` |
| `OnePerLine`, `EntryKept` for any order of calls | `utmp_file.c:357`: `last_entry` and `file_offset` are those of an older call | `Careful = FALSE` in `MCUtmp.cfg` |
| `EntryKept`, `OnePerLine` with two processes that append | `utmp_file.c:363`: the lock was refused and the call goes on, so the one writes over the other, or both append | `Owns <- MCOwnsBoth` in `MCUtmp.cfg` |
| `AlarmKept` for a process that wakes late | `sleep.c:88`: `alarm_sec -= n - remain` wraps | `Heedless = {"sleep"}` in `MCAlarm.cfg` |
| `AlarmKept` across lckpwdf, or with SIGALRM blocked | `lckpwdf.c:144`, `sleep.c:83` | `Heedless = {"lock"}`, `{"blocked"}` |
| `DeliveredOnce`; `NothingLost`, `NothingLeft` | `sigsetmask.c:22`; `kill.c:45`, `setjmp.S:80` | `Careless = {"unmask"}`; `{"ignore"}`, `{"jump"}` in `MCTosSignals.cfg` |
| `ExitEnds`, `NothingMissed`; `NoWildRead`, `CallsServed` | `svc_run.c:47`; `svc.c:464`, `poll.c:81` | `Careless = {"signal"}`; `{"own"}`, `{"stale"}`, `{"urgent"}` in `MCSvcRun.cfg` |

### Bounds

- Heap: requests of 4 and 34 bytes become chunks of 16 and 48, so that a block of one
  page (64 bytes, 48 behind the border) is handed out whole by the one and split
  twice by the other; a grown `MINHUNK` gives blocks of two pages. `MaxLive` is 2, beside
  what a call in flight holds: a freed chunk still has a neighbour on both sides,
  the rest of its block and the other one. GEMDOS has memory on one side of the program only and runs
  out after two pages. The stack pointer is at one of two places, so HeapAlloc both
  succeeds and fails.
- Semaphores: two processes, `SEM_VALUE_MAX` 2, a clock
  of three half milliseconds; `MaxDrift` bounds how far below 0 the count may be when
  a post starts. The proofs need none of these.
- Named semaphores: three processes, two blocks and five calls for `OpensCounted`, one
  call at a time (`MaxActive` 1): enough to create, open, unlink, create again and close
  a handle of the first life. The unlinking run needs only two processes and two calls,
  a creation and an unlink.
- RPC over UDP: one call per handle, one repeated delivery, a cache of one reply, ids
  modulo 6 with one handle wrapping around, one refresh (the code has two). Ids 1 and 5
  fall in one hash chain. The cache of one reply is the smallest in which nodes are
  reused; the proofs are for every size.
- Stream: a buffer of two bytes and a file of four, so that every call meets a full, a
  partly used and an empty buffer, and a file of two buffers. Values are two characters,
  one of them the newline. The last call and its result are left out of the states TLC
  compares (`VIEW Unobserved`): no action reads them, no invariant speaks of them, and
  the refinement looks at them in the step that makes them, which TLC checks for every step.
- utmp: room for three records and a half, one of them there at the start and half of
  another behind it, so that a record written twice has room; one crash. A write that
  appends may stop half way, or write nothing, at any time. Only one of the processes has
  records to append, since `EntryKept` needs that (see above).
- Record stream: words of two bytes, an output buffer of a header and two words, an input
  buffer of two words, so that reads stop inside headers and inside longs, records
  need several fragments, and one fragment needs several reads. `Window` bounds how far the
  sender runs ahead; `Tags` tells values apart modulo 3.
- Alarm: four ticks to a second, alarms up to 5 seconds (before, at and after the
  end of a sleep of 1 or 2), a process up to one second late.
- TOS signals: a signal that ends the program by default and one that does not, two raises, five frames (a
  handler in a handler in sigsetmask), two functions for exit.
- RPC server: three descriptors, one of them listening, so that a descriptor is used
  again while another is open; three connections; a call and the header of another, or parts of calls on all three.
  `Fselect` sees the first two descriptors, or all.

### Fairness

The heap and the streams need none: nothing is promised beyond safety. In `Semaphore` a
process inside a call goes on (its loops call `sched_yield`, and the kernel is preemptive)
and the clock goes on; no program is made to call anything. The wait without a timeout
is not claimed to end. In `NamedSemaphore` calls and children go on and a program
closes what it opened (`UnlinkCompletes` would ask too much otherwise). In `RpcUdp` only
a client inside `clntudp_call` goes on, since `poll` returns within `cu_wait`; nothing is
asked of network and server. The source says (`clnt_udp.c:379`) that the time waited is
not counted when other datagrams arrive; the model lets only finitely many arrive, so
`CallReturns` is about a network that does not send strays for ever. In `Utmp` a process inside
a call goes on. In `RecordStream` a call that has begun goes on, and the connection delivers
what was sent. In `Alarm` the process runs, time
passes and a signal that is due is delivered. In `SvcRun` the server runs; peers do nothing they do not like.

`CHECK_DEADLOCK FALSE` is set where programs may stop calling (a bound on calls or on
connections, or every process blocked in the kernel for good, which the semaphores allow).

## 5. What is proved

**`MallocProofs`** proves, for every choice of the constants that meets
`SizeAssumption`, `PageAssumption` and `AddressAssumption` (the sets of addresses lie where
they can: not at 0, the stack pointer not above the stack, the heap's start not above
its end), `Spec => []HeapSound`, and from it the type invariant and most safety
properties `malloc` checks.

`FreeListExact` alone is not inductive: whether `__free` links a chunk depends on its
overlap tests, which depend on order and on disjointness; disjointness depends on the
list holding only free chunks, and on GEMDOS and the stack giving fresh
memory, hence on `ChunksOwned`; that depends on borders describing their
blocks (`BordersDescribeBlocks`, `BlocksHaveBorders`) and on where the own heap ends.
`CallSound` carries what a call has found out to its next step. `HeapSound` is the
conjunction. The proof has a lemma per action that changes the heap. Under them:

- the list: `InsertAscending`, `RemoveAscending`, `ListInserted`, `ListRemoved`,
  `InsertTwo`, `RemoveTwo`: what inserting and removing entries keeps;
- the chunk table: `Merged`, `MergedTable`, `Shrunk`, `ExtentsKept`, `Fresh`: joining
  neighbours, cutting a chunk and adding one keep all extents apart;
- the tests of the code: `NextIsAdjacent`, `PrevIsAdjacent`, `EndsAtHeapTop`,
  `NotAcross` say that its overlap tests can not fail, so no early return drops a
  chunk; `WholeBlock` says that equal sizes mean the whole block is free;
- giving back: `BlockReturned`, `HeapLowered`, `FreeReturns`, `FreeListed`.

`HeapSound` gives three more: `KeepsThePromise`, the refinement
(`Spec => ImplementsAllocator`: initial states map to initial states, each step to an
allocation, a release, a resize or nothing); `HeapMeetsStack` (`HeapAndStack`); and
`NothingOrphaned` (`NoOrphans`: every chunk not free is the program's, the call's, or one
memalign moved).

`NothingLost` (`Conservation`) is proved address by address: each lemma above also says that its
step keeps `Kept`, which is that a byte is in a chunk or leaked exactly when the system or the
own heap gave it. It needs one invariant that `HeapSound` does not contain, `HunkWhole`:
`HeapAlloc` moves the end of the own heap by whole units of 8 bytes, and `__sbrk` links only
what it was asked for, so that what `__malloc` asks of the own heap must be a whole number of
units or the rest is lost. That holds since requests are rounded to 8 and hunks to pages, hence
`PageAssumption`: a page is a multiple of 8 bytes (`getpagesize` returns 8192 unless the
system says otherwise).

**`SemaphoreProofs`** is in two parts. It proves `Spec => []SemSound` for any set of processes, names,
values and deadlines, and from it `TypeOK`, `CallSound`, `HolderOwns` and `CountCapped`.
The cap holds since a post stores one more than a value it loaded below the maximum, and
a wait stores less than one it loaded within it; exclusion holds since every process past
a wait owns the one kernel semaphore and only the owner's post removes it.
Of a named semaphore it proves `OpensCounted` for any finite number of processes, any blocks,
any number of calls and anything fresh memory may hold, as long as calls do not overlap
(`MaxActive` 1: with 2 it is false, see above), and with it a step property no run checks: no
step frees a block a process has open (`OpenBlocksKept`). `OpensSound` is inductive where
`OpensCounted` is not: `io_count` must also cover the opens `sem_close` and `sem_unlink` make
themselves and have yet to take back (`Counted`), the register of `sem_close` must still agree
with memory, and a block that is being created must be known to nobody else, since its count
is anything at first.

**`RpcProofs`** is in two parts, the second about `SvcRun`. `CacheIsSound` holds for every cache size, every number of
handles, and whichever ids they drew; it gives `ChainsHoldNodes` and `RepliesKept`. Its
invariant `CacheShape` says that a place holds one node, that a node is in one chain, once, the
chain of its own id, that the buffer of a place never used is not in use, and that no
two of the transport and the nodes share a buffer: the exchange of buffers in `cache_set`
needs all of it. `RpcIsSound` and `RepliesAreOwn` (`OwnReply`) need `XidsApart`: within
the ids the handles can use up, no two handles have one in common and none comes back to its
own. `CallKnown` is what holds of a call wherever it is met, in the network, in
the server, in a buffer of the cache: its id lies between the handle's first and its
present one, and if it is the present one it is the present call. A resent reply has the
id of the call it answers (`HitKnown`), hence the same handle. `IdsCounted` bounds the ids used
by the calls made and the refreshes left.
Of `SvcRun` it proves, for any number of descriptors, connections and calls, any limits
of `Fselect` and `Careless = {}`, `NoWildRead` and `NothingMissed`. The slots of
`svc_pollfd` name each registered descriptor exactly once (`SlotsExact`); the copy agrees with
them while svc_run waits (`CopyFresh`); in the round an entry reported and not yet looked at
still has its transport, and `fds_found` counts no more than are left, so that the loop
ends within the copy (`RoundSound`).

**`RecordStreamProofs`** proves the bounds of both buffers and from them `WordsAligned` and
`NoEmptyFragment`, for any word, any buffers of whole words and any cut of the bytes. From
there it proves `ImplementsRecords`: each step of either end is a step of `Records` or changes
nothing it sees. The mapping parses the bytes between writer and reader into data and ends of
records (`Unread`). `After(q, z)` is where the parser comes from `q` behind the bytes `z`;
`ParsedIsAfter` shows that the recursive definition finds just that, and `AfterBoth` that what lies
behind a cut can be parsed from there, which is why buffers and partial reads do not show. The
invariant `Framed` says of the bytes from the reader's place to the header still open in the
sender's buffer that they end between two fragments, that a header that is due is an
accepted header, and that the bytes of a fragment are data (`Ok`); that the open fragment holds
data alone; and that a header is read in part only between fragments that are not the
last. Without `Ok` the reader could take a header for data, without the last part it could
report the end of a record while holding a piece of the next one's header. The
parser is a function on bytes one by one, and what it computes is shown by the least byte where it
would differ, not by an induction theorem. One assumption is about the specification
alone: `EOR`, which marks ends, is not a datum.

**`SignalProofs`** is in two parts. Of `Alarm` it proves, for any alarms, sleeps and lateness and
every `Heedless`, that handler and
mask come back (`SignalStateRestored`) and that the lock is what the call says (`LockHeld`).
For `Heedless = {}` it proves `AlarmKept` too. Its invariant `AlarmTracked` relates three
clocks at every step of `sleep`: what the timer holds (`TimerKnown`), what sleep has measured and
will give back (`SleepKnown`), and when the program's alarm is due; each conversion between
seconds and ticks loses less than a second, and what is lost does not add up since sleep
converts once each way.

Of `TosSignals` it proves `ExitRunsAll` for every `Careless`, and `DeliveredOnce`, `NothingLost` and
`NothingLeft` for `Careless = {}`, for any signals and any depth of handlers, threads and exits.
`Accounts` is the invariant of the latter three. It speaks of the whole stack: in each thread just
the signals that are pending, or that a `sigsetmask` further down has yet to send, have a raise
to their credit, and one only (`Accounted`), the same holds of what `tfork` saved of the parents (`Parents`), and
no two frames will send the same signal (`Apart`). `sigsetmask` goes through the signals in order,
so that a frame's set shrinks before the handler runs. `OneExit` (`ExitCountsDown`) says how far exit has come when it was
called once; if a function of `_at_exit` calls exit again, it says nothing.

**`UtmpProofs`** proves `RecordsWhole`, `OnePerLine` and `EntryKept` for any number of
processes, lines, units of disk and crashes, with writes that stop anywhere and locks that are
refused at any time. It needs two hypotheses, and both are what the runs of section 4 show to be
needed: `Careful`, and `OnlyNew(a)`: no two processes write records of one line, and only process
`a` adds records for lines that have none (`MCUtmp` evaluates it for its instance). The
lock is no help to the argument, since nobody looks whether it was granted. The invariant
`FileSound` says of the file that it is whole records, one for a line, and perhaps half a record
more (`Sound`), and of each process what its `file_offset` and `last_entry` still say about the
file at each step of pututline (`Idle`, `Putting`): the record found is still there, or there is
none and the place is the file's end. That the place stays the end while `a` is
between `place` and `write` is what `OnlyNew` is for.

**`StreamProofs`** proves `NoJunk`, `EofIsTheEnd` and `TypeOK` for any characters, file, modes,
size of the buffer and room on the disk, for programs that are `Careful`: without that
hypothesis `NoJunk` is false, as the run `stream_eof` shows. Neither is inductive. Whether a
byte of the buffer is data depends on where the three limits are, what the target and
the offset say of the kernel's position depends on whether the stream reads or writes, and a
flush relies on both. `Sound` is the invariant, with a case for each direction: input
(`Reads`: the kernel stands at the end of what the buffer holds of the file), output
(`Writes`), output that was flushed, neither, and a stream whose last write failed (`Stuck`:
the disk is full where the next write would go, so that no retry can change the
file). Below them are `Known` (target, offset and kernel), `Clean` (nothing below a limit is
what malloc left) and `Ended` (at end of file the buffer stands for nothing). A call is one
composition of operators, so the proof goes along the code, not along steps: there is a lemma for
each operator (`SysWriteDoes`, `WriteDataDoes`, ...: what it does to the fields) and one for each
call. The loops of fread and fwrite are functions on the number of rounds, whose
invariant is proved by induction on it.
The hypotheses on the constants are the code's: EOF is no character and not 0, the sizes are
numbers, and a mode of `fopen` reads or writes.

**`StreamRefinement`** proves `ImplementsByteFile`, for the same constants and careful programs, and for
modes that are `Modest`: no stream that reads is line buffered, and none that appends is without a
buffer. Those are the streams section 3 leaves out, and no mode of `MCStream` is one of them: for them the
code does something else. It takes more than `Sound`, which says where the limits are and not
what is between them. `Honest` adds that: while a program reads, the buffer up to `__get_limit` is the
file from the target on (`Match` from 0); while it writes, only what lies behind `__bufp` is,
since what is before it is the output the file has not got (`Match` from `__bufp`, and `Flat`:
an appending stream with output has no input in the buffer); and without a buffer the target is where the
kernel is (`Bare`). `RefInv` is both. `Outcome` is the file as it will be after a flush, `PlaceOf`
the position and `Back` the character pushed back: the refinement mapping, as operators on a
stream, so that each operator of the model has a lemma that says what it does to the three.
Output goes through `Carried`: after any of putc, fwrite, a flush or a
piece of a loop, either the outcome is the outcome before with the data laid over it at the
position, or the stream is stuck, and the file differs from what it was only where
the data, or the output before it, would have changed it (`Part`). Such statements compose, which
is what fwrite of more than a buffer, and a newline that flushes, need. Input goes through
`Drew`: what was read, and what is left to read, is what was left before. The last
layer has a lemma for each call (`GetcStep` to `FopenStep`) that says which action of `ByteFile` it
is, or that it is `Fail`.

Only model-checked: liveness, which is beyond the prover. External parts are
assumptions of all of it: GEMDOS hands out unused memory, Psemaphore is binary and owned, UDP does not
forge datagrams, a connection keeps order, descriptors are the lowest free ones.

## 6. What the models leave out

- Heap: contents of blocks, overflow of sizes near 2^32, signal handlers that
  re-enter it, direct calls of `sbrk`, realloc of a block memalign has moved (the code
  takes the user's size there for a chunk's), double frees and other misuse.
- Semaphores: calls racing `sem_init` and `sem_destroy`, which POSIX leaves undefined;
  checks of names; deadlines more than 24 days off, where `timeout_ms` wraps in 32 bits
  (`sem_waitcommon.c:43`; `ConstantAssumption` keeps `MaxClock` to half of that).
- RPC over UDP: junk and short datagrams, EINTR (both just go round the loop),
  `clntudp_control`, calls without arguments, destroying transports, a cache of size 0,
  enabling the cache from a dispatch routine.
- RPC over TCP: the client, local sockets, the callout list, `svc_getreqset`,
  authentication, malloc that fails, creating transports in a routine; getpos and setpos, and
  reads and writes that fail, of the record stream; signals that interrupt `readtcp`.
- Streams: text mode (`sysd-stdio.c:70`, chosen at `internals.c:39`: the model is a binary
  stream), memory streams, cookies, terminals and pipes, interrupted or short reads, more
  than one stream, formatted input and output.
- Login records: `updwtmp`, which file is used. Alarm: usleep, nanosleep, interval timers.
- TOS signals: SIGKILL, sigpause and sigsuspend, sigprocmask, `wait4`, exit within exit.
- Not modelled at all: popen, the resolver, poll in rounds and select (next in the plan);
  and the components that are one kernel call per function, pure
  functions over strings and numbers, or imported code (regular expressions, time zones,
  encryption, argp): no state of their own, or values a model checker can not
  cover. `PROJECT.json` has the reason for each.
