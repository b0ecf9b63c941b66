------------------------------- MODULE Malloc -------------------------------
(***************************************************************************)
(* The heap of MintLib: __malloc, __free, __realloc, __calloc, memalign    *)
(* and _mallocChunkSize over __sbrk.                                       *)
(*                                                                         *)
(* Memory is a range of byte addresses.  `chunk' maps the address of every *)
(* struct mem_chunk header the library still knows to its fields, `fl' is  *)
(* the list that starts at _mchunk_free_list, in link order.  One library  *)
(* call runs at a time (`pc' and `call' say which and how far it is); the  *)
(* long ones are cut where the code moves from one loop to the next, so    *)
(* that __realloc can run __malloc and __free the way the code does.       *)
(***************************************************************************)
EXTENDS Integers, FiniteSets, Functions, SequencesExt

CONSTANTS Requests,     \* sizes a program asks for, in bytes
          Alignments,   \* alignments it passes to memalign and valloc
          ChunkSizes,   \* arguments of _mallocChunkSize
          MinHunk,      \* MINHUNK at program start
          MaxHunk,      \* MAXHUNK at program start
          PageSize,     \* getpagesize()
          OsBases,      \* addresses at which GEMDOS Malloc may place a block
          OsEnd,        \* first address above the memory of the machine
          HeapStart,    \* _heapbase as _crtinit sets it: end of the bss
          HeapTop,      \* _heapbase + _stksize at program start
          StackPtrs,    \* addresses the stack pointer may have in HeapAlloc
          Modes,        \* how _crtinit set up the process, see Init
          MaxLive       \* bound: blocks the program holds at a time

HDR              == 12  \* sizeof (struct mem_chunk)
MALLOC_ALIGNMENT == 8
BORDER_EXTRA     == 16
NULL             == 0

ASSUME SizeAssumption ==
  /\ Requests \subseteq Nat /\ Alignments \subseteq Nat \ {0}
  /\ ChunkSizes \subseteq Nat
  /\ MinHunk \in Nat /\ MaxHunk \in Nat /\ PageSize \in Nat \ {0}
  /\ MaxLive \in Nat

\* A page holds a whole number of the units HeapAlloc hands out.
ASSUME PageAssumption == PageSize % 8 = 0

ASSUME AddressAssumption ==
  /\ OsBases \subseteq Nat \ {NULL} /\ OsEnd \in Nat /\ StackPtrs \subseteq Nat
  /\ HeapStart \in Nat \ {NULL} /\ HeapTop \in Nat /\ HeapStart <= HeapTop
  /\ \A sp \in StackPtrs : sp <= HeapTop
  /\ Modes \subseteq {"malloc", "split", "heap"}

VARIABLES fl,         \* the free list: header addresses in link order
          chunk,      \* header address -> [valid, size, asize]
          region,     \* blocks GEMDOS gave this process: base -> size
          heapbase,   \* _heapbase, NULL when there is no own heap
          stksize,    \* _stksize
          split_mem,  \* _split_mem
          minhunk,    \* MINHUNK
          maxhunk,    \* MAXHUNK
          pc,         \* where the running call is
          call,       \* its arguments and locals
          live,       \* blocks the program holds: user address -> size
          lost        \* the bytes of moved memalign blocks nothing refers to

heap == <<fl, chunk, region, heapbase, stksize, split_mem>>
vars == <<fl, chunk, region, heapbase, stksize, split_mem, minhunk, maxhunk,
          pc, call, live, lost>>

-----------------------------------------------------------------------------
(* Arithmetic on sizes and addresses.                                      *)

\* (x + k - 1) & ~(k - 1), k a power of two
RoundUp(x, k) == ((x + k - 1) \div k) * k

\* Mutant: no room for the header.
ChunkSizeNoHeader(n) == RoundUp(n, MALLOC_ALIGNMENT)

\* The size of the chunk that serves a request of n bytes.
ChunkSize(n) == RoundUp(n + HDR, MALLOC_ALIGNMENT)

\* realloc moves a block only when it shrinks by more than this.
ShrinkSlack == RoundUp(2 * HDR, MALLOC_ALIGNMENT)

\* The bytes a header stands for.  memalign stores the user's size in the
\* header it moves up; everywhere else size counts the header too.
Extent(a) == IF chunk[a].valid = "MOVED" THEN HDR + chunk[a].size
                                         ELSE chunk[a].size

\* The n bytes from address a on, and those of the chunk headed at a.
Bytes(a, n)   == a..(a + n - 1)
ChunkBytes(a) == Bytes(a, Extent(a))

Put(f, a, v) == [x \in DOMAIN f \cup {a} |-> IF x = a THEN v ELSE f[x]]
Drop(f, a)   == [x \in DOMAIN f \ {a} |-> f[x]]

\* Mutant: a header that does not count itself.
HeaderNotCounted(v, sz) == [valid |-> v, size |-> sz - HDR, asize |-> 0]

Header(v, sz) == [valid |-> v, size |-> sz, asize |-> 0]
Border(sz)    == [valid |-> "BORDER", size |-> BORDER_EXTRA, asize |-> sz]

-----------------------------------------------------------------------------
(* The two loops over the free list, by where they stop.                   *)

\* Mutant: a search that takes any chunk.
FitsAny(a, n) == chunk[a].valid # "BORDER"

\* The walk "while (q && q < a)": k is the place of the first entry that is
\* not below a, Len(fl) + 1 when the walk runs off the end.
StopsAt(k, a) ==
  /\ \A j \in 1..(k - 1) : fl[j] < a
  /\ k <= Len(fl) => fl[k] >= a

Fits(a, n) == chunk[a].size >= ChunkSize(n) /\ chunk[a].valid # "BORDER"

-----------------------------------------------------------------------------
(* __malloc                                                                *)

\* Arguments and locals of a call: op is the entry point, n the argument of
\* __malloc, size and align those of the program, r the header of the block to
\* resize or free, q the chunk __malloc works on, sz the argument of __sbrk.
Call(op, n, size, align, r) ==
  [op |-> op, n |-> n, size |-> size, align |-> align, r |-> r, q |-> NULL, sz |-> 0]

Idle == Call("none", 0, 0, 1, NULL)

Return == pc' = "idle" /\ call' = Idle

EnterMalloc(op, n, size, align, r) ==
  pc' = "search" /\ call' = Call(op, n, size, align, r)

\* calloc clears the block it gets and is malloc in every other respect.
CallMalloc(n) ==
  /\ pc = "idle" /\ Cardinality(DOMAIN live) < MaxLive
  /\ EnterMalloc("malloc", n, n, 1, NULL)
  /\ UNCHANGED <<heap, minhunk, maxhunk, live, lost>>

\* First fit.
SearchFound ==
  /\ pc = "search"
  /\ \E k \in 1..Len(fl) :
       /\ Fits(fl[k], call.n)
       /\ \A j \in 1..(k - 1) : ~Fits(fl[j], call.n)
       /\ call' = [call EXCEPT !.q = fl[k]]
  /\ pc' = "carve"
  /\ UNCHANGED <<heap, minhunk, maxhunk, live, lost>>

OwnHeap == ~split_mem /\ heapbase # NULL

\* No chunk fits: choose how much to ask the system for.
SearchFailed ==
  /\ pc = "search"
  /\ \A k \in 1..Len(fl) : ~Fits(fl[k], call.n)
  /\ LET n     == ChunkSize(call.n)
         exact == OwnHeap \/ n + BORDER_EXTRA > minhunk
         sz    == IF ~exact THEN minhunk
                  ELSE IF heapbase = NULL THEN n + BORDER_EXTRA ELSE n
     IN /\ call' = [call EXCEPT !.sz =
                      IF split_mem \/ heapbase = NULL THEN RoundUp(sz, PageSize)
                                                      ELSE sz]
        /\ minhunk' = IF ~exact /\ minhunk < maxhunk THEN 2 * minhunk ELSE minhunk
  /\ pc' = "sbrk"
  /\ UNCHANGED <<heap, maxhunk, live, lost>>

\* GEMDOS: Malloc hands out memory that is neither in the program's own area
\* (base page, text, data and bss lie right below HeapStart) nor in a block it
\* gave out before.
OsFree(b, sz) ==
  /\ b + sz <= OsEnd
  /\ b + sz < HeapStart \/ b >= HeapTop
  /\ \A g \in DOMAIN region : b + sz <= g \/ g + region[g] <= b

\* Mutant: the chunk behind the border is as large as the whole block.
LinkNewTooLarge(q, sz) ==
  \E k \in 1..(Len(fl) + 1) :
    /\ StopsAt(k, q)
    /\ chunk' = Put(Put(chunk, q, Border(sz - BORDER_EXTRA)),
                    q + BORDER_EXTRA, Header("FREE", sz))
    /\ fl' = InsertAt(InsertAt(fl, k, q + BORDER_EXTRA), k, q)
    /\ call' = [call EXCEPT !.q = q + BORDER_EXTRA]

\* Link the new memory at q into the list, behind a border when the library
\* may give it back to the system one day.
LinkNew(q, sz) ==
  \E k \in 1..(Len(fl) + 1) :
    /\ StopsAt(k, q)
    /\ IF heapbase = NULL
       THEN LET c == q + BORDER_EXTRA IN
            /\ chunk' = Put(Put(chunk, q, Border(sz - BORDER_EXTRA)),
                            c, Header("FREE", sz - BORDER_EXTRA))
            /\ fl' = InsertAt(InsertAt(fl, k, c), k, q)
            /\ call' = [call EXCEPT !.q = c]
       ELSE /\ chunk' = Put(chunk, q, Header("FREE", sz))
            /\ fl' = InsertAt(fl, k, q)
            /\ call' = [call EXCEPT !.q = q]

\* __sbrk from GEMDOS.
SbrkOs ==
  /\ pc = "sbrk" /\ ~OwnHeap
  /\ \E b \in OsBases :
       /\ OsFree(b, call.sz)
       /\ region' = Put(region, b, call.sz)
       /\ LinkNew(b, call.sz)
  /\ pc' = "carve"
  /\ UNCHANGED <<heapbase, stksize, split_mem, minhunk, maxhunk, live, lost>>

\* Mutant: HeapAlloc does not take the memory from the stack.
SbrkHeapOnly ==
  /\ pc = "sbrk" /\ OwnHeap
  /\ \E sp \in StackPtrs : heapbase + RoundUp(call.sz, 8) <= sp
  /\ heapbase' = heapbase + RoundUp(call.sz, 8)
  /\ LinkNew(heapbase, call.sz)
  /\ pc' = "carve"
  /\ UNCHANGED <<region, stksize, split_mem, minhunk, maxhunk, live, lost>>

\* __sbrk from the program's own heap: HeapAlloc.
SbrkHeap ==
  /\ pc = "sbrk" /\ OwnHeap
  /\ LET sz == RoundUp(call.sz, 8) IN
       /\ \E sp \in StackPtrs : heapbase + sz <= sp
       /\ heapbase' = heapbase + sz
       /\ stksize' = stksize - sz
  /\ LinkNew(heapbase, call.sz)
  /\ pc' = "carve"
  /\ UNCHANGED <<region, split_mem, minhunk, maxhunk, live, lost>>

\* GEMDOS has nothing left: from now on use the own heap, and try again.
SbrkSwitch ==
  /\ pc = "sbrk" /\ split_mem
  /\ split_mem' = FALSE
  /\ UNCHANGED <<fl, chunk, region, heapbase, stksize, minhunk, maxhunk, pc,
                 call, live, lost>>

\* No memory: __malloc returns NULL.  A realloc that shrinks keeps its block.
SbrkFailed ==
  /\ pc = "sbrk" /\ ~split_mem
  /\ OwnHeap => \E sp \in StackPtrs : sp < heapbase + RoundUp(call.sz, 8)
  /\ Return
  /\ live' = IF call.op = "shrink" THEN Put(live, call.r + HDR, call.size) ELSE live
  /\ UNCHANGED <<heap, minhunk, maxhunk, lost>>

\* Where __malloc goes when it has a block: back to the program, to memalign
\* or to the copy in realloc.
AfterCarve(q) ==
  CASE call.op = "malloc" ->
         Return /\ live' = Put(live, q + HDR, call.size)
    [] call.op = "memalign" ->
         pc' = "align" /\ call' = [call EXCEPT !.q = q] /\ UNCHANGED live
    [] OTHER ->
         pc' = "copy" /\ call' = [call EXCEPT !.q = q] /\ UNCHANGED live

\* Split the chunk and hand out its upper part; the lower one stays listed.
CarveSplit ==
  /\ pc = "carve"
  /\ LET n == ChunkSize(call.n)
         q == call.q
         a == q + chunk[q].size - n
     IN /\ chunk[q].size > n + HDR
        /\ chunk' = Put(Put(chunk, q, Header("FREE", chunk[q].size - n)),
                        a, Header("ALLOC", n))
        /\ AfterCarve(a)
  /\ UNCHANGED <<fl, region, heapbase, stksize, split_mem, minhunk, maxhunk, lost>>

\* Mutant: the chunk stays listed.
CarveWholeListed ==
  /\ pc = "carve"
  /\ chunk[call.q].size <= ChunkSize(call.n) + HDR
  /\ chunk' = Put(chunk, call.q, Header("ALLOC", chunk[call.q].size))
  /\ AfterCarve(call.q)
  /\ UNCHANGED <<fl, region, heapbase, stksize, split_mem, minhunk, maxhunk, lost>>

\* The remainder would be too small: hand out the chunk as it is.
CarveWhole ==
  /\ pc = "carve"
  /\ chunk[call.q].size <= ChunkSize(call.n) + HDR
  /\ \E k \in 1..Len(fl) : fl[k] = call.q /\ fl' = RemoveAt(fl, k)
  /\ chunk' = Put(chunk, call.q, Header("ALLOC", chunk[call.q].size))
  /\ AfterCarve(call.q)
  /\ UNCHANGED <<region, heapbase, stksize, split_mem, minhunk, maxhunk, lost>>

-----------------------------------------------------------------------------
(* memalign, aligned_alloc, posix_memalign and valloc                      *)

CallMemalign(align, size) ==
  /\ pc = "idle" /\ Cardinality(DOMAIN live) < MaxLive
  /\ EnterMalloc("memalign",
                 IF align <= MALLOC_ALIGNMENT THEN size ELSE size + align - 1,
                 size, align, NULL)
  /\ UNCHANGED <<heap, minhunk, maxhunk, live, lost>>

\* The pointer is good as it is.
AlignKept ==
  /\ pc = "align"
  /\ call.align <= MALLOC_ALIGNMENT \/ (call.q + HDR) % call.align = 0
  /\ Return
  /\ live' = Put(live, call.q + HDR, call.size)
  /\ UNCHANGED <<heap, minhunk, maxhunk, lost>>

\* The header moves up below the aligned pointer; free will not know it.
AlignMoved ==
  /\ pc = "align"
  /\ call.align > MALLOC_ALIGNMENT /\ (call.q + HDR) % call.align # 0
  /\ LET mem == RoundUp(call.q + HDR, call.align) IN
       /\ chunk' = Put(Drop(chunk, call.q), mem - HDR, Header("MOVED", call.size))
       /\ live' = Put(live, mem, call.size)
       /\ lost' = lost \cup (ChunkBytes(call.q) \ Bytes(mem - HDR, HDR + call.size))
  /\ Return
  /\ UNCHANGED <<fl, region, heapbase, stksize, split_mem, minhunk, maxhunk>>

-----------------------------------------------------------------------------
(* __free                                                                  *)

EnterFree(r) == pc' = "free" /\ call' = Call("free", 0, 0, 1, r)

\* The program gives the block up; realloc (p, 0) is the same.
CallFree(u) ==
  /\ pc = "idle"
  /\ live' = Drop(live, u)
  /\ EnterFree(u - HDR)
  /\ UNCHANGED <<heap, minhunk, maxhunk, lost>>

\* A header memalign moved is not VAL_ALLOC: free does nothing.
FreeRefused ==
  /\ pc = "free" /\ chunk[call.r].valid # "ALLOC"
  /\ chunk' = Drop(chunk, call.r)
  /\ lost' = lost \cup ChunkBytes(call.r)
  /\ Return
  /\ UNCHANGED <<fl, region, heapbase, stksize, split_mem, minhunk, maxhunk, live>>

\* Where r would go, the entry q there, and whether the code takes q to be the
\* free chunk right after r.
TakesAfter(k, r) ==
  k <= Len(fl) /\ r + chunk[r].size >= fl[k] /\ chunk[fl[k]].valid # "BORDER"

\* No free chunk follows r: only mark it free.
FreeAlone ==
  /\ pc = "free" /\ chunk[call.r].valid = "ALLOC"
  /\ \E k \in 1..(Len(fl) + 1) : StopsAt(k, call.r) /\ ~TakesAfter(k, call.r)
  /\ chunk' = Put(chunk, call.r, Header("FREE", chunk[call.r].size))
  /\ pc' = "merge"
  /\ UNCHANGED <<fl, region, heapbase, stksize, split_mem, minhunk, maxhunk,
                 call, live, lost>>

\* Merge r with the free chunk after it; give up when they overlap.
FreeAfter ==
  /\ pc = "free" /\ chunk[call.r].valid = "ALLOC"
  /\ \E k \in 1..(Len(fl) + 1) :
       /\ StopsAt(k, call.r) /\ TakesAfter(k, call.r)
       /\ LET r == call.r
              q == fl[k]
              sound == r + chunk[r].size = q
              size  == IF sound THEN chunk[r].size + chunk[q].size ELSE chunk[r].size
              freed == Put(chunk, r, Header("FREE", size))
          IN /\ chunk' = IF sound THEN Drop(freed, q) ELSE freed
             /\ fl' = IF sound THEN RemoveAt(fl, k) ELSE fl
             /\ pc' = IF sound THEN "merge" ELSE "idle"
             /\ call' = IF sound THEN call ELSE Idle
  /\ UNCHANGED <<region, heapbase, stksize, split_mem, minhunk, maxhunk, live, lost>>

\* The code joins r to the entry before it only when an entry follows.
TakesBefore(k, r) ==
  k <= Len(fl) /\ k > 1 /\ fl[k - 1] + chunk[fl[k - 1]].size >= r

\* The chunk ends where the unused part of the own heap starts.
AtHeapTop(end) == OwnHeap /\ heapbase <= end /\ end < heapbase + stksize

\* Nothing to join: the chunk goes back to the own heap when it is the last
\* one there, and into the list otherwise.
MergeLink ==
  /\ pc = "merge"
  /\ \E k \in 1..(Len(fl) + 1) :
       LET r == call.r
           end == r + chunk[r].size
       IN /\ StopsAt(k, r) /\ ~TakesBefore(k, r)
          /\ IF AtHeapTop(end)
             THEN /\ heapbase' = IF end = heapbase THEN r ELSE heapbase
                  /\ stksize' = IF end = heapbase THEN stksize + chunk[r].size
                                                  ELSE stksize
                  /\ chunk' = IF end = heapbase THEN Drop(chunk, r) ELSE chunk
                  /\ UNCHANGED fl
             ELSE /\ fl' = InsertAt(fl, k, r)
                  /\ UNCHANGED <<chunk, heapbase, stksize>>
  /\ Return
  /\ UNCHANGED <<region, split_mem, minhunk, maxhunk, live, lost>>

\* Mutant: Mfree without looking at ALLOC_SIZE.
MergeBorderAlways ==
  /\ pc = "merge"
  /\ \E k \in 2..Len(fl) :
       LET p == fl[k - 1] IN
       /\ StopsAt(k, call.r) /\ TakesBefore(k, call.r) /\ chunk[p].valid = "BORDER"
       /\ fl' = RemoveAt(fl, k - 1)
       /\ chunk' = Drop(Drop(chunk, call.r), p)
       /\ region' = Drop(region, p)
  /\ Return
  /\ UNCHANGED <<heapbase, stksize, split_mem, minhunk, maxhunk, live, lost>>

\* r follows a border: give the block back when r is all of it.
MergeBorder ==
  /\ pc = "merge"
  /\ \E k \in 1..(Len(fl) + 1) :
       LET r == call.r
           p == fl[k - 1]
       IN /\ StopsAt(k, r) /\ TakesBefore(k, r) /\ chunk[p].valid = "BORDER"
          /\ IF p + chunk[p].size # r THEN UNCHANGED <<fl, chunk, region>>
             ELSE IF chunk[p].asize = chunk[r].size
             THEN /\ fl' = RemoveAt(fl, k - 1)
                  /\ chunk' = Drop(Drop(chunk, r), p)
                  /\ region' = Drop(region, p)
             ELSE fl' = InsertAt(fl, k, r) /\ UNCHANGED <<chunk, region>>
  /\ Return
  /\ UNCHANGED <<heapbase, stksize, split_mem, minhunk, maxhunk, live, lost>>

\* r follows the free chunk p: p grows, and goes back to the own heap or, with
\* the border before it, to GEMDOS when nothing else is left of the block.
MergeBefore ==
  /\ pc = "merge"
  /\ \E k \in 1..(Len(fl) + 1) :
       LET r == call.r
           p == fl[k - 1]
           size == chunk[p].size + chunk[r].size
           end == p + size
           joined == Drop(Put(chunk, p, Header("FREE", size)), r)
       IN /\ StopsAt(k, r) /\ TakesBefore(k, r) /\ chunk[p].valid # "BORDER"
          /\ IF p + chunk[p].size # r
             THEN UNCHANGED <<fl, chunk, region, heapbase, stksize>>
             ELSE IF AtHeapTop(end)
             THEN /\ chunk' = IF end = heapbase THEN Drop(joined, p) ELSE joined
                  /\ fl' = IF end = heapbase THEN RemoveAt(fl, k - 1) ELSE fl
                  /\ heapbase' = IF end = heapbase THEN p ELSE heapbase
                  /\ stksize' = IF end = heapbase THEN stksize + size ELSE stksize
                  /\ UNCHANGED region
             ELSE IF k > 2 /\ chunk[fl[k - 2]].valid = "BORDER"
                           /\ chunk[fl[k - 2]].asize = size
             THEN /\ chunk' = Drop(Drop(joined, p), fl[k - 2])
                  /\ fl' = RemoveAt(RemoveAt(fl, k - 1), k - 2)
                  /\ region' = Drop(region, fl[k - 2])
                  /\ UNCHANGED <<heapbase, stksize>>
             ELSE chunk' = joined /\ UNCHANGED <<fl, region, heapbase, stksize>>
  /\ Return
  /\ UNCHANGED <<split_mem, minhunk, maxhunk, live, lost>>

-----------------------------------------------------------------------------
(* __realloc                                                               *)

\* Shrink by moving: malloc, copy, free.
CallShrink(u, n) ==
  /\ pc = "idle" /\ n > 0
  /\ chunk[u - HDR].size > ChunkSize(n) + ShrinkSlack
  /\ EnterMalloc("shrink", n, n, 1, u - HDR)
  /\ UNCHANGED <<heap, minhunk, maxhunk, live, lost>>

\* The block is large enough and not much too large: it stays.
CallKeep(u, n) ==
  /\ pc = "idle" /\ n > 0
  /\ chunk[u - HDR].size <= ChunkSize(n) + ShrinkSlack
  /\ chunk[u - HDR].size >= ChunkSize(n)
  /\ live' = Put(live, u, n)
  /\ UNCHANGED <<heap, minhunk, maxhunk, pc, call, lost>>

\* The entry at k is taken for a free chunk right after p, big enough for n.
CanExtend(k, p, n) ==
  TakesAfter(k, p) /\ chunk[p].size + chunk[fl[k]].size >= ChunkSize(n)

\* Grow into the chunk that follows; the assertion stops the program when that
\* chunk does not start where the block ends.
CallExtend(u, n) ==
  /\ pc = "idle" /\ n > 0
  /\ chunk[u - HDR].size < ChunkSize(n)
  /\ \E k \in 1..Len(fl) :
       LET p == u - HDR
           t == fl[k]
           sound == p + chunk[p].size = t
       IN /\ StopsAt(k, p) /\ CanExtend(k, p, n)
          /\ pc' = IF sound THEN "idle" ELSE "abort"
          /\ chunk' = IF sound
                      THEN Drop(Put(chunk, p, Header("ALLOC",
                                        chunk[p].size + chunk[t].size)), t)
                      ELSE chunk
          /\ fl' = IF sound THEN RemoveAt(fl, k) ELSE fl
          /\ live' = IF sound THEN Put(live, u, n) ELSE live
  /\ UNCHANGED <<region, heapbase, stksize, split_mem, minhunk, maxhunk, call, lost>>

\* Grow by moving.
CallGrow(u, n) ==
  /\ pc = "idle" /\ n > 0
  /\ chunk[u - HDR].size < ChunkSize(n)
  /\ \E k \in 1..(Len(fl) + 1) :
       StopsAt(k, u - HDR) /\ ~CanExtend(k, u - HDR, n)
  /\ EnterMalloc("grow", n, n, 1, u - HDR)
  /\ UNCHANGED <<heap, minhunk, maxhunk, live, lost>>

\* Mutant: the size of the copy counts the header.
CopiedHeader == IF call.op = "shrink" THEN call.n ELSE chunk[call.r].size

\* The bytes memcpy carries over to the new block.
Copied == IF call.op = "shrink" THEN call.n ELSE chunk[call.r].size - HDR

\* Mutant: the old block is not freed.
ReallocCopyOnly ==
  /\ pc = "copy"
  /\ live' = Put(Drop(live, call.r + HDR), call.q + HDR, call.size)
  /\ Return
  /\ UNCHANGED <<heap, minhunk, maxhunk, lost>>

\* Copy to the new block, then free the old one.
ReallocCopy ==
  /\ pc = "copy"
  /\ live' = Put(Drop(live, call.r + HDR), call.q + HDR, call.size)
  /\ EnterFree(call.r)
  /\ UNCHANGED <<heap, minhunk, maxhunk, lost>>

-----------------------------------------------------------------------------

\* _mallocChunkSize
MallocChunkSize(siz) ==
  /\ pc = "idle"
  /\ minhunk' = siz /\ maxhunk' = siz
  /\ UNCHANGED <<heap, pc, call, live, lost>>

\* _crtinit: "malloc" is _stksize >= 0 (everything from GEMDOS), "split" is
\* _stksize = -1 (GEMDOS first, then the own heap), "heap" is _stksize < -1.
Init ==
  /\ fl = <<>> /\ chunk = <<>> /\ region = <<>>
  /\ \E m \in Modes :
       /\ split_mem = (m # "heap")
       /\ heapbase = IF m = "malloc" THEN NULL ELSE HeapStart
  /\ stksize = HeapTop - HeapStart
  /\ minhunk = MinHunk /\ maxhunk = MaxHunk
  /\ pc = "idle" /\ call = Idle
  /\ live = <<>> /\ lost = {}

\* Blocks realloc takes: those free takes too.
Resizable == {u \in DOMAIN live : chunk[u - HDR].valid = "ALLOC"}

Next ==
  \/ \E n \in Requests : CallMalloc(n)
  \/ \E n \in Requests, a \in Alignments : CallMemalign(a, n)
  \/ \E u \in DOMAIN live : CallFree(u)
  \/ \E u \in Resizable, n \in Requests :
       CallShrink(u, n) \/ CallKeep(u, n) \/ CallExtend(u, n) \/ CallGrow(u, n)
  \/ \E siz \in ChunkSizes : MallocChunkSize(siz)
  \/ SearchFound \/ SearchFailed
  \/ SbrkOs \/ SbrkHeap \/ SbrkSwitch \/ SbrkFailed
  \/ CarveSplit \/ CarveWhole \/ AlignKept \/ AlignMoved
  \/ ReallocCopy
  \/ FreeRefused \/ FreeAlone \/ FreeAfter
  \/ MergeLink \/ MergeBorder \/ MergeBefore

Spec == Init /\ [][Next]_vars

-----------------------------------------------------------------------------
(* What keeps the heap sound.                                              *)

\* The header that __free has taken but not linked yet.
InFlight == IF pc = "merge" THEN {call.r} ELSE {}

\* Blocks handed out by __malloc that the program does not hold (yet, or any
\* more).
InTransit == IF pc \in {"align", "copy"} THEN {call.q}
             ELSE IF pc = "free" THEN {call.r} ELSE {}

Valid(v) == {a \in DOMAIN chunk : chunk[a].valid \in v}

\* A byte of a block GEMDOS gave us and did not get back, or of the part of
\* the own heap that is in use.
Owned(x) ==
  \/ \E g \in DOMAIN region : g <= x /\ x < g + region[g]
  \/ heapbase # NULL /\ HeapStart <= x /\ x < heapbase

Places == {"idle", "search", "sbrk", "carve", "align", "copy", "free", "merge",
           "abort"}
Calls  == [op : {"none", "malloc", "memalign", "shrink", "grow", "free"},
           n : Nat, size : Nat, align : Nat \ {0}, r : Nat, q : Nat, sz : Nat]

\* The variables have their types.
TypeOK ==
  /\ fl \in Seq(Nat)
  /\ DOMAIN chunk \subseteq Nat
  /\ chunk \in [DOMAIN chunk -> [valid : {"FREE", "ALLOC", "BORDER", "MOVED"},
                                 size : Nat, asize : Nat]]
  /\ DOMAIN region \subseteq Nat /\ region \in [DOMAIN region -> Nat]
  /\ DOMAIN live \subseteq Nat /\ live \in [DOMAIN live -> Nat]
  /\ heapbase \in Nat /\ stksize \in Int /\ split_mem \in BOOLEAN
  /\ minhunk \in Nat /\ maxhunk \in Nat /\ lost \subseteq Nat
  /\ pc \in Places /\ call \in Calls

\* The free list is in ascending address order after every operation: __free
\* and __realloc find a chunk's neighbours by that order alone.
FreeListAscending ==
  \A i, j \in 1..Len(fl) : i < j => fl[i] < fl[j]

\* The list holds exactly the free chunks and the borders: no free chunk is
\* leaked by an early return of __free, no handed out chunk stays listed.
FreeListExact ==
  ToSet(fl) = Valid({"FREE", "BORDER"}) \ InFlight

\* No two chunks share a byte, whatever was split, merged or moved before.
ChunksDisjoint ==
  \A a, b \in DOMAIN chunk : a < b => a + Extent(a) <= b

\* Every byte of every chunk belongs to the process: Mfree and the return of
\* memory to the own heap never take away a block in use.
ChunksOwned ==
  \A a \in DOMAIN chunk : \A x \in a..(a + Extent(a) - 1) : Owned(x)

\* A border describes the GEMDOS block it heads, so "ALLOC_SIZE == size" in
\* __free really means that the whole block is free.
BordersDescribeBlocks ==
  \A a \in Valid({"BORDER"}) :
    a \in DOMAIN region /\ region[a] = BORDER_EXTRA + chunk[a].asize

\* GEMDOS blocks lie apart from each other and from the program's own area, and
\* in a process without an own heap each of them starts with a border: a free
\* chunk and the border listed before it then belong to the same block.
BlocksHaveBorders ==
  /\ \A g \in DOMAIN region :
       /\ g # NULL /\ region[g] > 0
       /\ g + region[g] < HeapStart \/ g >= HeapTop
       /\ heapbase = NULL => g \in Valid({"BORDER"})
       /\ \A h \in DOMAIN region : h > g => g + region[g] <= h
  /\ heapbase # NULL => Valid({"BORDER"}) = {}

\* Each block the program holds is as large as it asked for, and headed by a
\* header that is not on the free list.
LiveBlocksWhole ==
  \A u \in DOMAIN live :
    /\ u - HDR \in Valid({"ALLOC", "MOVED"})
    /\ HDR + live[u] <= Extent(u - HDR)

\* Every handed out chunk is held by the program or by the running call: a
\* failing realloc or memalign drops nothing.
NoOrphans ==
  \A a \in Valid({"ALLOC", "MOVED"}) : a + HDR \in DOMAIN live \/ a \in InTransit

\* No byte is lost: what the system gave and did not get back is what the chunks
\* hold and, apart from that, what memalign is known to leak.
Conservation ==
  LET Held == UNION {ChunkBytes(a) : a \in DOMAIN chunk}
      Own  == IF heapbase = NULL THEN {} ELSE Bytes(HeapStart, heapbase - HeapStart)
      Got  == (UNION {Bytes(g, region[g]) : g \in DOMAIN region}) \cup Own
  IN Held \cap lost = {} /\ Held \cup lost = Got

\* The own heap and the stack share one area: what one gains the other loses.
HeapAndStack ==
  heapbase # NULL =>
    heapbase + stksize = HeapTop /\ HeapStart <= heapbase /\ heapbase <= HeapTop

\* The memcpy of realloc carries over all that both sizes allow and stays
\* inside both blocks.
CopyIsSafe ==
  pc = "copy" =>
    /\ Copied >= call.size \/ Copied >= live[call.r + HDR]
    /\ Copied <= chunk[call.r].size - HDR
    /\ Copied <= chunk[call.q].size - HDR

\* The assertion in __realloc never fails.
AssertHolds == pc # "abort"

\* A chunk is never smaller than its header.
SizesSound ==
  \A a \in DOMAIN chunk :
    /\ chunk[a].valid \in {"FREE", "ALLOC"} => chunk[a].size >= HDR
    /\ chunk[a].valid = "BORDER" => chunk[a].size = BORDER_EXTRA

\* The running call works on a chunk that is what the code takes it for: what
\* the search found is still free and large enough when it is carved, what is
\* copied or freed is still allocated.
CallSound ==
  /\ pc \in {"search", "sbrk", "carve", "align", "copy"} =>
       /\ call.op \in {"malloc", "memalign", "shrink", "grow"}
       /\ call.n = IF call.op = "memalign" /\ call.align > MALLOC_ALIGNMENT
                   THEN call.size + call.align - 1 ELSE call.size
       /\ call.op \in {"shrink", "grow"} =>
            call.r \in Valid({"ALLOC"}) /\ call.r + HDR \in DOMAIN live
       /\ call.op = "shrink" => chunk[call.r].size >= ChunkSize(call.n)
       /\ call.op = "grow" => chunk[call.r].size < ChunkSize(call.n)
  /\ pc = "sbrk" =>
       call.sz >= ChunkSize(call.n) + IF heapbase = NULL THEN BORDER_EXTRA ELSE 0
  /\ pc = "carve" => call.q \in Valid({"FREE"})
  /\ pc = "align" => call.op = "memalign"
  /\ pc = "copy" => call.op \in {"shrink", "grow"}
  /\ pc \in {"align", "copy"} =>
       call.q \in Valid({"ALLOC"}) /\ call.q + HDR \notin DOMAIN live
  /\ pc \in {"carve", "align", "copy"} => chunk[call.q].size >= ChunkSize(call.n)
  /\ pc = "free" =>
       call.r \in Valid({"ALLOC", "MOVED"}) /\ call.r + HDR \notin DOMAIN live
  /\ pc = "merge" => call.r \in Valid({"FREE"})

\* The inductive invariant behind the theorems of MallocProofs.
HeapSound ==
  /\ TypeOK /\ CallSound /\ SizesSound
  /\ FreeListAscending /\ FreeListExact
  /\ ChunksDisjoint /\ ChunksOwned
  /\ BlocksHaveBorders /\ BordersDescribeBlocks /\ HeapAndStack
  /\ LiveBlocksWhole /\ AssertHolds

\* Seen through `live' alone, the heap is an Allocator.
Promise == INSTANCE Allocator

\* Every step of the library keeps the promise of malloc, free and realloc: new
\* and resized blocks avoid all others, and no call touches a block it was not
\* given.
ImplementsAllocator == Promise!Spec

\* "merge before if possible": no two free neighbours stay apart.
Coalesced ==
  pc = "idle" =>
    \A i \in 1..(Len(fl) - 1) :
      ~ /\ {fl[i], fl[i + 1]} \subseteq Valid({"FREE"})
        /\ fl[i] + chunk[fl[i]].size = fl[i + 1]

\* "If we need less alignment than we give anyway, just relay to malloc": the
\* block __malloc returned satisfies an alignment it is relayed for.
RelayAligned ==
  pc = "align" /\ call.align <= MALLOC_ALIGNMENT
    => (call.q + HDR) % call.align = 0

=============================================================================
