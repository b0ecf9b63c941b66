----------------------------- MODULE Allocator ------------------------------
(***************************************************************************)
(* What malloc, memalign, realloc and free promise to a program, whatever  *)
(* they do with chunks, borders and system calls: a block is a range of    *)
(* bytes that no other block of the program touches, and it changes only   *)
(* at the program's request.                                               *)
(***************************************************************************)
EXTENDS Naturals

VARIABLE live   \* user address -> size of the block the program holds there

Apart(u, n, v, m) == u + n <= v \/ v + m <= u

\* There is room for n bytes at u beside the blocks in S.
Room(u, n, S) == \A v \in S : v # u /\ Apart(u, n, v, live[v])

Init == live = <<>>

\* malloc, calloc, memalign, aligned_alloc, posix_memalign, valloc
Allocate ==
  \E u \in DOMAIN live' :
    /\ u # 0 /\ Room(u, live'[u], DOMAIN live)
    /\ live' = [v \in DOMAIN live \cup {u} |-> IF v = u THEN live'[u] ELSE live[v]]

\* free, realloc (p, 0)
Release ==
  \E u \in DOMAIN live : live' = [v \in DOMAIN live \ {u} |-> live[v]]

\* realloc: the block at u becomes one at w, which may be u itself
Resize ==
  \E u \in DOMAIN live, w \in DOMAIN live' :
    /\ w # 0 /\ Room(w, live'[w], DOMAIN live \ {u})
    /\ live' = [v \in (DOMAIN live \ {u}) \cup {w} |->
                  IF v = w THEN live'[w] ELSE live[v]]

Next == Allocate \/ Release \/ Resize

Spec == Init /\ [][Next]_live

\* No byte is in two blocks the program holds.
BlocksApart ==
  \A u, v \in DOMAIN live : u # v => Apart(u, live[u], v, live[v])
=============================================================================
