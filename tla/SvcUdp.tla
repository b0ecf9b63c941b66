------------------------------- MODULE SvcUdp -------------------------------
(***************************************************************************)
(* The server side of RPC over UDP, sunrpc/svc_udp.c: svcudp_recv, the     *)
(* dispatch of svc_getreq_common (svc.c), svcudp_reply, and the cache of   *)
(* replies that svcudp_enablecache adds.                                   *)
(*                                                                         *)
(* uc_fifo[i] is filled once and its node is reused from then on, so that  *)
(* a node is known by its place i.  A node keeps the buffer its reply was  *)
(* sent from, and gives the transport its own buffer in exchange.          *)
(***************************************************************************)
EXTENDS Integers, Sequences, Datagrams

CONSTANT CacheSize      \* the size given to svcudp_enablecache

ASSUME CacheAssumption == CacheSize \in Nat \ {0}

VARIABLES
    spc,            \* "idle", or "serve" once svcudp_recv returned TRUE
    msg,            \* the call svcudp_recv decoded (its xid is su_xid)
    cached,         \* su_cache # NULL
    uc_last,        \* uc_prog, uc_vers, uc_proc and uc_addr
    uc_fifo,        \* uc_fifo: the node in each place, if any
    uc_entries,     \* uc_entries: the places of the nodes of each chain
    uc_nextvictim,
    rpc_buffer,     \* the transport's buffer
    su_xdrs,        \* the buffer the XDR handle encodes to
    contents,       \* what each buffer holds
    resent,         \* the reply svcudp_recv sent from the cache, if any
    executed        \* calls whose procedure has run

server == << spc, msg, cached, uc_last, uc_fifo, uc_entries, uc_nextvictim,
             rpc_buffer, su_xdrs, contents, resent, executed >>
cache == << uc_fifo, uc_entries, uc_nextvictim, rpc_buffer, su_xdrs >>

Places == 0 .. CacheSize - 1
Buffers == 0 .. CacheSize       \* CacheSize is the transport's first one
SPARSENESS == 4
CACHE_LOC(x) == x % (SPARSENESS * CacheSize)

NoMsg == [type |-> "none"]
CallBytes == [type |-> "call"]   \* whatever call a buffer was read into

Nodes == UNION {uc_fifo[i] : i \in Places}

\* A reply datagram: a buffer's contents sent to an address.
Datagram(reply, addr) ==
    [type |-> "reply", to |-> addr, xid |-> reply.xid, of |-> reply.of,
     ok |-> reply.ok]

-----------------------------------------------------------------------------
\* svcudp_enablecache
EnableCache ==
    /\ spc = "idle" /\ ~cached
    /\ cached' = TRUE
    /\ UNCHANGED << network, spc, msg, uc_last, cache, contents, resent,
                    executed >>

\* The loop of cache_get over one chain.  The transaction id is that of the
\* call; program, version, procedure and address are those saved by the last
\* cache_get that found nothing.
Matches(node, m) ==
    /\ node.xid = m.xid
    /\ node.what = uc_last.what
    /\ node.from = uc_last.from

CacheGet(m) ==
    LET chain == uc_entries[CACHE_LOC(m.xid)]
        hits  == {k \in DOMAIN chain : \E n \in uc_fifo[chain[k]] : Matches(n, m)}
    IN UNION {uc_fifo[chain[k]] : k \in {h \in hits : \A l \in hits : h <= l}}

\* svcudp_recv finds nothing in the cache, or has none.
RecvMiss(m) ==
    /\ spc = "idle"
    /\ m \in net /\ m.type = "call"
    /\ cached => CacheGet(m) = {}
    /\ RecvFrom(m, {})
    /\ spc' = "serve"
    /\ msg' = m
    /\ contents' = [contents EXCEPT ![rpc_buffer] = CallBytes]
    /\ uc_last' = IF cached THEN [what |-> m.what, from |-> m.from] ELSE uc_last
    /\ resent' = {}
    /\ UNCHANGED << cached, cache, executed >>

\* svcudp_recv finds a reply, sends it to the caller, and returns TRUE all
\* the same.
RecvHit(m) ==
    /\ spc = "idle"
    /\ m \in net /\ m.type = "call"
    /\ cached
    /\ \E n \in CacheGet(m) :
         LET again == Datagram(contents[n.reply], m.from)
         IN RecvFrom(m, {again}) /\ resent' = {again}
    /\ spc' = "serve"
    /\ msg' = m
    /\ contents' = [contents EXCEPT ![rpc_buffer] = CallBytes]
    /\ UNCHANGED << cached, uc_last, cache, executed >>

-----------------------------------------------------------------------------
\* cache_set, after the reply in rpc_buffer has been sent.

\* The chain of the victim's old transaction id, and the victim's place in it.
ChainOf(i) == CACHE_LOC((CHOOSE n \in uc_fifo[i] : TRUE).xid)
InChain(i) == uc_fifo[i] # {} /\ \E k \in DOMAIN uc_entries[ChainOf(i)] : uc_entries[ChainOf(i)][k] = i
FirstAt(s, i) == CHOOSE k \in DOMAIN s : s[k] = i /\ \A l \in 1 .. k - 1 : s[l] # i
Without(s, k) == [j \in 1 .. Len(s) - 1 |-> IF j < k THEN s[j] ELSE s[j + 1]]

\* Mutant: the victim is not taken out.
UnlinkNot(i) == uc_entries

\* *vicp = victim->cache_next.  A new node is in no chain.
Unlink(i) ==
    IF uc_fifo[i] = {} THEN uc_entries
    ELSE [uc_entries EXCEPT ![ChainOf(i)] = Without(@, FirstAt(@, i))]

\* Mutant: no exchange of buffers.
NewBufferSame(i) == rpc_buffer

\* The buffer of the victim, or of a new node.
NewBuffer(i) == IF uc_fifo[i] = {} THEN i ELSE (CHOOSE n \in uc_fifo[i] : TRUE).reply

Link(entries, i, x) ==
    [entries EXCEPT ![CACHE_LOC(x)] = << i >> \o @]

CacheSet ==
    LET i == uc_nextvictim
    IN /\ uc_fifo[i] = {} \/ InChain(i)
       /\ uc_fifo' = [uc_fifo EXCEPT ![i] =
                        {[xid |-> msg.xid, what |-> uc_last.what,
                          from |-> uc_last.from, reply |-> rpc_buffer]}]
       /\ uc_entries' = Link(Unlink(i), i, msg.xid)
       /\ uc_nextvictim' = (i + 1) % CacheSize
       /\ rpc_buffer' = NewBuffer(i)
       /\ su_xdrs' = NewBuffer(i)

\* The returns of cache_set: no memory for a new node, "victim not found".
CacheSetFails ==
    /\ ~InChain(uc_nextvictim)
    /\ UNCHANGED cache

-----------------------------------------------------------------------------
\* svcudp_reply: encode through the XDR handle, send from the buffer, then
\* cache_set, unless sendto failed.
Reply(ok) ==
    /\ contents' = [contents EXCEPT ![su_xdrs] =
                      [type |-> "body", xid |-> msg.xid, of |-> msg, ok |-> ok]]
    /\ \/ /\ SendTo(Datagram(contents'[rpc_buffer], msg.from))
          /\ \/ cached /\ (CacheSet \/ CacheSetFails)
             \/ ~cached /\ UNCHANGED cache
       \/ UNCHANGED << network, cache >>

\* svc_getreq_common returns to svc_run.
Done == spc' = "idle" /\ msg' = NoMsg /\ resent' = {}

\* The dispatch: the procedure runs and replies.
ServeCall ==
    /\ spc = "serve"
    /\ executed' = executed \cup {msg}
    /\ Reply(TRUE)
    /\ Done
    /\ UNCHANGED << cached, uc_last >>

\* The procedure runs and sends no reply.
ServeSilent ==
    /\ spc = "serve"
    /\ executed' = executed \cup {msg}
    /\ Done
    /\ UNCHANGED << network, cached, uc_last, cache, contents >>

\* The call is refused before the dispatch: svcerr_auth, svcerr_noprog,
\* svcerr_progvers.
ServeError ==
    /\ spc = "serve"
    /\ Reply(FALSE)
    /\ Done
    /\ UNCHANGED << cached, uc_last, executed >>

ServerInit ==
    /\ spc = "idle"
    /\ msg = NoMsg
    /\ cached = FALSE
    /\ uc_last = NoMsg
    /\ uc_fifo = [i \in Places |-> {}]
    /\ uc_entries = [loc \in 0 .. SPARSENESS * CacheSize - 1 |-> << >>]
    /\ uc_nextvictim = 0
    /\ rpc_buffer = CacheSize
    /\ su_xdrs = CacheSize
    /\ contents = [b \in Buffers |-> NoMsg]
    /\ resent = {}
    /\ executed = {}

ServerNext ==
    \/ EnableCache
    \/ \E m \in net : RecvMiss(m) \/ RecvHit(m)
    \/ ServeCall \/ ServeSilent \/ ServeError
=============================================================================
