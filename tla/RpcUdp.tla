------------------------------- MODULE RpcUdp -------------------------------
(***************************************************************************)
(* Clients of ClntUdp and the server of SvcUdp, joined by the network of   *)
(* Datagrams.                                                              *)
(***************************************************************************)
EXTENDS ClntUdp, SvcUdp

vars == << network, client, server >>

Init == net = {} /\ dups = 0 /\ ClientInit /\ ServerInit

Next ==
    \/ (\E c \in Clients : ClientNext(c)) /\ UNCHANGED server
    \/ ServerNext /\ UNCHANGED client

\* clntudp_call runs on: poll returns within cu_wait.  Nothing is assumed of
\* the network, of the server, or of how often the program calls.
Spec ==
    /\ Init /\ [][Next]_vars
    /\ \A c \in Clients : WF_vars(ClientStep(c) /\ UNCHANGED server)

-----------------------------------------------------------------------------
(* Types. *)

Body == [type : {"body"}, xid : Xids, of : CallMsg, ok : BOOLEAN]
ReplyMsg == [type : {"reply"}, to : Clients, xid : Xids, of : CallMsg,
             ok : BOOLEAN]
Node == [xid : Xids, what : Procedures, from : Clients, reply : Buffers]
Locations == 0 .. SPARSENESS * CacheSize - 1

CacheTypes ==
    /\ uc_fifo \in [Places -> SUBSET Node]
    /\ uc_entries \in [Locations -> Seq(Places)]
    /\ uc_nextvictim \in Places
    /\ rpc_buffer \in Buffers /\ su_xdrs \in Buffers
    /\ contents \in [Buffers -> {CallBytes, NoMsg} \cup Body]

ServerTypes ==
    /\ spc \in {"idle", "serve"} /\ (spc = "serve" => msg \in CallMsg)
    /\ CacheTypes

ClientTypes ==
    /\ cpc \in [Clients -> {"idle", "send", "poll"}]
    /\ xid \in [Clients -> Xids] /\ what \in [Clients -> Procedures]
    /\ timeout \in [Clients -> Nat] /\ waited \in [Clients -> Nat]
    /\ refreshes \in [Clients -> 0 .. NRefreshes] /\ made \in [Clients -> 0 .. MaxCalls]
    /\ result \in [Clients -> SUBSET ReplyMsg]

\* The type of the state.
TypeOK ==
    /\ net \subseteq CallMsg \cup ReplyMsg /\ dups \in 0 .. MaxDups
    /\ executed \subseteq CallMsg
    /\ ServerTypes /\ ClientTypes

\* cache_set never fails with "victim not found": a node is in one chain, once,
\* and that is the chain of its own transaction id.
ChainsHoldNodes ==
    \A i \in Places, loc \in DOMAIN uc_entries :
      LET here == {k \in DOMAIN uc_entries[loc] : uc_entries[loc][k] = i}
      IN IF \E n \in uc_fifo[i] : CACHE_LOC(n.xid) = loc
         THEN \E k \in here : here = {k}
         ELSE here = {}

\* The buffer exchanged for a cached reply is not written again while the
\* reply is cached, neither by recvfrom nor by the next reply: a node's buffer
\* holds a reply with the node's transaction id, and no buffer is shared.
RepliesKept ==
    /\ \A n \in Nodes :
         /\ contents[n.reply].type = "body"
         /\ contents[n.reply].xid = n.xid
         /\ n.reply # rpc_buffer
    /\ \A i, j \in Places : \A n \in uc_fifo[i], o \in uc_fifo[j] :
         n.reply = o.reply => i = j

\* When handles draw different transaction ids, clntudp_call returns
\* RPC_SUCCESS only with the reply to the call it made, whatever is lost,
\* repeated, resent from the cache or answered late.
OwnReply ==
    \A c \in Clients : \A r \in result[c] :
      r.of = OutMsg(c) /\ r.of \in executed

\* clntudp_call returns, even if the server never answers.
CallReturns == \A c \in Clients : (cpc[c] # "idle") ~> (cpc[c] = "idle")

-----------------------------------------------------------------------------
(* The inductive invariants. *)

\* A place holds one node, the XDR handle encodes into the transport's buffer,
\* and the buffer of a place without a node is not in use.
CacheShape ==
    /\ CacheTypes
    /\ su_xdrs = rpc_buffer
    /\ \A i \in Places :
         /\ \A n, o \in uc_fifo[i] : n = o
         /\ uc_fifo[i] = {} => (rpc_buffer # i /\ \A n \in Nodes : n.reply # i)
    /\ ChainsHoldNodes
    /\ RepliesKept

\* The key that was saved is one while a call is served, and once there are
\* nodes.
CacheSound ==
    /\ CacheShape
    /\ ((spc = "serve" /\ cached) \/ Nodes # {}) =>
         uc_last \in [what : Procedures, from : Clients]

\* How many ids after the first of handle c.
Ordinal(c, x) == x - XidStart[c] + (IF x >= XidStart[c] THEN 0 ELSE XidMod)

\* The ids a handle may use up, and that no two handles share one.
Budget == MaxCalls * (NRefreshes + 1)
XidsApart ==
    /\ Budget < XidMod
    /\ \A c, d \in Clients : \A x \in Xids :
         Ordinal(c, x) \in 1 .. Budget /\ Ordinal(d, x) \in 1 .. Budget => c = d

\* What is known of a call wherever it is met: its id was used by its handle,
\* and is used for one call only.
CallKnown(m) ==
    /\ m \in CallMsg
    /\ Ordinal(m.from, m.xid) \in 1 .. Ordinal(m.from, xid[m.from])
    /\ m.xid = xid[m.from] => m = OutMsg(m.from)

\* A reply is that to the call it says, goes to who made it, and says success
\* when the procedure has run.
ReplyKnown(r) ==
    /\ CallKnown(r.of) /\ r.xid = r.of.xid /\ r.to = r.of.from
    /\ r.ok => r.of \in executed

BodyKnown(b) ==
    /\ CallKnown(b.of) /\ b.xid = b.of.xid
    /\ b.ok => b.of \in executed

IdsCounted ==
    \A c \in Clients :
      /\ Ordinal(c, xid[c]) + refreshes[c] <= made[c] * (NRefreshes + 1)
      /\ cpc[c] # "idle" => (result[c] = {} /\ Ordinal(c, xid[c]) > 0)

CallsKnown ==
    /\ \A m \in net : IF m.type = "call" THEN CallKnown(m) ELSE ReplyKnown(m)
    /\ spc = "serve" => CallKnown(msg)
    /\ \A b \in Buffers : contents[b].type = "body" => BodyKnown(contents[b])

RpcSound == TypeOK /\ CacheSound /\ IdsCounted /\ CallsKnown /\ OwnReply

-----------------------------------------------------------------------------
\* "(Does some caching in the hopes of achieving execute-at-most-once
\* semantics.)" (svc_udp.c:36): while the reply to a call is in the cache, the
\* procedure is not run for that call again.
AtMostOnce ==
    [][ServeCall \/ ServeSilent =>
         \A n \in Nodes : contents[n.reply].of # msg]_vars

\* "Index into cache is xid, proc, vers, prog and address" (svc_udp.c:394):
\* the cached reply that svcudp_recv sends is the reply to that very call.
IndexRespected == \A r \in resent : r.of = msg
=============================================================================
