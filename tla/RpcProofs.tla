----------------------------- MODULE RpcProofs -----------------------------
(***************************************************************************)
(* Proofs about the two models of RPC, first RpcUdp and then SvcRun.       *)
(*                                                                         *)
(* RpcUdp, for any number of handles and every size of the cache: the      *)
(* chains and buffers of the cache stay consistent, and, when handles      *)
(* never share a transaction id, a call gets its own reply.                *)
(*                                                                         *)
(* SvcRun, for any number of descriptors, connections and calls and every  *)
(* kernel: as long as routines and signal handlers avoid what Careless     *)
(* names, svc_run reads nothing that is gone, and never waits for a        *)
(* transport that poll can not see.                                        *)
(***************************************************************************)
EXTENDS RpcUdp, SvcRun, FiniteSetTheorems, TLAPS

-----------------------------------------------------------------------------
(* The chains of the cache. *)

LEMMA ModType ==
  ASSUME NEW a \in Nat, NEW b \in Nat \ {0}
  PROVE  a % b \in 0 .. b - 1
  OBVIOUS

LEMMA LocType == \A x \in Xids : CACHE_LOC(x) \in Locations
<1> SUFFICES ASSUME NEW x \in Xids PROVE CACHE_LOC(x) \in Locations
  OBVIOUS
<1>1. SPARSENESS * CacheSize \in Nat \ {0} /\ x \in Nat
  BY CacheAssumption, ClientAssumption DEF SPARSENESS, Xids
<1> QED BY <1>1, ModType DEF CACHE_LOC, Locations

LEMMA VictimType == \A u \in Places : (u + 1) % CacheSize \in Places
<1> SUFFICES ASSUME NEW u \in Places PROVE (u + 1) % CacheSize \in Places
  OBVIOUS
<1>1. u + 1 \in Nat /\ CacheSize \in Nat \ {0}
  BY CacheAssumption DEF Places
<1> QED BY <1>1, ModType DEF Places

LEMMA PlaceBuffer == Places \subseteq Buffers /\ CacheSize \in Buffers \ Places
  BY CacheAssumption DEF Places, Buffers

Once(s, u) == \E k \in DOMAIN s : s[k] = u /\ \A l \in DOMAIN s : s[l] = u => l = k
Absent(s, u) == \A k \in DOMAIN s : s[k] # u

\* ChainsHoldNodes without the sets of positions.
Chained(fifo, entries) ==
  \A u \in Places, loc \in Locations :
    /\ (\E n \in fifo[u] : CACHE_LOC(n.xid) = loc) => Once(entries[loc], u)
    /\ (~ \E n \in fifo[u] : CACHE_LOC(n.xid) = loc) => Absent(entries[loc], u)

LEMMA OnceIs ==
  ASSUME NEW s, NEW u
  PROVE  LET here == {k \in DOMAIN s : s[k] = u}
         IN /\ Once(s, u) <=> \E k \in here : here = {k}
            /\ Absent(s, u) <=> here = {}
  BY DEF Once, Absent

LEMMA ChainedIsChainsHoldNodes ==
  ASSUME DOMAIN uc_entries = Locations
  PROVE  ChainsHoldNodes <=> Chained(uc_fifo, uc_entries)
  BY OnceIs DEF ChainsHoldNodes, Chained

LEMMA WithoutIs ==
  ASSUME NEW s \in Seq(Places), NEW k \in DOMAIN s
  PROVE  /\ Without(s, k) \in Seq(Places)
         /\ DOMAIN Without(s, k) = 1 .. Len(s) - 1
         /\ \A j \in 1 .. Len(s) - 1 : Without(s, k)[j] = IF j < k THEN s[j] ELSE s[j + 1]
<1>1. Len(s) - 1 \in Nat /\ DOMAIN s = 1 .. Len(s)
  OBVIOUS
<1>2. \A j \in 1 .. Len(s) - 1 : s[j] \in Places /\ s[j + 1] \in Places
  BY <1>1
<1> QED BY <1>1, <1>2 DEF Without

\* Taking out the one place u leaves every other place where it was.
LEMMA WithoutKeeps ==
  ASSUME NEW s \in Seq(Places), NEW u, NEW k \in DOMAIN s, s[k] = u, Once(s, u)
  PROVE  /\ Absent(Without(s, k), u)
         /\ \A j : j # u => /\ Once(s, j) => Once(Without(s, k), j)
                            /\ Absent(s, j) => Absent(Without(s, k), j)
<1> DEFINE t == Without(s, k)
<1>1. /\ DOMAIN t = 1 .. Len(s) - 1
      /\ \A j \in 1 .. Len(s) - 1 : t[j] = IF j < k THEN s[j] ELSE s[j + 1]
  BY WithoutIs
<1>2. DOMAIN s = 1 .. Len(s) /\ Len(s) \in Nat
  OBVIOUS
<1>3. \A l \in DOMAIN s : s[l] = u => l = k
  BY DEF Once
<1> HIDE DEF t
<1>4. Absent(t, u)
  BY <1>1, <1>2, <1>3, SMTT(30) DEF Absent
<1>5. ASSUME NEW j, j # u, Absent(s, j) PROVE Absent(t, j)
  BY <1>1, <1>2, <1>5 DEF Absent
<1>6. ASSUME NEW j, j # u, Once(s, j) PROVE Once(t, j)
  <2>1. PICK p \in DOMAIN s : s[p] = j /\ \A l \in DOMAIN s : s[l] = j => l = p
    BY <1>6 DEF Once
  <2> DEFINE q == IF p < k THEN p ELSE p - 1
  <2>2. q \in DOMAIN t /\ t[q] = j
    BY <1>1, <1>2, <2>1, <1>6
  <2>3. \A l \in DOMAIN t : t[l] = j => l = q
    BY <1>1, <1>2, <2>1, <1>6
  <2> QED BY <2>2, <2>3 DEF Once
<1> QED BY <1>4, <1>5, <1>6 DEF t

LEMMA PrependIs ==
  ASSUME NEW s \in Seq(Places), NEW u \in Places
  PROVE  /\ <<u>> \o s \in Seq(Places)
         /\ DOMAIN (<<u>> \o s) = 1 .. Len(s) + 1
         /\ (<<u>> \o s)[1] = u
         /\ \A j \in 1 .. Len(s) : (<<u>> \o s)[j + 1] = s[j]
  OBVIOUS

LEMMA PrependKeeps ==
  ASSUME NEW s \in Seq(Places), NEW u \in Places, Absent(s, u)
  PROVE  /\ Once(<<u>> \o s, u)
         /\ \A j : j # u => /\ Once(s, j) => Once(<<u>> \o s, j)
                            /\ Absent(s, j) => Absent(<<u>> \o s, j)
<1> DEFINE t == <<u>> \o s
<1>1. /\ DOMAIN t = 1 .. Len(s) + 1 /\ t[1] = u
      /\ \A j \in 1 .. Len(s) : t[j + 1] = s[j]
  BY PrependIs
<1>2. DOMAIN s = 1 .. Len(s) /\ Len(s) \in Nat
  OBVIOUS
<1> HIDE DEF t
<1>3. \A l \in DOMAIN t : l # 1 => l - 1 \in DOMAIN s /\ t[l] = s[l - 1]
  <2> SUFFICES ASSUME NEW l \in DOMAIN t, l # 1 PROVE l - 1 \in DOMAIN s /\ t[l] = s[l - 1]
    OBVIOUS
  <2>1. l - 1 \in 1 .. Len(s) /\ (l - 1) + 1 = l
    BY <1>1, <1>2
  <2> QED BY <2>1, <1>1, <1>2
<1>4. Once(t, u)
  <2>1. 1 \in DOMAIN t
    BY <1>1, <1>2
  <2> QED BY <2>1, <1>1, <1>3 DEF Once, Absent
<1>5. ASSUME NEW j, j # u, Absent(s, j) PROVE Absent(t, j)
  BY <1>1, <1>3, <1>5 DEF Absent
<1>6. ASSUME NEW j, j # u, Once(s, j) PROVE Once(t, j)
  <2>1. PICK p \in DOMAIN s : s[p] = j /\ \A l \in DOMAIN s : s[l] = j => l = p
    BY <1>6 DEF Once
  <2>2. p + 1 \in DOMAIN t /\ t[p + 1] = j
    BY <1>1, <1>2, <2>1
  <2>3. \A l \in DOMAIN t : t[l] = j => l = p + 1
    BY <1>1, <1>2, <1>3, <2>1, <1>6
  <2> QED BY <2>2, <2>3 DEF Once
<1> QED BY <1>4, <1>5, <1>6 DEF t

-----------------------------------------------------------------------------
(* cache_set. *)

LEMMA NodesAre == \A n : n \in Nodes <=> \E u \in Places : n \in uc_fifo[u]
  BY DEF Nodes

\* The one node of a place that is not empty.
Victim(u) == CHOOSE n \in uc_fifo[u] : TRUE

LEMMA VictimIs ==
  ASSUME CacheShape, NEW u \in Places, uc_fifo[u] # {}
  PROVE  /\ uc_fifo[u] = {Victim(u)} /\ Victim(u) \in Node
         /\ ChainOf(u) = CACHE_LOC(Victim(u).xid) /\ ChainOf(u) \in Locations
         /\ NewBuffer(u) = Victim(u).reply
<1>1. Victim(u) \in uc_fifo[u]
  BY DEF Victim
<1>2. uc_fifo[u] = {Victim(u)} /\ Victim(u) \in Node
  BY <1>1 DEF CacheShape, CacheTypes
<1>3. Victim(u).xid \in Xids
  BY <1>2 DEF Node
<1>4. ChainOf(u) = CACHE_LOC(Victim(u).xid) /\ NewBuffer(u) = Victim(u).reply
  BY DEF ChainOf, NewBuffer, Victim
<1> QED BY <1>2, <1>3, <1>4, LocType

\* The victim leaves its chain, the others stay.
LEMMA UnlinkKeeps ==
  ASSUME CacheShape, NEW u \in Places
  PROVE  /\ Unlink(u) \in [Locations -> Seq(Places)]
         /\ \A loc \in Locations :
              /\ Absent(Unlink(u)[loc], u)
              /\ \A j : j # u =>
                   /\ Once(uc_entries[loc], j) => Once(Unlink(u)[loc], j)
                   /\ Absent(uc_entries[loc], j) => Absent(Unlink(u)[loc], j)
<1>1. Chained(uc_fifo, uc_entries) /\ uc_entries \in [Locations -> Seq(Places)]
  BY ChainedIsChainsHoldNodes DEF CacheShape, CacheTypes
<1>2. CASE uc_fifo[u] = {}
  BY <1>1, <1>2 DEF Chained, Unlink
<1>3. CASE uc_fifo[u] # {}
  <2> DEFINE L == ChainOf(u)
             s == uc_entries[L]
             k == FirstAt(s, u)
  <2>1. /\ uc_fifo[u] = {Victim(u)} /\ L \in Locations /\ CACHE_LOC(Victim(u).xid) = L
    BY <1>3, VictimIs
  <2>2. /\ Once(s, u) /\ s \in Seq(Places)
        /\ \A loc \in Locations : loc # L => Absent(uc_entries[loc], u)
    BY <1>1, <2>1 DEF Chained
  <2>3. k \in DOMAIN s /\ s[k] = u
    <3>1. PICK p \in DOMAIN s : s[p] = u /\ \A l \in DOMAIN s : s[l] = u => l = p
      BY <2>2 DEF Once
    <3>2. \A l \in 1 .. p - 1 : s[l] # u
      BY <2>2, <3>1
    <3> QED BY <3>1, <3>2 DEF FirstAt
  <2>4. Unlink(u) = [uc_entries EXCEPT ![L] = Without(s, k)]
    BY <1>3 DEF Unlink
  <2> HIDE DEF k, s, L
  <2>5. /\ Without(s, k) \in Seq(Places)
        /\ Absent(Without(s, k), u)
        /\ \A j : j # u => /\ Once(s, j) => Once(Without(s, k), j)
                           /\ Absent(s, j) => Absent(Without(s, k), j)
    BY <2>2, <2>3, WithoutKeeps, WithoutIs
  <2>6. /\ Unlink(u)[L] = Without(s, k) /\ s = uc_entries[L]
        /\ \A loc \in Locations : loc # L => Unlink(u)[loc] = uc_entries[loc]
        /\ Unlink(u) \in [Locations -> Seq(Places)]
    BY <1>1, <2>1, <2>4, <2>5 DEF s
  <2> QED BY <2>2, <2>5, <2>6
<1> QED BY <1>2, <1>3

\* What cache_set leaves once svcudp_reply has encoded a reply to msg.
LEMMA CacheSetShape ==
  ASSUME CacheShape, CacheSet, msg \in CallMsg,
         uc_last \in [what : Procedures, from : Clients],
         NEW body \in Body, body.xid = msg.xid,
         contents' = [contents EXCEPT ![su_xdrs] = body]
  PROVE  CacheShape'
<1> DEFINE u == uc_nextvictim
           new == [xid |-> msg.xid, what |-> uc_last.what, from |-> uc_last.from,
                   reply |-> rpc_buffer]
           L == CACHE_LOC(msg.xid)
<1>1. u \in Places /\ msg.xid \in Xids /\ L \in Locations
  BY LocType DEF CacheShape, CacheTypes, CallMsg
<1>2. new \in Node
  BY DEF CacheShape, CacheTypes, Node, CallMsg
<1>3. /\ uc_fifo' = [uc_fifo EXCEPT ![u] = {new}]
      /\ uc_entries' = [Unlink(u) EXCEPT ![L] = <<u>> \o @]
      /\ uc_nextvictim' = (u + 1) % CacheSize
      /\ rpc_buffer' = NewBuffer(u) /\ su_xdrs' = NewBuffer(u)
  BY DEF CacheSet, Link
<1> HIDE DEF new, L, u
<1>4. NewBuffer(u) \in Buffers
  <2>1. CASE uc_fifo[u] = {}
    BY <2>1, <1>1, PlaceBuffer DEF NewBuffer
  <2>2. CASE uc_fifo[u] # {}
    BY <2>2, <1>1, VictimIs DEF Node
  <2> QED BY <2>1, <2>2
<1>5. /\ Absent(Unlink(u)[L], u) /\ Unlink(u)[L] \in Seq(Places)
      /\ Unlink(u) \in [Locations -> Seq(Places)]
  BY <1>1, UnlinkKeeps
<1>6. <<u>> \o Unlink(u)[L] \in Seq(Places)
  BY <1>1, <1>5, PrependIs
<1>7. CacheTypes'
  <2>1. uc_fifo' \in [Places -> SUBSET Node]
    BY <1>2, <1>3 DEF CacheShape, CacheTypes
  <2>2. uc_entries' \in [Locations -> Seq(Places)]
    BY <1>3, <1>5, <1>6
  <2>3. uc_nextvictim' \in Places
    BY <1>1, <1>3, VictimType
  <2>4. contents' \in [Buffers -> {CallBytes, NoMsg} \cup Body]
    BY DEF CacheShape, CacheTypes
  <2> QED BY <2>1, <2>2, <2>3, <2>4, <1>3, <1>4 DEF CacheTypes
<1>8. /\ uc_fifo'[u] = {new}
      /\ \A j \in Places : j # u => uc_fifo'[j] = uc_fifo[j]
  BY <1>1, <1>3 DEF CacheShape, CacheTypes
<1>9. ChainsHoldNodes'
  <2>1. Chained(uc_fifo, uc_entries)
    BY ChainedIsChainsHoldNodes DEF CacheShape, CacheTypes
  <2>2. /\ uc_entries'[L] = <<u>> \o Unlink(u)[L]
        /\ \A loc \in Locations : loc # L => uc_entries'[loc] = Unlink(u)[loc]
    BY <1>1, <1>3, <1>5
  <2>3. new.xid = msg.xid
    BY DEF new
  <2>4. Once(uc_entries'[L], u)
    BY <1>1, <1>5, <2>2, PrependKeeps
  <2>5. \A loc \in Locations : loc # L => Absent(uc_entries'[loc], u)
    BY <1>1, <2>2, UnlinkKeeps
  <2>6. ASSUME NEW j \in Places, j # u, NEW loc \in Locations
        PROVE  /\ Once(uc_entries[loc], j) => Once(uc_entries'[loc], j)
               /\ Absent(uc_entries[loc], j) => Absent(uc_entries'[loc], j)
    <3>1. /\ Once(uc_entries[loc], j) => Once(Unlink(u)[loc], j)
          /\ Absent(uc_entries[loc], j) => Absent(Unlink(u)[loc], j)
      BY <1>1, <2>6, UnlinkKeeps
    <3>2. CASE loc = L
      BY <1>1, <1>5, <2>2, <2>6, <3>1, <3>2, PrependKeeps
    <3>3. CASE loc # L
      BY <2>2, <3>1, <3>3
    <3> QED BY <3>2, <3>3
  <2>7. Chained(uc_fifo', uc_entries')
    <3> SUFFICES ASSUME NEW j \in Places, NEW loc \in Locations
                 PROVE  /\ (\E n \in uc_fifo'[j] : CACHE_LOC(n.xid) = loc) => Once(uc_entries'[loc], j)
                        /\ (~ \E n \in uc_fifo'[j] : CACHE_LOC(n.xid) = loc) => Absent(uc_entries'[loc], j)
      BY DEF Chained
    <3>1. CASE j = u
      <4>1. (\E n \in uc_fifo'[j] : CACHE_LOC(n.xid) = loc) <=> loc = L
        BY <1>8, <2>3, <3>1 DEF L
      <4> QED BY <2>4, <2>5, <3>1, <4>1
    <3>2. CASE j # u
      BY <1>8, <2>1, <2>6, <3>2 DEF Chained
    <3> QED BY <3>1, <3>2
  <2>8. DOMAIN uc_entries' = Locations
    BY <1>7 DEF CacheTypes
  <2> QED BY <2>7, <2>8, OnceIs DEF ChainsHoldNodes, Chained
<1>10. \A j \in Places : j # u => \A n \in uc_fifo[j] : n.reply # NewBuffer(u)
  <2> SUFFICES ASSUME NEW j \in Places, j # u, NEW n \in uc_fifo[j] PROVE n.reply # NewBuffer(u)
    OBVIOUS
  <2>1. CASE uc_fifo[u] = {}
    BY <1>1, <2>1, NodesAre DEF CacheShape, NewBuffer
  <2>2. CASE uc_fifo[u] # {}
    <3>1. Victim(u) \in uc_fifo[u] /\ NewBuffer(u) = Victim(u).reply
      BY <1>1, <2>2, VictimIs
    <3> QED BY <1>1, <3>1 DEF CacheShape, RepliesKept
  <2> QED BY <2>1, <2>2
<1>11. NewBuffer(u) # rpc_buffer
  <2>1. CASE uc_fifo[u] = {}
    BY <1>1, <2>1 DEF CacheShape, NewBuffer
  <2>2. CASE uc_fifo[u] # {}
    BY <1>1, <2>2, VictimIs, NodesAre DEF CacheShape, RepliesKept
  <2> QED BY <2>1, <2>2
<1>12. new.reply = rpc_buffer /\ new.xid = msg.xid
  BY DEF new
<1>13. /\ contents'[rpc_buffer] = body
       /\ \A b \in Buffers : b # rpc_buffer => contents'[b] = contents[b]
  BY DEF CacheShape, CacheTypes
<1>14. \A n : n \in Nodes' => n = new \/ \E j \in Places : j # u /\ n \in uc_fifo[j]
  <2>1. \A n : n \in Nodes' => \E j \in Places : n \in uc_fifo'[j]
    BY DEF Nodes
  <2> QED BY <2>1, <1>8
<1>15. RepliesKept'
  <2>1. ASSUME NEW n \in Nodes'
        PROVE  /\ contents'[n.reply].type = "body" /\ contents'[n.reply].xid = n.xid
               /\ n.reply # rpc_buffer'
    <3>1. CASE n = new
      BY <3>1, <1>3, <1>11, <1>12, <1>13 DEF Body
    <3>2. ASSUME NEW j \in Places, j # u, n \in uc_fifo[j]
          PROVE  /\ contents'[n.reply].type = "body" /\ contents'[n.reply].xid = n.xid
                 /\ n.reply # rpc_buffer'
      <4>1. n \in Nodes /\ n \in Node
        BY <3>2, NodesAre DEF CacheShape, CacheTypes
      <4>2. contents[n.reply].type = "body" /\ contents[n.reply].xid = n.xid /\ n.reply # rpc_buffer
        BY <4>1 DEF CacheShape, RepliesKept
      <4>3. n.reply \in Buffers
        BY <4>1 DEF Node
      <4> QED BY <4>2, <4>3, <1>13, <1>10, <3>2, <1>3
    <3> QED BY <3>1, <3>2, <1>14
  <2>2. ASSUME NEW j \in Places, NEW k \in Places, NEW n \in uc_fifo'[j], NEW o \in uc_fifo'[k],
               n.reply = o.reply
        PROVE  j = k
    <3>1. \A l \in Places : \A x \in uc_fifo[l] : x.reply # rpc_buffer
      BY NodesAre DEF CacheShape, RepliesKept
    <3>2. CASE j = u \/ k = u
      BY <1>8, <1>12, <2>2, <3>1, <3>2
    <3>3. CASE j # u /\ k # u
      BY <1>8, <2>2, <3>3 DEF CacheShape, RepliesKept
    <3> QED BY <3>2, <3>3
  <2> QED BY <2>1, <2>2 DEF RepliesKept
<1>16. ASSUME NEW j \in Places
       PROVE  /\ \A n, o \in uc_fifo'[j] : n = o
              /\ uc_fifo'[j] = {} => (rpc_buffer' # j /\ \A n \in Nodes' : n.reply # j)
  <2>1. CASE j = u
    BY <2>1, <1>8
  <2>2. CASE j # u
    <3>1. \A n, o \in uc_fifo[j] : n = o
      BY DEF CacheShape
    <3>2. ASSUME uc_fifo[j] = {} PROVE rpc_buffer # j /\ \A n \in Nodes : n.reply # j
      BY <3>2 DEF CacheShape
    <3>3. ASSUME uc_fifo[j] = {} PROVE NewBuffer(u) # j
      <4>1. CASE uc_fifo[u] = {}
        BY <4>1, <2>2 DEF NewBuffer
      <4>2. CASE uc_fifo[u] # {}
        BY <4>2, <1>1, <3>2, <3>3, VictimIs, NodesAre
      <4> QED BY <4>1, <4>2
    <3>4. \A n \in Nodes' : n = new \/ n \in Nodes
      BY <1>14, NodesAre
    <3> QED BY <1>3, <1>8, <1>12, <2>2, <3>1, <3>2, <3>3, <3>4
  <2> QED BY <2>1, <2>2
<1> QED BY <1>3, <1>7, <1>9, <1>15, <1>16 DEF CacheShape

-----------------------------------------------------------------------------
(* The other steps: the types, and the cache while it is not changed. *)

LEMMA MsgType == CallBytes.type = "call" /\ NoMsg.type = "none"
  BY DEF CallBytes, NoMsg

LEMMA OutType ==
  ASSUME TypeOK, NEW c \in Clients
  PROVE  OutMsg(c) \in CallMsg
  BY DEF TypeOK, ClientTypes, OutMsg, CallMsg

LEMMA NetType ==
  ASSUME TypeOK, NEW m \in net
  PROVE  /\ m.type = "call" => m \in CallMsg
         /\ m.type = "reply" => m \in ReplyMsg
         /\ m.type \in {"call", "reply"}
  BY DEF TypeOK, CallMsg, ReplyMsg

LEMMA RecvType ==
  ASSUME TypeOK, NEW m, NEW post, RecvFrom(m, post), post \subseteq CallMsg \cup ReplyMsg
  PROVE  /\ net' \subseteq CallMsg \cup ReplyMsg /\ dups' \in 0 .. MaxDups
         /\ net' \subseteq net \cup post
  BY NetworkAssumption DEF TypeOK, RecvFrom

LEMMA NextXidType ==
  ASSUME TypeOK, NEW c \in Clients, NextXid(c)
  PROVE  xid' \in [Clients -> Xids]
<1>1. xid[c] \in Nat /\ xid[c] + 1 \in Nat /\ XidMod \in Nat \ {0}
  BY ClientAssumption DEF TypeOK, ClientTypes, Xids
<1>2. (xid[c] + 1) % XidMod \in Xids
  BY <1>1, ModType DEF Xids
<1> QED BY <1>2 DEF TypeOK, ClientTypes, NextXid

LEMMA FinishType ==
  ASSUME TypeOK, NEW c \in Clients, NEW reply \in SUBSET ReplyMsg, Finish(c, reply)
  PROVE  /\ cpc' \in [Clients -> {"idle", "send", "poll"}]
         /\ timeout' \in [Clients -> Nat] /\ waited' \in [Clients -> Nat]
         /\ refreshes' \in [Clients -> 0 .. NRefreshes]
         /\ result' \in [Clients -> SUBSET ReplyMsg]
  BY ClientAssumption DEF TypeOK, ClientTypes, Finish, Goto

LEMMA ClientTypeOK ==
  ASSUME TypeOK, NEW c \in Clients, ClientNext(c), UNCHANGED server
  PROVE  TypeOK'
<1>1. ServerTypes' /\ executed' \subseteq CallMsg
  BY DEF TypeOK, ServerTypes, CacheTypes, server
<1>2. ASSUME NEW w \in Procedures, NEW t \in Timeouts[c], CallStart(c, w, t) PROVE TypeOK'
  <2>1. t \in Nat
    BY ClientAssumption
  <2>2. xid' \in [Clients -> Xids]
    BY <1>2, NextXidType DEF CallStart
  <2>3. made' \in [Clients -> 0 .. MaxCalls]
    BY <1>2, ClientAssumption DEF CallStart, TypeOK, ClientTypes
  <2> QED BY <1>1, <1>2, <2>1, <2>2, <2>3, ClientAssumption
          DEF CallStart, TypeOK, ClientTypes, Goto, network
<1>3. ASSUME NEW w \in Procedures, CallCantEncode(c, w) PROVE TypeOK'
  <2>1. xid' \in [Clients -> Xids]
    BY <1>3, NextXidType DEF CallCantEncode
  <2>2. made' \in [Clients -> 0 .. MaxCalls]
    BY <1>3, ClientAssumption DEF CallCantEncode, TypeOK, ClientTypes
  <2>3. Finish(c, {}) /\ what' \in [Clients -> Procedures]
    BY <1>3 DEF CallCantEncode, TypeOK, ClientTypes
  <2> QED BY <1>1, <1>3, <2>1, <2>2, <2>3, FinishType DEF CallCantEncode, TypeOK, ClientTypes, network
<1>4. CASE CallSend(c)
  <2>1. /\ cpc' \in [Clients -> {"idle", "send", "poll"}]
        /\ timeout' \in [Clients -> Nat] /\ waited' \in [Clients -> Nat]
        /\ refreshes' \in [Clients -> 0 .. NRefreshes]
        /\ result' \in [Clients -> SUBSET ReplyMsg]
    <3>1. CASE Finish(c, {})
      BY <3>1, FinishType
    <3>2. CASE Goto(c, "poll") /\ UNCHANGED <<timeout, waited, refreshes, result>>
      BY <3>2 DEF TypeOK, ClientTypes, Goto
    <3> QED BY <1>4, <3>1, <3>2 DEF CallSend
  <2> QED BY <1>1, <1>4, <2>1, OutType DEF CallSend, SendTo, TypeOK, ClientTypes
<1>5. CASE CallError(c)
  BY <1>1, <1>5, FinishType DEF CallError, TypeOK, ClientTypes, network
<1>6. CASE PollTimeout(c)
  <2>1. CASE Finish(c, {})
    BY <1>1, <1>6, <2>1, FinishType DEF PollTimeout, TypeOK, ClientTypes, network
  <2>2. CASE waited' = [waited EXCEPT ![c] = @ + Wait] /\ Goto(c, "send")
             /\ UNCHANGED <<timeout, refreshes, result>>
    <3>1. waited' \in [Clients -> Nat]
      BY <2>2, ClientAssumption DEF TypeOK, ClientTypes
    <3> QED BY <1>1, <1>6, <2>2, <3>1 DEF PollTimeout, TypeOK, ClientTypes, Goto, network
  <2> QED BY <1>6, <2>1, <2>2 DEF PollTimeout
<1>7. ASSUME NEW m \in net, RecvOther(c, m) PROVE TypeOK'
  <2>1. net' \subseteq CallMsg \cup ReplyMsg /\ dups' \in 0 .. MaxDups
    BY <1>7, RecvType DEF RecvOther
  <2> QED BY <1>1, <1>7, <2>1 DEF RecvOther, TypeOK, ClientTypes, client
<1>8. ASSUME NEW m \in net, RecvReply(c, m) PROVE TypeOK'
  <2>1. net' \subseteq CallMsg \cup ReplyMsg /\ dups' \in 0 .. MaxDups
    BY <1>8, RecvType DEF RecvReply
  <2>2. m \in ReplyMsg
    BY <1>8, NetType DEF RecvReply, ForClient
  <2>3. \E reply \in SUBSET ReplyMsg : Finish(c, reply)
    BY <1>8, <2>2 DEF RecvReply
  <2> QED BY <1>1, <1>8, <2>1, <2>3, FinishType DEF RecvReply, TypeOK, ClientTypes
<1>9. ASSUME NEW m \in net, RecvRefresh(c, m) PROVE TypeOK'
  <2>1. net' \subseteq CallMsg \cup ReplyMsg /\ dups' \in 0 .. MaxDups
    BY <1>9, RecvType DEF RecvRefresh
  <2>2. refreshes' \in [Clients -> 0 .. NRefreshes]
    BY <1>9, ClientAssumption DEF RecvRefresh, TypeOK, ClientTypes
  <2>3. xid' \in [Clients -> Xids]
    BY <1>9, NextXidType DEF RecvRefresh
  <2> QED BY <1>1, <1>9, <2>1, <2>2, <2>3 DEF RecvRefresh, TypeOK, ClientTypes, Goto
<1> QED BY <1>2, <1>3, <1>4, <1>5, <1>6, <1>7, <1>8, <1>9 DEF ClientNext, ClientStep

LEMMA ChainsStay ==
  ASSUME ChainsHoldNodes, CacheTypes, UNCHANGED <<uc_fifo, uc_entries>>
  PROVE  ChainsHoldNodes'
<1>1. Chained(uc_fifo, uc_entries) /\ DOMAIN uc_entries' = Locations
  BY ChainedIsChainsHoldNodes DEF CacheTypes
<1>2. Chained(uc_fifo', uc_entries')
  BY <1>1 DEF Chained
<1> QED BY <1>1, <1>2, OnceIs DEF ChainsHoldNodes, Chained

LEMMA CacheStays ==
  ASSUME CacheShape, UNCHANGED <<cache, contents>>
  PROVE  CacheShape'
<1>1. UNCHANGED <<uc_fifo, uc_entries, uc_nextvictim, rpc_buffer, su_xdrs, Nodes>>
  BY DEF cache, Nodes
<1>2. ChainsHoldNodes'
  BY <1>1, ChainsStay DEF CacheShape
<1> QED BY <1>1, <1>2 DEF CacheShape, CacheTypes, RepliesKept

\* Writing the transport's buffer disturbs no cached reply.
LEMMA BufferShape ==
  ASSUME CacheShape, UNCHANGED cache,
         NEW v \in {CallBytes, NoMsg} \cup Body, contents' = [contents EXCEPT ![rpc_buffer] = v]
  PROVE  CacheShape'
<1>1. /\ contents' \in [Buffers -> {CallBytes, NoMsg} \cup Body]
      /\ \A b \in Buffers : b # rpc_buffer => contents'[b] = contents[b]
  BY DEF CacheShape, CacheTypes
<1>2. /\ uc_fifo' = uc_fifo /\ uc_entries' = uc_entries /\ uc_nextvictim' = uc_nextvictim
      /\ rpc_buffer' = rpc_buffer /\ su_xdrs' = su_xdrs /\ Nodes' = Nodes
  BY DEF cache, Nodes
<1>3. CacheTypes' /\ ChainsHoldNodes'
  BY <1>1, <1>2, ChainsStay DEF CacheShape, CacheTypes
<1>4. \A n \in Nodes : n.reply \in Buffers
  BY NodesAre DEF CacheShape, CacheTypes, Node
<1>5. RepliesKept'
  BY <1>1, <1>2, <1>4 DEF CacheShape, RepliesKept
<1> QED BY <1>2, <1>3, <1>5 DEF CacheShape

\* A cached reply svcudp_recv finds is a reply to a call with that id.
LEMMA HitIs ==
  ASSUME TypeOK, CacheSound, NEW m \in CallMsg, NEW n \in CacheGet(m)
  PROVE  /\ n \in Nodes /\ n.xid = m.xid
         /\ n.reply \in Buffers /\ contents[n.reply] \in Body
         /\ contents[n.reply].xid = m.xid
<1>1. m.xid \in Xids
  BY DEF CallMsg
<1> DEFINE chain == uc_entries[CACHE_LOC(m.xid)]
<1>2. chain \in Seq(Places)
  BY <1>1, LocType DEF CacheSound, CacheShape, CacheTypes
<1>3. PICK k \in DOMAIN chain : /\ n \in uc_fifo[chain[k]]
                               /\ \E o \in uc_fifo[chain[k]] : Matches(o, m)
  BY DEF CacheGet
<1>4. chain[k] \in Places
  BY <1>2
<1> HIDE DEF chain
<1>5. n.xid = m.xid
  BY <1>3, <1>4 DEF CacheSound, CacheShape, Matches
<1>6. n \in Nodes /\ n.reply \in Buffers
  BY <1>3, <1>4, NodesAre DEF CacheSound, CacheShape, CacheTypes, Node
<1>7. contents[n.reply].type = "body" /\ contents[n.reply].xid = n.xid
  BY <1>6 DEF CacheSound, CacheShape, RepliesKept
<1>8. contents[n.reply] \in Body
  BY <1>6, <1>7, MsgType DEF CacheSound, CacheShape, CacheTypes
<1> QED BY <1>5, <1>6, <1>7, <1>8

LEMMA DatagramType ==
  ASSUME NEW b \in Body, NEW c \in Clients
  PROVE  Datagram(b, c) \in ReplyMsg
  BY DEF Body, Datagram, ReplyMsg

\* svcudp_reply, with or without a cache, sent or not.
LEMMA ReplySound ==
  ASSUME TypeOK, CacheSound, spc = "serve", NEW ok \in BOOLEAN, Reply(ok),
         UNCHANGED <<cached, uc_last>>
  PROVE  /\ CacheShape' /\ net' \subseteq CallMsg \cup ReplyMsg /\ dups' = dups
         /\ cached \/ Nodes' = Nodes
<1> DEFINE body == [type |-> "body", xid |-> msg.xid, of |-> msg, ok |-> ok]
<1>1. msg \in CallMsg /\ body \in Body /\ body.xid = msg.xid /\ msg.from \in Clients
  BY DEF TypeOK, ServerTypes, Body, CallMsg
<1>2. /\ contents' = [contents EXCEPT ![su_xdrs] = body] /\ su_xdrs = rpc_buffer
      /\ rpc_buffer \in Buffers /\ contents'[rpc_buffer] = body
  BY DEF Reply, CacheSound, CacheShape, CacheTypes
<1> HIDE DEF body
<1>3. ASSUME UNCHANGED cache PROVE CacheShape'
  BY <1>1, <1>2, <1>3, BufferShape DEF CacheSound
<1>4. ASSUME cached, CacheSet PROVE CacheShape'
  BY <1>1, <1>2, <1>4, CacheSetShape DEF CacheSound
<1>5. CacheShape'
  BY <1>3, <1>4 DEF Reply, CacheSetFails
<1>6. net' \subseteq CallMsg \cup ReplyMsg /\ dups' = dups
  <2>1. CASE SendTo(Datagram(contents'[rpc_buffer], msg.from))
    BY <1>1, <1>2, <2>1, DatagramType DEF SendTo, TypeOK
  <2>2. CASE UNCHANGED <<network, cache>>
    BY <2>2 DEF network, TypeOK
  <2> QED BY <2>1, <2>2 DEF Reply
<1>7. cached \/ Nodes' = Nodes
  BY DEF Reply, cache, Nodes
<1> QED BY <1>5, <1>6, <1>7

LEMMA ServerCacheSound ==
  ASSUME TypeOK, CacheSound, ServerNext, UNCHANGED client
  PROVE  TypeOK' /\ CacheSound'
<1>1. ClientTypes'
  BY DEF TypeOK, ClientTypes, client
<1>2. CASE EnableCache
  <2>1. CacheShape'
    BY <1>2, CacheStays DEF EnableCache, CacheSound
  <2>2. TypeOK'
    BY <1>1, <1>2, <2>1 DEF EnableCache, TypeOK, ServerTypes, CacheShape, network
  <2>3. Nodes' = Nodes
    BY <1>2 DEF EnableCache, cache, Nodes
  <2> QED BY <1>2, <2>1, <2>2, <2>3 DEF EnableCache, CacheSound
<1>3. ASSUME NEW m \in net, RecvMiss(m) PROVE TypeOK' /\ CacheSound'
  <2>1. m \in CallMsg
    BY <1>3, NetType DEF RecvMiss
  <2>2. net' \subseteq CallMsg \cup ReplyMsg /\ dups' \in 0 .. MaxDups
    BY <1>3, RecvType DEF RecvMiss
  <2>3. CacheShape'
    BY <1>3, BufferShape DEF RecvMiss, CacheSound
  <2>4. TypeOK'
    BY <1>1, <1>3, <2>1, <2>2, <2>3 DEF RecvMiss, TypeOK, ServerTypes, CacheShape
  <2>5. Nodes' = Nodes
    BY <1>3 DEF RecvMiss, cache, Nodes
  <2>6. m.what \in Procedures /\ m.from \in Clients
    BY <2>1 DEF CallMsg
  <2> QED BY <1>3, <2>3, <2>4, <2>5, <2>6 DEF RecvMiss, CacheSound
<1>4. ASSUME NEW m \in net, RecvHit(m) PROVE TypeOK' /\ CacheSound'
  <2>1. m \in CallMsg /\ m.from \in Clients
    BY <1>4, NetType DEF RecvHit, CallMsg
  <2>2. PICK n \in CacheGet(m) : RecvFrom(m, {Datagram(contents[n.reply], m.from)})
    BY <1>4 DEF RecvHit
  <2>3. n \in Nodes /\ Datagram(contents[n.reply], m.from) \in ReplyMsg
    BY <2>1, HitIs, DatagramType
  <2>4. net' \subseteq CallMsg \cup ReplyMsg /\ dups' \in 0 .. MaxDups
    BY <2>2, <2>3, RecvType
  <2>5. CacheShape'
    BY <1>4, BufferShape DEF RecvHit, CacheSound
  <2>6. TypeOK'
    BY <1>1, <1>4, <2>1, <2>4, <2>5 DEF RecvHit, TypeOK, ServerTypes, CacheShape
  <2> QED BY <1>4, <2>3, <2>5, <2>6 DEF RecvHit, CacheSound
<1>5. ASSUME spc = "serve", NEW ok \in BOOLEAN, Reply(ok), Done, UNCHANGED <<cached, uc_last>>,
             executed' \subseteq CallMsg
      PROVE  TypeOK' /\ CacheSound'
  <2>1. /\ CacheShape' /\ net' \subseteq CallMsg \cup ReplyMsg /\ dups' = dups
        /\ cached \/ Nodes' = Nodes
    BY <1>5, ReplySound
  <2>2. TypeOK'
    BY <1>1, <1>5, <2>1 DEF TypeOK, ServerTypes, CacheShape, Done
  <2> QED BY <1>5, <2>1, <2>2 DEF CacheSound, Done
<1>6. spc = "serve" => msg \in CallMsg
  BY DEF TypeOK, ServerTypes
<1>7. CASE ServeCall
  BY <1>5, <1>6, <1>7 DEF ServeCall, TypeOK
<1>8. CASE ServeError
  BY <1>5, <1>8 DEF ServeError, TypeOK
<1>9. CASE ServeSilent
  <2>1. UNCHANGED <<cache, contents, Nodes>>
    BY <1>9 DEF ServeSilent, cache, Nodes
  <2>2. CacheShape'
    BY <2>1, CacheStays DEF CacheSound
  <2>3. TypeOK'
    BY <1>1, <1>6, <1>9, <2>2 DEF ServeSilent, TypeOK, ServerTypes, CacheShape, Done, network
  <2> QED BY <1>9, <2>1, <2>2, <2>3 DEF ServeSilent, CacheSound, Done
<1> QED BY <1>2, <1>3, <1>4, <1>7, <1>8, <1>9 DEF ServerNext

LEMMA ClientCacheSound ==
  ASSUME CacheSound, UNCHANGED server
  PROVE  CacheSound'
<1>1. UNCHANGED <<Nodes, cache, contents>>
  BY DEF server, cache, Nodes
<1> QED BY <1>1, CacheStays DEF CacheSound, server

LEMMA InitCacheSound == Init => TypeOK /\ CacheSound
<1> SUFFICES ASSUME Init PROVE TypeOK /\ CacheSound
  OBVIOUS
<1> USE DEF Init, ServerInit
<1>1. SPARSENESS * CacheSize - 1 \in Int
  BY CacheAssumption DEF SPARSENESS
<1>2. CacheTypes
  BY CacheAssumption DEF CacheTypes, Places, Buffers, Locations
<1>3. Nodes = {}
  BY DEF Nodes
<1>4. ClientTypes
  BY ClientAssumption DEF ClientInit, ClientTypes, Xids
<1>5. TypeOK
  BY <1>2, <1>4, NetworkAssumption DEF TypeOK, ServerTypes
<1>6. ChainsHoldNodes
  BY DEF ChainsHoldNodes
<1>7. CacheShape
  BY <1>2, <1>3, <1>6, PlaceBuffer DEF CacheShape, RepliesKept
<1> QED BY <1>3, <1>5, <1>7 DEF CacheSound

LEMMA StepCacheSound == TypeOK /\ CacheSound /\ [Next]_vars => TypeOK' /\ CacheSound'
<1> SUFFICES ASSUME TypeOK, CacheSound, [Next]_vars PROVE TypeOK' /\ CacheSound'
  OBVIOUS
<1>1. CASE (\E c \in Clients : ClientNext(c)) /\ UNCHANGED server
  BY <1>1, ClientTypeOK, ClientCacheSound
<1>2. CASE ServerNext /\ UNCHANGED client
  BY <1>2, ServerCacheSound
<1>3. CASE UNCHANGED vars
  <2>1. UNCHANGED <<client, server, net, dups, executed>>
    BY <1>3 DEF vars, network, server
  <2>2. TypeOK'
    BY <2>1 DEF TypeOK, ServerTypes, ClientTypes, CacheTypes, client, server
  <2> QED BY <2>1, <2>2, ClientCacheSound
<1> QED BY <1>1, <1>2, <1>3 DEF Next

\* The cache of replies is never inconsistent, whatever the network delivers and
\* whichever ids the handles drew (cache_set and cache_get of svc_udp.c).
THEOREM CacheIsSound == Spec => [](TypeOK /\ CacheSound)
  BY InitCacheSound, StepCacheSound, PTL DEF Spec

\* cache_set always finds its victim in the chain of the victim's own id.
THEOREM ChainsAreSound == Spec => []ChainsHoldNodes
<1>1. CacheSound => ChainsHoldNodes
  BY DEF CacheSound, CacheShape
<1> QED BY <1>1, CacheIsSound, PTL

\* A cached reply stays what it was while it is cached.
THEOREM RepliesAreKept == Spec => []RepliesKept
<1>1. CacheSound => RepliesKept
  BY DEF CacheSound, CacheShape
<1> QED BY <1>1, CacheIsSound, PTL

-----------------------------------------------------------------------------
(* Transaction ids. *)

LEMMA OrdinalType ==
  ASSUME NEW c \in Clients, NEW x \in Xids
  PROVE  /\ Ordinal(c, x) \in 0 .. XidMod - 1
         /\ \A y \in Xids : Ordinal(c, x) = Ordinal(c, y) => x = y
<1>1. XidMod \in Nat \ {0} /\ XidStart[c] \in 0 .. XidMod - 1
  BY ClientAssumption
<1> QED BY <1>1 DEF Ordinal, Xids

LEMMA NextOrdinal ==
  ASSUME TypeOK, NEW c \in Clients, NextXid(c), Ordinal(c, xid[c]) + 1 < XidMod
  PROVE  Ordinal(c, xid'[c]) = Ordinal(c, xid[c]) + 1
<1>1. XidMod \in Nat \ {0} /\ XidStart[c] \in 0 .. XidMod - 1 /\ xid[c] \in 0 .. XidMod - 1
  BY ClientAssumption DEF TypeOK, ClientTypes, Xids
<1>2. xid'[c] = (xid[c] + 1) % XidMod
  BY DEF TypeOK, ClientTypes, NextXid
<1>3. xid'[c] = IF xid[c] + 1 = XidMod THEN 0 ELSE xid[c] + 1
  BY <1>1, <1>2
<1> QED BY <1>1, <1>3 DEF Ordinal

LEMMA Product ==
  ASSUME NEW a \in Nat, NEW b \in Nat, a <= b, NEW k \in Nat
  PROVE  /\ a * k \in Nat /\ a * k <= b * k
         /\ (a + 1) * k = a * k + k
  OBVIOUS

\* The ids a handle has used fit its budget.
LEMMA OrdinalBound ==
  ASSUME TypeOK, IdsCounted, NEW c \in Clients
  PROVE  /\ Ordinal(c, xid[c]) + refreshes[c] <= Budget
         /\ Ordinal(c, xid[c]) \in Nat /\ refreshes[c] \in Nat /\ Budget \in Nat
         /\ made[c] < MaxCalls => Ordinal(c, xid[c]) + refreshes[c] + NRefreshes + 1 <= Budget
<1>1. /\ xid[c] \in Xids /\ refreshes[c] \in Nat /\ made[c] \in Nat /\ made[c] <= MaxCalls
      /\ MaxCalls \in Nat /\ NRefreshes \in Nat /\ XidMod \in Nat
  BY ClientAssumption DEF TypeOK, ClientTypes
<1>2. Ordinal(c, xid[c]) \in Nat
  BY <1>1, OrdinalType
<1> DEFINE k == NRefreshes + 1
<1>3. k \in Nat
  BY <1>1
<1>4. Ordinal(c, xid[c]) + refreshes[c] <= made[c] * k
  BY DEF IdsCounted
<1> HIDE DEF k
<1>5. made[c] * k \in Nat /\ made[c] * k <= MaxCalls * k /\ MaxCalls * k \in Nat
  BY <1>1, <1>3, Product
<1>6. made[c] < MaxCalls => made[c] * k + k <= MaxCalls * k
  <2> SUFFICES ASSUME made[c] < MaxCalls PROVE made[c] * k + k <= MaxCalls * k
    OBVIOUS
  <2>1. made[c] + 1 \in Nat /\ made[c] + 1 <= MaxCalls
    BY <1>1
  <2>2. (made[c] + 1) * k <= MaxCalls * k
    BY <1>1, <1>3, <2>1, Product
  <2> QED BY <1>1, <1>3, <2>2, Product
<1>7. Budget = MaxCalls * k
  BY DEF Budget, k
<1>8. k = NRefreshes + 1
  BY DEF k
<1> QED BY <1>1, <1>2, <1>3, <1>4, <1>5, <1>6, <1>7, <1>8

-----------------------------------------------------------------------------
(* Whose reply is met where. *)

\* A new id leaves what is known of the calls made before.
LEMMA KnownAcrossIds ==
  ASSUME TypeOK, NEW c \in Clients, NextXid(c), Ordinal(c, xid[c]) + 1 < XidMod,
         \A d \in Clients : d # c => what'[d] = what[d]
  PROVE  \A m : CallKnown(m) => CallKnown(m)'
<1> SUFFICES ASSUME NEW m, CallKnown(m) PROVE CallKnown(m)'
  OBVIOUS
<1>1. m \in CallMsg /\ m.from \in Clients /\ m.xid \in Xids /\ xid[c] \in Xids
  BY DEF CallKnown, CallMsg, TypeOK, ClientTypes
<1>2. CASE m.from = c
  <2>1. Ordinal(c, xid'[c]) = Ordinal(c, xid[c]) + 1
    BY NextOrdinal
  <2>2. Ordinal(c, m.xid) \in 1 .. Ordinal(c, xid[c]) /\ Ordinal(c, xid[c]) \in Nat
    BY <1>1, <1>2, OrdinalType DEF CallKnown
  <2>3. Ordinal(c, m.xid) \in 1 .. Ordinal(c, xid'[c]) /\ m.xid # xid'[c]
    BY <2>1, <2>2
  <2> QED BY <1>1, <1>2, <2>3 DEF CallKnown
<1>3. CASE m.from # c
  <2>1. xid'[m.from] = xid[m.from] /\ what'[m.from] = what[m.from]
    BY <1>1, <1>3 DEF NextXid, TypeOK, ClientTypes
  <2> QED BY <1>1, <2>1 DEF CallKnown, OutMsg
<1> QED BY <1>2, <1>3

LEMMA KnownStays ==
  ASSUME UNCHANGED <<xid, what>>
  PROVE  \A m : CallKnown(m) => CallKnown(m)'
  BY DEF CallKnown, OutMsg

\* What was known of replies stays known.
LEMMA RepliesStayKnown ==
  ASSUME \A m : CallKnown(m) => CallKnown(m)', executed \subseteq executed'
  PROVE  /\ \A r : ReplyKnown(r) => ReplyKnown(r)'
         /\ \A b : BodyKnown(b) => BodyKnown(b)'
  BY DEF ReplyKnown, BodyKnown

LEMMA CallsStayKnown ==
  ASSUME CallsKnown, \A m : CallKnown(m) => CallKnown(m)', executed \subseteq executed',
         UNCHANGED <<spc, msg, contents>>,
         \A m \in net' : m \in net \/ IF m.type = "call" THEN CallKnown(m)' ELSE ReplyKnown(m)'
  PROVE  CallsKnown'
<1>1. /\ \A r : ReplyKnown(r) => ReplyKnown(r)'
      /\ \A b : BodyKnown(b) => BodyKnown(b)'
  BY RepliesStayKnown
<1>2. \A m \in net' : IF m.type = "call" THEN CallKnown(m)' ELSE ReplyKnown(m)'
  BY <1>1 DEF CallsKnown
<1>3. spc' = "serve" => CallKnown(msg)'
  <2>1. ASSUME spc = "serve" PROVE CallKnown(msg)
    BY <2>1 DEF CallsKnown
  <2>2. PICK m : m = msg
    OBVIOUS
  <2>3. ASSUME spc = "serve" PROVE CallKnown(m)'
    BY <2>1, <2>2, <2>3
  <2>4. msg' = m /\ spc' = spc
    BY <2>2
  <2> QED BY <2>3, <2>4 DEF CallKnown
<1>4. \A b \in Buffers : contents'[b].type = "body" => BodyKnown(contents[b])'
  BY <1>1 DEF CallsKnown
<1> QED BY <1>2, <1>3, <1>4 DEF CallsKnown

\* A call that begins, or begins again, under the next id.
LEMMA NewIdSound ==
  ASSUME XidsApart, RpcSound, NEW c \in Clients, NextXid(c),
         Ordinal(c, xid[c]) + 1 <= Budget,
         \A d \in Clients : d # c => what'[d] = what[d],
         \A d \in Clients : d # c => /\ made'[d] = made[d] /\ refreshes'[d] = refreshes[d]
                                      /\ cpc'[d] = cpc[d] /\ result'[d] = result[d],
         Ordinal(c, xid[c]) + 1 + refreshes'[c] <= made'[c] * (NRefreshes + 1),
         result'[c] = {},
         net' \subseteq net, UNCHANGED server
  PROVE  IdsCounted' /\ CallsKnown' /\ OwnReply'
<1> USE DEF RpcSound
<1>1. Ordinal(c, xid'[c]) = Ordinal(c, xid[c]) + 1 /\ Ordinal(c, xid[c]) \in Nat
  <2>1. Ordinal(c, xid[c]) \in Nat /\ Budget \in Nat /\ XidMod \in Nat
    BY OrdinalBound, ClientAssumption
  <2>2. Ordinal(c, xid[c]) + 1 < XidMod
    BY <2>1 DEF XidsApart
  <2> QED BY <2>1, <2>2, NextOrdinal
<1>2. \A d \in Clients : d # c => xid'[d] = xid[d]
  BY DEF NextXid, TypeOK, ClientTypes
<1>3. IdsCounted'
  BY <1>1, <1>2 DEF IdsCounted
<1>4. \A m : CallKnown(m) => CallKnown(m)'
  <2>1. Ordinal(c, xid[c]) + 1 < XidMod
    BY <1>1, OrdinalBound, ClientAssumption DEF XidsApart
  <2> QED BY <2>1, KnownAcrossIds
<1>5. CallsKnown'
  BY <1>4, CallsStayKnown DEF server
<1>6. OwnReply'
  BY <1>2 DEF OwnReply, OutMsg, server
<1> QED BY <1>3, <1>5, <1>6

\* A call that goes on or ends under the same id.
LEMMA SameIdSound ==
  ASSUME RpcSound, NEW c \in Clients, UNCHANGED <<xid, what, made>>, UNCHANGED server,
         refreshes'[c] \in Nat, refreshes'[c] <= refreshes[c],
         cpc'[c] # "idle" => (cpc[c] # "idle" /\ result'[c] = {}),
         \A d \in Clients : d # c => /\ refreshes'[d] = refreshes[d]
                                      /\ cpc'[d] = cpc[d] /\ result'[d] = result[d],
         \A m \in net' : m \in net \/ m = OutMsg(c),
         Ordinal(c, xid[c]) > 0,
         \A r \in result'[c] : r.of = OutMsg(c) /\ r.of \in executed
  PROVE  IdsCounted' /\ CallsKnown' /\ OwnReply'
<1> USE DEF RpcSound
<1>1. \A d \in Clients : OutMsg(d)' = OutMsg(d)
  BY DEF OutMsg
<1>2. OwnReply'
  BY <1>1 DEF OwnReply, server
<1>3. IdsCounted'
  <2>1. /\ Ordinal(c, xid[c]) \in Nat /\ refreshes[c] \in Nat
        /\ Ordinal(c, xid[c]) + refreshes[c] <= made[c] * (NRefreshes + 1)
    BY OrdinalBound DEF IdsCounted
  <2>2. made[c] * (NRefreshes + 1) \in Nat
    BY ClientAssumption, Product DEF TypeOK, ClientTypes
  <2>3. Ordinal(c, xid[c]) + refreshes'[c] <= made[c] * (NRefreshes + 1)
    BY <2>1, <2>2
  <2> QED BY <2>3 DEF IdsCounted
<1>4. \A m : CallKnown(m) => CallKnown(m)'
  BY KnownStays
<1>5. CallKnown(OutMsg(c)) /\ OutMsg(c).type = "call"
  <2>1. OutMsg(c) \in CallMsg /\ OutMsg(c).from = c /\ OutMsg(c).xid = xid[c]
    BY OutType DEF OutMsg
  <2>2. Ordinal(c, xid[c]) \in Nat
    BY OrdinalBound
  <2> QED BY <2>1, <2>2 DEF CallKnown, OutMsg
<1>6. CallsKnown'
  BY <1>4, <1>5, CallsStayKnown DEF server
<1> QED BY <1>2, <1>3, <1>6

LEMMA ClientSound ==
  ASSUME XidsApart, RpcSound, NEW c \in Clients, ClientNext(c), UNCHANGED server
  PROVE  IdsCounted' /\ CallsKnown' /\ OwnReply'
<1> USE DEF RpcSound
<1>1. /\ Ordinal(c, xid[c]) \in Nat /\ refreshes[c] \in Nat /\ Budget \in Nat
      /\ Ordinal(c, xid[c]) + refreshes[c] <= Budget
      /\ made[c] < MaxCalls => Ordinal(c, xid[c]) + refreshes[c] + NRefreshes + 1 <= Budget
      /\ Ordinal(c, xid[c]) + refreshes[c] <= made[c] * (NRefreshes + 1)
      /\ NRefreshes \in Nat
  BY OrdinalBound, ClientAssumption DEF IdsCounted
<1>2. /\ made[c] * (NRefreshes + 1) \in Nat
      /\ (made[c] + 1) * (NRefreshes + 1) = made[c] * (NRefreshes + 1) + NRefreshes + 1
  <2>1. made[c] \in Nat /\ NRefreshes + 1 \in Nat
    BY <1>1 DEF TypeOK, ClientTypes
  <2> DEFINE k == NRefreshes + 1
  <2>2. made[c] * k \in Nat /\ (made[c] + 1) * k = made[c] * k + k
    BY <2>1, Product
  <2> QED BY <1>1, <2>2
<1>3. /\ \A f \in [Clients -> Nat] : DOMAIN f = Clients
      /\ DOMAIN cpc = Clients /\ DOMAIN made = Clients /\ DOMAIN refreshes = Clients
      /\ DOMAIN result = Clients /\ DOMAIN what = Clients
  BY DEF TypeOK, ClientTypes
<1>4. ASSUME NEW w \in Procedures, NEW t \in Timeouts[c], CallStart(c, w, t)
      PROVE  IdsCounted' /\ CallsKnown' /\ OwnReply'
  <2>1. /\ made[c] < MaxCalls /\ made'[c] = made[c] + 1 /\ refreshes'[c] = NRefreshes
        /\ result'[c] = {} /\ NextXid(c) /\ net' = net
        /\ \A d \in Clients : d # c => /\ made'[d] = made[d] /\ refreshes'[d] = refreshes[d]
                                        /\ cpc'[d] = cpc[d] /\ result'[d] = result[d]
                                        /\ what'[d] = what[d]
    BY <1>3, <1>4 DEF CallStart, Goto, network
  <2>2. /\ Ordinal(c, xid[c]) + 1 <= Budget
        /\ Ordinal(c, xid[c]) + 1 + refreshes'[c] <= made'[c] * (NRefreshes + 1)
    BY <1>1, <1>2, <2>1
  <2> QED BY <2>1, <2>2, NewIdSound
<1>5. ASSUME NEW w \in Procedures, CallCantEncode(c, w)
      PROVE  IdsCounted' /\ CallsKnown' /\ OwnReply'
  <2>1. /\ made[c] < MaxCalls /\ made'[c] = made[c] + 1 /\ refreshes'[c] = 0
        /\ result'[c] = {} /\ NextXid(c) /\ net' = net
        /\ \A d \in Clients : d # c => /\ made'[d] = made[d] /\ refreshes'[d] = refreshes[d]
                                        /\ cpc'[d] = cpc[d] /\ result'[d] = result[d]
                                        /\ what'[d] = what[d]
    BY <1>3, <1>5 DEF CallCantEncode, Finish, Goto, network
  <2>2. /\ Ordinal(c, xid[c]) + 1 <= Budget
        /\ Ordinal(c, xid[c]) + 1 + refreshes'[c] <= made'[c] * (NRefreshes + 1)
    BY <1>1, <1>2, <2>1
  <2> QED BY <2>1, <2>2, NewIdSound
<1>6. ASSUME NEW m \in net, RecvRefresh(c, m)
      PROVE  IdsCounted' /\ CallsKnown' /\ OwnReply'
  <2>1. /\ refreshes[c] > 0 /\ refreshes'[c] = refreshes[c] - 1 /\ made' = made
        /\ result' = result /\ NextXid(c) /\ what' = what /\ cpc[c] = "poll"
        /\ \A d \in Clients : d # c => refreshes'[d] = refreshes[d] /\ cpc'[d] = cpc[d]
    BY <1>3, <1>6 DEF RecvRefresh, Goto
  <2>2. net' \subseteq net
    BY <1>6 DEF RecvRefresh, RecvFrom
  <2>3. /\ Ordinal(c, xid[c]) + 1 <= Budget
        /\ Ordinal(c, xid[c]) + 1 + refreshes'[c] <= made'[c] * (NRefreshes + 1)
    BY <1>1, <1>2, <2>1
  <2>4. result'[c] = {}
    BY <2>1 DEF IdsCounted
  <2> QED BY <2>1, <2>2, <2>3, <2>4, NewIdSound
<1>7. ASSUME cpc[c] # "idle" PROVE Ordinal(c, xid[c]) > 0 /\ result[c] = {}
  BY <1>7 DEF IdsCounted
<1>8. ASSUME NEW reply, Finish(c, reply), UNCHANGED <<xid, what, made>>, cpc[c] # "idle",
             \A m \in net' : m \in net \/ m = OutMsg(c),
             \A r \in reply : r.of = OutMsg(c) /\ r.of \in executed
      PROVE  IdsCounted' /\ CallsKnown' /\ OwnReply'
  <2>1. /\ cpc'[c] = "idle" /\ result'[c] = reply /\ refreshes'[c] = 0
        /\ \A d \in Clients : d # c => /\ refreshes'[d] = refreshes[d]
                                        /\ cpc'[d] = cpc[d] /\ result'[d] = result[d]
    BY <1>3, <1>8 DEF Finish, Goto
  <2> QED BY <1>1, <1>7, <1>8, <2>1, SameIdSound
<1>9. ASSUME NEW l, Goto(c, l), UNCHANGED <<xid, what, made, refreshes, result>>, cpc[c] # "idle",
             \A m \in net' : m \in net \/ m = OutMsg(c)
      PROVE  IdsCounted' /\ CallsKnown' /\ OwnReply'
  <2>1. \A d \in Clients : d # c => cpc'[d] = cpc[d]
    BY <1>3, <1>9 DEF Goto
  <2> QED BY <1>1, <1>7, <1>9, <2>1, SameIdSound
<1>10. CASE CallSend(c)
  BY <1>8, <1>9, <1>10 DEF CallSend, SendTo
<1>11. CASE CallError(c)
  BY <1>8, <1>11 DEF CallError, network
<1>12. CASE PollTimeout(c)
  BY <1>8, <1>9, <1>12 DEF PollTimeout, network
<1>13. ASSUME NEW m \in net, RecvOther(c, m) PROVE IdsCounted' /\ CallsKnown' /\ OwnReply'
  <2>1. net' \subseteq net /\ UNCHANGED client
    BY <1>13 DEF RecvOther, RecvFrom
  <2>2. IdsCounted' /\ OwnReply'
    BY <2>1 DEF IdsCounted, OwnReply, OutMsg, client, server
  <2>3. \A x : CallKnown(x) => CallKnown(x)'
    BY <2>1, KnownStays DEF client
  <2> QED BY <2>1, <2>2, <2>3, CallsStayKnown DEF server
<1>14. ASSUME NEW m \in net, RecvReply(c, m) PROVE IdsCounted' /\ CallsKnown' /\ OwnReply'
  <2>1. net' \subseteq net /\ cpc[c] # "idle" /\ UNCHANGED <<xid, what, made>>
    BY <1>14 DEF RecvReply, RecvFrom
  <2>2. CASE Finish(c, {})
    BY <1>8, <2>1, <2>2
  <2>3. CASE m.ok /\ Finish(c, {m})
    <3>1. m.type = "reply" /\ m.to = c /\ m.xid = xid[c]
      BY <1>14 DEF RecvReply, ForClient, Proper
    <3>2. ReplyKnown(m)
      BY <3>1 DEF CallsKnown
    <3>3. m.of = OutMsg(c) /\ m.of \in executed
      BY <2>3, <3>1, <3>2 DEF ReplyKnown, CallKnown
    <3> QED BY <1>8, <2>1, <2>3, <3>3
  <2> QED BY <1>14, <2>2, <2>3 DEF RecvReply
<1> QED BY <1>4, <1>5, <1>6, <1>10, <1>11, <1>12, <1>13, <1>14 DEF ClientNext, ClientStep

\* The server leaves the handles alone.
LEMMA HandlesStay ==
  ASSUME IdsCounted, OwnReply, UNCHANGED client, executed \subseteq executed'
  PROVE  /\ IdsCounted' /\ OwnReply'
         /\ \A m : CallKnown(m) => CallKnown(m)'
         /\ \A r : ReplyKnown(r) => ReplyKnown(r)'
         /\ \A b : BodyKnown(b) => BodyKnown(b)'
<1>1. IdsCounted' /\ OwnReply'
  BY DEF IdsCounted, OwnReply, OutMsg, client
<1>2. \A m : CallKnown(m) => CallKnown(m)'
  BY KnownStays DEF client
<1> QED BY <1>1, <1>2, RepliesStayKnown

\* The ids of the handles are apart: a cached reply to a call with the id of m
\* is the reply to a call of the handle that sent m.
LEMMA HitKnown ==
  ASSUME XidsApart, RpcSound, NEW m \in CallMsg, CallKnown(m), NEW n \in CacheGet(m)
  PROVE  ReplyKnown(Datagram(contents[n.reply], m.from))
<1> DEFINE b == contents[n.reply]
<1>1. n.reply \in Buffers /\ b \in Body /\ b.xid = m.xid
  BY HitIs DEF RpcSound
<1>2. BodyKnown(b) /\ b.of \in CallMsg
  BY <1>1 DEF RpcSound, CallsKnown, Body
<1> HIDE DEF b
<1>3. b.of.xid = m.xid /\ b.of.from \in Clients /\ m.from \in Clients /\ m.xid \in Xids
  BY <1>1, <1>2 DEF BodyKnown, CallMsg
<1>4. \A d \in Clients : Ordinal(d, xid[d]) \in Nat /\ Ordinal(d, xid[d]) <= Budget /\ Budget \in Nat
  BY OrdinalBound DEF RpcSound
<1>5. /\ Ordinal(b.of.from, m.xid) \in 1 .. Budget
      /\ Ordinal(m.from, m.xid) \in 1 .. Budget
  BY <1>2, <1>3, <1>4 DEF BodyKnown, CallKnown
<1>6. b.of.from = m.from
  BY <1>3, <1>5 DEF XidsApart
<1> QED BY <1>2, <1>6 DEF ReplyKnown, BodyKnown, Datagram, b

LEMMA ServerSound ==
  ASSUME XidsApart, RpcSound, ServerNext, UNCHANGED client
  PROVE  IdsCounted' /\ CallsKnown' /\ OwnReply'
<1> USE DEF RpcSound
<1>1. executed \subseteq executed'
  BY DEF ServerNext, EnableCache, RecvMiss, RecvHit, ServeCall, ServeSilent, ServeError
<1>2. /\ IdsCounted' /\ OwnReply'
      /\ \A m : CallKnown(m) => CallKnown(m)'
      /\ \A r : ReplyKnown(r) => ReplyKnown(r)'
      /\ \A b : BodyKnown(b) => BodyKnown(b)'
  BY <1>1, HandlesStay
<1>3. CASE EnableCache
  BY <1>1, <1>2, <1>3, CallsStayKnown DEF EnableCache, network
<1>4. ASSUME NEW m \in net, m.type = "call", NEW post, RecvFrom(m, post),
             \A r \in post : r.type = "reply" /\ ReplyKnown(r),
             msg' = m, contents' = [contents EXCEPT ![rpc_buffer] = CallBytes]
      PROVE  CallsKnown'
  <2>1. CallKnown(m)
    BY <1>4 DEF CallsKnown
  <2>2. \A x \in net' : IF x.type = "call" THEN CallKnown(x)' ELSE ReplyKnown(x)'
    BY <1>2, <1>4 DEF RecvFrom, CallsKnown
  <2>3. \A b \in Buffers : contents'[b].type = "body" => contents'[b] = contents[b]
    BY <1>4, MsgType DEF CacheSound, CacheShape, CacheTypes
  <2>4. \A b \in Buffers : contents'[b].type = "body" => BodyKnown(contents[b])'
    <3> SUFFICES ASSUME NEW b \in Buffers, contents'[b].type = "body" PROVE BodyKnown(contents[b])'
      OBVIOUS
    <3>1. PICK v : v = contents[b]
      OBVIOUS
    <3>2. BodyKnown(v)'
      BY <1>2, <2>3, <3>1 DEF CallsKnown
    <3>3. contents'[b] = v
      BY <2>3, <3>1
    <3> QED BY <3>2, <3>3 DEF BodyKnown, CallKnown
  <2>5. CallKnown(msg)'
    <3>1. CallKnown(m)'
      BY <1>2, <2>1
    <3> QED BY <1>4, <3>1 DEF CallKnown
  <2> QED BY <2>2, <2>4, <2>5 DEF CallsKnown
<1>5. ASSUME NEW m \in net, RecvMiss(m) PROVE CallsKnown'
  BY <1>4, <1>5 DEF RecvMiss
<1>6. ASSUME NEW m \in net, RecvHit(m) PROVE CallsKnown'
  <2>1. m \in CallMsg /\ CallKnown(m)
    BY <1>6, NetType DEF RecvHit, CallsKnown
  <2>2. PICK n \in CacheGet(m) : RecvFrom(m, {Datagram(contents[n.reply], m.from)})
    BY <1>6 DEF RecvHit
  <2>3. ReplyKnown(Datagram(contents[n.reply], m.from))
    BY <2>1, HitKnown
  <2>4. Datagram(contents[n.reply], m.from).type = "reply"
    BY DEF Datagram
  <2> QED BY <1>4, <1>6, <2>2, <2>3, <2>4 DEF RecvHit
<1>7. ASSUME spc = "serve", NEW ok \in BOOLEAN, Reply(ok), Done, ok => msg \in executed'
      PROVE  CallsKnown'
  <2> DEFINE body == [type |-> "body", xid |-> msg.xid, of |-> msg, ok |-> ok]
             answer == Datagram(body, msg.from)
  <2>1. /\ contents' = [contents EXCEPT ![rpc_buffer] = body] /\ contents'[rpc_buffer] = body
        /\ rpc_buffer \in Buffers
    BY <1>7 DEF Reply, CacheSound, CacheShape, CacheTypes
  <2>2. PICK m : m = msg
    OBVIOUS
  <2>3. CallKnown(m)' /\ (ok => m \in executed')
    BY <1>2, <1>7, <2>2 DEF CallsKnown
  <2>4. PICK v : v = body
    OBVIOUS
  <2>5. v.of = m /\ v.xid = m.xid /\ v.ok = ok /\ v.type = "body"
    BY <2>2, <2>4
  <2>6. BodyKnown(v)'
    BY <2>3, <2>5 DEF BodyKnown
  <2>7. PICK r : r = answer
    OBVIOUS
  <2>8. r.of = m /\ r.xid = m.xid /\ r.ok = ok /\ r.type = "reply" /\ r.to = m.from
    BY <2>2, <2>7 DEF Datagram
  <2>9. ReplyKnown(r)'
    BY <2>3, <2>8 DEF ReplyKnown
  <2>10. \A x \in net' : x \in net \/ x = r
    BY <1>7, <2>1, <2>7 DEF Reply, SendTo, network
  <2>11. \A x \in net' : IF x.type = "call" THEN CallKnown(x)' ELSE ReplyKnown(x)'
    BY <1>2, <2>8, <2>9, <2>10 DEF CallsKnown
  <2>12. \A b \in Buffers : contents'[b].type = "body" => BodyKnown(contents[b])'
    <3> SUFFICES ASSUME NEW b \in Buffers, contents'[b].type = "body" PROVE BodyKnown(contents[b])'
      OBVIOUS
    <3>1. PICK w : w = contents'[b]
      OBVIOUS
    <3>2. w = v \/ w = contents[b]
      BY <2>1, <2>4, <3>1 DEF CacheSound, CacheShape, CacheTypes
    <3>3. BodyKnown(w)'
      BY <1>2, <2>6, <3>1, <3>2 DEF CallsKnown
    <3> QED BY <3>1, <3>3 DEF BodyKnown, CallKnown
  <2>13. spc' # "serve"
    BY <1>7 DEF Done
  <2> QED BY <2>11, <2>12, <2>13 DEF CallsKnown
<1>8. CASE ServeCall
  <2>1. spc = "serve" /\ Reply(TRUE) /\ Done /\ msg \in executed'
    BY <1>8 DEF ServeCall
  <2> QED BY <1>2, <1>7, <2>1
<1>9. CASE ServeError
  <2>1. spc = "serve" /\ Reply(FALSE) /\ Done
    BY <1>9 DEF ServeError
  <2> QED BY <1>2, <1>7, <2>1
<1>10. CASE ServeSilent
  <2>1. UNCHANGED <<net, contents>> /\ spc' = "idle"
    BY <1>10 DEF ServeSilent, network, Done
  <2>2. \A x \in net' : IF x.type = "call" THEN CallKnown(x)' ELSE ReplyKnown(x)'
    BY <1>2, <2>1 DEF CallsKnown
  <2>3. \A b \in Buffers : contents'[b].type = "body" => BodyKnown(contents[b])'
    BY <1>2, <2>1 DEF CallsKnown
  <2>4. spc' # "serve"
    BY <2>1
  <2> QED BY <1>2, <2>2, <2>3, <2>4 DEF CallsKnown
<1> QED BY <1>2, <1>3, <1>5, <1>6, <1>8, <1>9, <1>10 DEF ServerNext

LEMMA InitRpcSound == Init => RpcSound
<1> SUFFICES ASSUME Init PROVE RpcSound
  OBVIOUS
<1>1. TypeOK /\ CacheSound
  BY InitCacheSound
<1>2. \A c \in Clients : Ordinal(c, xid[c]) = 0 /\ refreshes[c] = 0 /\ made[c] = 0 /\ result[c] = {}
                         /\ cpc[c] = "idle"
  BY ClientAssumption DEF Init, ClientInit, Ordinal
<1>3. 0 * (NRefreshes + 1) = 0
  BY ClientAssumption
<1>4. IdsCounted
  BY <1>2, <1>3 DEF IdsCounted
<1>5. CallsKnown
  BY MsgType DEF Init, ServerInit, CallsKnown
<1>6. OwnReply
  BY <1>2 DEF OwnReply
<1> QED BY <1>1, <1>4, <1>5, <1>6 DEF RpcSound

LEMMA StepRpcSound == XidsApart /\ RpcSound /\ [Next]_vars => RpcSound'
<1> SUFFICES ASSUME XidsApart, RpcSound, [Next]_vars PROVE RpcSound'
  OBVIOUS
<1>1. TypeOK' /\ CacheSound'
  BY StepCacheSound DEF RpcSound
<1>2. CASE (\E c \in Clients : ClientNext(c)) /\ UNCHANGED server
  BY <1>1, <1>2, ClientSound DEF RpcSound
<1>3. CASE ServerNext /\ UNCHANGED client
  BY <1>1, <1>3, ServerSound DEF RpcSound
<1>4. CASE UNCHANGED vars
  <2>1. UNCHANGED <<client, server, net, spc, msg, contents, executed>>
    BY <1>4 DEF vars, network, server
  <2>2. /\ IdsCounted' /\ OwnReply' /\ \A m : CallKnown(m) => CallKnown(m)'
    BY <2>1, HandlesStay DEF RpcSound
  <2>3. CallsKnown'
    BY <2>1, <2>2, CallsStayKnown DEF RpcSound
  <2> QED BY <1>1, <2>2, <2>3 DEF RpcSound
<1> QED BY <1>2, <1>3, <1>4 DEF Next

\* As long as no two handles use one transaction id, every call that is met
\* anywhere is one its handle made, under an id it used for no other call.
THEOREM RpcIsSound == XidsApart => (Spec => []RpcSound)
<1> SUFFICES ASSUME XidsApart PROVE Spec => []RpcSound
  OBVIOUS
<1>1. RpcSound /\ [Next]_vars => RpcSound'
  BY StepRpcSound
<1> QED BY <1>1, InitRpcSound, PTL DEF Spec

\* clntudp_call returns RPC_SUCCESS only with the reply to its own call, for any
\* number of handles, calls and losses, and any cache.
THEOREM RepliesAreOwn == XidsApart => (Spec => []OwnReply)
<1> SUFFICES ASSUME XidsApart PROVE Spec => []OwnReply
  OBVIOUS
<1>1. RpcSound => OwnReply
  BY DEF RpcSound
<1>2. Spec => []RpcSound
  BY RpcIsSound
<1> QED BY <1>1, <1>2, PTL

-----------------------------------------------------------------------------
(* The registry and loop of a server over TCP: constants and types. *)

LEMMA BoundsType == NFd \in Nat \ {0} /\ MaxConns \in Nat \ {0}
  BY SvcRunAssumption

LEMMA FdType == Listener \in Fd /\ Fd \subseteq Int /\ -1 \notin Fd /\ Closed # Listening
  BY BoundsType DEF Fd, Listener, Closed, Listening

LEMMA ConnType == \A c \in Conn : c \in Nat /\ c # Closed /\ c # Listening
  BY SvcRunAssumption DEF Conn, Closed, Listening

LEMMA NewType == NewTransport \in Transport /\ NewTransport # NULL
<1>1. NewTransport \in Transport
  BY DEF NewTransport, Transport
<1> QED BY <1>1, SvcRunAssumption

LEMMA TransportNotNull == \A x \in Transport : x # NULL
  BY SvcRunAssumption

LEMMA LimitType == limit \in Limits => limit \in Nat \ {0}
  BY SvcRunAssumption

\* The sockets of connections are neither closed nor listening.
LEMMA OnConnectionType ==
  ASSUME RunTypeOK, TransportsIdle, ServedExists, NEW f \in Fd
  PROVE  /\ sock[f] \in Conn => f # Listener
         /\ xports[f] # NULL /\ f # Listener => sock[f] \in Conn
         /\ sock[f] \in Conn => sock[f] # Closed /\ sock[f] # Listening
  BY ConnType, FdType DEF RunTypeOK, TransportsIdle

-----------------------------------------------------------------------------
LEMMA InitSound == RunInit => SvcSound
<1> SUFFICES ASSUME RunInit PROVE SvcSound
  OBVIOUS
<1> USE FdType, NewType DEF RunInit, Serving, InRound
<1>1. svc_pollfd \in Seq(Fd \cup {-1}) /\ svc_max_pollfd = Len(svc_pollfd) /\ svc_max_pollfd \in Nat
  OBVIOUS
<1>2. RunTypeOK
  <2>1. sock \in [Fd -> {Closed, Listening} \cup Conn] /\ xports \in [Fd -> Transport \cup {NULL}]
    OBVIOUS
  <2>2. backlog \in Seq(Conn) /\ arrived \in 0 .. MaxConns /\ wire \in [Conn -> Nat]
    BY BoundsType
  <2>3. my_pollfd \in Seq([fd : Fd \cup {-1}, revents : {"none", "POLLIN", "POLLNVAL"}])
    OBVIOUS
  <2> QED BY <1>1, <2>1, <2>2, <2>3 DEF RunTypeOK, RunPlaces
<1>3. SlotsExact
  <2>1. CASE svc_pollfd = <<-1, Listener>>
    BY <2>1, <1>1 DEF SlotsExact
  <2>2. CASE svc_pollfd = <<-1, -1, Listener>>
    BY <2>2, <1>1 DEF SlotsExact
  <2> QED BY <2>1, <2>2
<1>4. TransportsIdle
  BY DEF TransportsIdle, NewTransport
<1> QED BY <1>2, <1>3, <1>4 DEF SvcSound, ServedExists, CopyFresh, RoundSound

\* What peers do is not seen by svc_run before it looks.
LEMMA PeersSound ==
  ASSUME SvcSound, Peers
  PROVE  SvcSound'
<1> USE DEF SvcSound, registry, round, ghosts
<1>1. UNCHANGED <<limit, sock, xports, svc_pollfd, svc_max_pollfd, pc, my_pollfd, i, fds_found,
                  pollretval, fd, exited>>
  BY DEF Peers, Connect, Send, HangUp
<1>2. RunTypeOK'
  <2>1. CASE Connect
    <3>1. arrived + 1 \in Conn
      BY <2>1, SvcRunAssumption DEF Connect, RunTypeOK, Conn
    <3> QED BY <1>1, <2>1, <3>1, SvcRunAssumption DEF Connect, RunTypeOK
  <2>2. ASSUME NEW c \in Conn, Send(c) PROVE RunTypeOK'
    BY <1>1, <2>2 DEF Send, RunTypeOK
  <2>3. ASSUME NEW c \in Conn, HangUp(c) PROVE RunTypeOK'
    BY <1>1, <2>3 DEF HangUp, RunTypeOK
  <2> QED BY <2>1, <2>2, <2>3 DEF Peers
<1>3. SlotsExact' /\ TransportsIdle' /\ ServedExists'
  BY <1>1 DEF SlotsExact, TransportsIdle, ServedExists, Serving
<1>4. CopyFresh' /\ RoundSound'
  BY <1>1 DEF CopyFresh, RoundSound, Entry, Reported, InRound, Serving
<1> QED BY <1>2, <1>3, <1>4

LEMMA ExitSound ==
  ASSUME Careless = {}, SvcSound, SvcExit
  PROVE  SvcSound'
<1> USE DEF SvcSound, SvcExit, Noticed, round
<1>1. RunTypeOK'
  BY DEF RunTypeOK, RunPlaces, kernel
<1>2. SlotsExact'
  BY DEF SlotsExact
<1>3. TransportsIdle' /\ ServedExists'
  BY DEF TransportsIdle, ServedExists, Serving, kernel
<1>4. CopyFresh'
  BY DEF CopyFresh
<1>5. RoundSound'
  BY DEF RoundSound, InRound, Serving, Entry, Reported
<1> QED BY <1>1, <1>2, <1>3, <1>4, <1>5

\* Until svc_exit the slots are those of svc_pollfd.
LEMMA SlotsKnown ==
  ASSUME RunTypeOK, SlotsExact
  PROVE  /\ svc_pollfd # NULL <=> ~exited
         /\ ~exited => Slots = 1 .. svc_max_pollfd
<1>1. ASSUME ~exited PROVE svc_pollfd \in Seq(Int)
  <2>1. svc_pollfd \in Seq(Fd \cup {-1}) /\ Fd \cup {-1} \subseteq Int
    BY <1>1, FdType DEF SlotsExact
  <2> QED BY <2>1
<1> QED BY <1>1, SvcRunAssumption DEF SlotsExact, Slots

LEMMA CheckSound ==
  ASSUME SvcSound, Check
  PROVE  SvcSound'
<1> USE DEF SvcSound, Check, Go, kernel, registry, ghosts
<1>1. ServedExists' /\ RoundSound'
  BY DEF ServedExists, RoundSound, InRound, Serving
<1>2. SlotsExact' /\ TransportsIdle'
  BY DEF SlotsExact, TransportsIdle, Serving
<1>3. CASE svc_pollfd = NULL
  BY <1>1, <1>2, <1>3 DEF RunTypeOK, RunPlaces, CopyFresh
<1>4. CASE svc_pollfd # NULL
  <2>1. ~exited /\ Slots = 1 .. svc_max_pollfd
    BY <1>4, SlotsKnown
  <2>2. my_pollfd' = [k \in 1 .. svc_max_pollfd |-> [fd |-> svc_pollfd[k], revents |-> "none"]]
    BY <1>4, <2>1
  <2>3. \A k \in 1 .. svc_max_pollfd : svc_pollfd[k] \in Fd \cup {-1}
    BY <2>1 DEF SlotsExact
  <2>4. my_pollfd' \in Seq([fd : Fd \cup {-1}, revents : {"none", "POLLIN", "POLLNVAL"}])
    BY <2>2, <2>3 DEF RunTypeOK
  <2>5. RunTypeOK'
    BY <1>4, <2>4 DEF RunTypeOK, RunPlaces
  <2>6. CopyFresh'
    BY <1>4, <2>1, <2>2 DEF CopyFresh, Entry, RunTypeOK
  <2> QED BY <1>1, <1>2, <2>5, <2>6
<1> QED BY <1>3, <1>4

LEMMA EnterSound ==
  ASSUME SvcSound, Enter
  PROVE  SvcSound'
<1> USE DEF SvcSound, Enter, Go, kernel, registry, ghosts
<1>1. my_pollfd' = my_pollfd
  BY DEF RunTypeOK, CopyFresh
<1>2. RunTypeOK'
  BY <1>1 DEF RunTypeOK, RunPlaces
<1>3. ServedExists' /\ RoundSound' /\ SlotsExact' /\ TransportsIdle'
  BY DEF ServedExists, RoundSound, InRound, Serving, SlotsExact, TransportsIdle
<1>4. CopyFresh'
  BY <1>1 DEF CopyFresh, Entry
<1> QED BY <1>2, <1>3, <1>4

-----------------------------------------------------------------------------
(* Entries of the copy with an event, counted. *)

LEMMA EntryType ==
  ASSUME RunTypeOK
  PROVE  /\ Len(my_pollfd) \in Nat /\ Entry = 1 .. Len(my_pollfd) /\ IsFiniteSet(Entry)
         /\ \A k \in Entry :
              /\ k \in Nat
              /\ my_pollfd[k] \in [fd : Fd \cup {-1}, revents : {"none", "POLLIN", "POLLNVAL"}]
              /\ my_pollfd[k].fd \in Fd \cup {-1}
<1>1. Len(my_pollfd) \in Nat /\ Entry = 1 .. Len(my_pollfd)
  BY DEF RunTypeOK, Entry
<1>2. IsFiniteSet(Entry)
  BY <1>1, FS_Interval
<1> DEFINE R == [fd : Fd \cup {-1}, revents : {"none", "POLLIN", "POLLNVAL"}]
<1>3. \A k \in Entry : my_pollfd[k] \in R
  <2>1. my_pollfd \in Seq(R)
    BY DEF RunTypeOK
  <2> HIDE DEF R
  <2> QED BY <1>1, <2>1
<1>4. \A k \in Entry : my_pollfd[k].fd \in Fd \cup {-1}
  BY <1>3
<1>5. \A k \in Entry : k \in Nat
  BY <1>1
<1> QED BY <1>1, <1>2, <1>3, <1>4, <1>5

LEMMA EntriesCounted ==
  ASSUME RunTypeOK, NEW k \in Int
  PROVE  /\ IsFiniteSet(Reported(k)) /\ Cardinality(Reported(k)) \in Nat
         /\ \A l \in Int : k <= l => Cardinality(Reported(k)) <= Cardinality(Reported(l))
<1>1. Len(my_pollfd) \in Nat /\ Entry = 1 .. Len(my_pollfd)
  BY DEF RunTypeOK, Entry
<1>2. ASSUME NEW l \in Int PROVE IsFiniteSet(Reported(l))
  <2>1. IsFiniteSet(1 .. Len(my_pollfd)) /\ Reported(l) \subseteq 1 .. Len(my_pollfd)
    BY <1>1, FS_Interval DEF Reported
  <2> QED BY <2>1, FS_Subset
<1>3. ASSUME NEW l \in Int, k <= l PROVE Cardinality(Reported(k)) <= Cardinality(Reported(l))
  <2>1. Reported(k) \subseteq Reported(l)
    BY <1>1, <1>3 DEF Reported
  <2> QED BY <2>1, <1>2, FS_Subset
<1> QED BY <1>2, <1>3, FS_CardinalityType

\* Going past an entry counts it if it has an event.
LEMMA EntryCounted ==
  ASSUME RunTypeOK, NEW k \in Entry
  PROVE  Cardinality(Reported(k + 1)) =
           Cardinality(Reported(k)) + (IF my_pollfd[k].revents = "none" THEN 0 ELSE 1)
<1>1. Len(my_pollfd) \in Nat /\ Entry = 1 .. Len(my_pollfd) /\ k \in Int
  BY DEF RunTypeOK, Entry
<1>2. CASE my_pollfd[k].revents = "none"
  <2>1. Reported(k + 1) = Reported(k)
    BY <1>1, <1>2 DEF Reported
  <2> QED BY <1>1, <1>2, <2>1, EntriesCounted
<1>3. CASE my_pollfd[k].revents # "none"
  <2>1. Reported(k + 1) = Reported(k) \cup {k} /\ k \notin Reported(k)
    BY <1>1, <1>3 DEF Reported
  <2> QED BY <1>1, <1>3, <2>1, EntriesCounted, FS_AddElement
<1> QED BY <1>2, <1>3

LEMMA PollSound ==
  ASSUME Careless = {}, SvcSound, Poll
  PROVE  SvcSound'
<1> USE DEF SvcSound, Poll, Go, kernel, registry, ghosts
<1> DEFINE R == [fd : Fd \cup {-1}, revents : {"none", "POLLIN", "POLLNVAL"}]
<1>1. Len(my_pollfd) \in Nat /\ Entry = 1 .. Len(my_pollfd) /\ IsFiniteSet(Entry)
  BY EntryType
<1>2. \A k \in Entry : my_pollfd[k] \in R /\ my_pollfd[k].fd \in Fd \cup {-1}
  BY EntryType
<1>3. my_pollfd' = [k \in Entry |-> [my_pollfd[k] EXCEPT !.revents =
                     IF k \in Refused THEN "POLLNVAL" ELSE IF k \in Found THEN "POLLIN" ELSE "none"]]
  OBVIOUS
<1>4. \A k \in Entry :
        /\ my_pollfd'[k] \in R
        /\ my_pollfd'[k].fd = my_pollfd[k].fd
        /\ my_pollfd'[k].revents = IF k \in Refused THEN "POLLNVAL"
                                   ELSE IF k \in Found THEN "POLLIN" ELSE "none"
  BY <1>2, <1>3
<1>5. Len(my_pollfd') = Len(my_pollfd) /\ Entry' = Entry /\ my_pollfd' \in Seq(R)
  BY <1>1, <1>3, <1>4 DEF Entry
<1>6. IsFiniteSet(Refused) /\ IsFiniteSet(Found)
  <2>1. IsFiniteSet(Entry) /\ Refused \subseteq Entry /\ Found \subseteq Entry
    BY <1>1 DEF Refused, Found, Asked
  <2> QED BY <2>1, FS_Subset
<1>7. pollretval' \in Nat /\ (pollretval' = Cardinality(Refused) \/ pollretval' = Cardinality(Found))
  BY <1>6, FS_CardinalityType
<1>8. RunTypeOK'
  BY <1>5, <1>7 DEF RunTypeOK, RunPlaces
<1>9. SlotsExact' /\ TransportsIdle' /\ ServedExists' /\ CopyFresh'
  BY DEF SlotsExact, TransportsIdle, ServedExists, CopyFresh, Serving
<1>10. RoundSound'
  <2>1. fds_found' = Cardinality(Reported(i)')
    <3>1. Reported(i)' = {}
      BY <1>1, <1>5 DEF Reported
    <3> QED BY <3>1, FS_EmptySet
  <2>2. pollretval' <= Cardinality(Reported(Len(my_pollfd) + 1)')
    <3>1. Refused \cup Found = Reported(Len(my_pollfd) + 1)'
      BY <1>1, <1>4, <1>5 DEF Reported, Refused, Found, Asked
    <3>2. IsFiniteSet(Reported(Len(my_pollfd) + 1)')
      BY <1>6, <3>1, FS_Union
    <3> QED BY <1>6, <1>7, <3>1, <3>2, FS_Subset
  <2>3. \A k, l \in Entry' : my_pollfd'[k].fd = my_pollfd'[l].fd /\ my_pollfd'[k].fd # -1 => k = l
    BY <1>1, <1>4, <1>5 DEF CopyFresh, SlotsExact
  <2>4. \A k \in Entry' : my_pollfd'[k].revents # "none" => my_pollfd'[k].fd \in Fd
    <3>1. limit \in Nat \ {0}
      BY LimitType DEF RunTypeOK
    <3>2. \A k \in Refused \cup Found : my_pollfd[k].fd \in Fd
      BY <1>2, <3>1, FdType DEF Refused, Found, Asked
    <3> QED BY <1>4, <1>5, <3>2
  <2>5. \A k \in Entry' : my_pollfd'[k].revents = "POLLNVAL" => xports'[my_pollfd'[k].fd] # NULL
    BY <1>1, <1>4, <1>5, <2>4 DEF CopyFresh, SlotsExact
  <2> QED BY <1>1, <1>5, <2>1, <2>2, <2>3, <2>4, <2>5 DEF RoundSound, Serving
<1> QED BY <1>8, <1>9, <1>10

-----------------------------------------------------------------------------
(* The round. *)

\* xprt_unregister keeps the slots exact.
LEMMA UnregisterSound ==
  ASSUME SvcSound, NEW f \in Fd, Unregister(f), UNCHANGED exited
  PROVE  /\ SlotsExact'
         /\ svc_max_pollfd' = svc_max_pollfd
         /\ xports' = [xports EXCEPT ![f] = NULL]
         /\ xports' \in [Fd -> Transport \cup {NULL}]
<1> USE DEF SvcSound, Unregister
<1>1. xports' \in [Fd -> Transport \cup {NULL}]
  BY DEF RunTypeOK
<1>2. CASE exited
  <2>1. svc_pollfd' = NULL
    BY <1>2 DEF SlotsExact
  <2> QED BY <1>1, <1>2, <2>1 DEF SlotsExact
<1>3. CASE ~exited
  <2>1. svc_pollfd # NULL /\ Slots = 1 .. svc_max_pollfd
    BY <1>3, SlotsKnown
  <2>2. svc_pollfd' = [k \in 1 .. svc_max_pollfd |->
                         IF svc_pollfd[k] = f THEN -1 ELSE svc_pollfd[k]]
    BY <2>1
  <2>3. svc_pollfd' \in Seq(Fd \cup {-1}) /\ Len(svc_pollfd') = svc_max_pollfd
    BY <1>3, <2>2 DEF RunTypeOK, SlotsExact
  <2>4. \A k, l \in 1 .. svc_max_pollfd :
          svc_pollfd'[k] = svc_pollfd'[l] /\ svc_pollfd'[k] # -1 => k = l
    BY <1>3, <2>2 DEF SlotsExact
  <2>5. ASSUME NEW g \in Fd
        PROVE  xports'[g] # NULL <=> \E k \in 1 .. svc_max_pollfd : svc_pollfd'[k] = g
    <3>1. CASE g = f
      BY <2>2, <3>1, FdType DEF RunTypeOK
    <3>2. CASE g # f
      <4>1. xports'[g] = xports[g]
        BY <3>2 DEF RunTypeOK
      <4>2. xports[g] # NULL <=> \E k \in 1 .. svc_max_pollfd : svc_pollfd[k] = g
        BY <1>3 DEF SlotsExact
      <4>3. \A k \in 1 .. svc_max_pollfd : svc_pollfd'[k] = g <=> svc_pollfd[k] = g
        BY <2>2, <3>2, FdType
      <4> QED BY <4>1, <4>2, <4>3
    <3> QED BY <3>1, <3>2
  <2>6. svc_max_pollfd' = svc_max_pollfd /\ ~exited'
    BY <1>3
  <2>7. SlotsExact'
    <3> HIDE DEF SvcSound, Unregister
    <3>1. svc_max_pollfd' = Len(svc_pollfd')
      BY <2>3, <2>6
    <3>2. \A k, l \in 1 .. svc_max_pollfd' :
            svc_pollfd'[k] = svc_pollfd'[l] /\ svc_pollfd'[k] # -1 => k = l
      BY <2>4, <2>6
    <3>3. \A g \in Fd : xports'[g] # NULL <=> \E k \in 1 .. svc_max_pollfd' : svc_pollfd'[k] = g
      BY <2>5, <2>6
    <3> QED BY <2>3, <2>6, <3>1, <3>2, <3>3 DEF SlotsExact
  <2> QED BY <1>1, <2>6, <2>7
<1> QED BY <1>1, <1>2, <1>3

\* The entry the round comes to is in the copy.
LEMMA EntryThere ==
  ASSUME SvcSound, pc = "serve", More
  PROVE  i \in Entry /\ Cardinality(Reported(i + 1)) \in Nat
<1>1. i \in 1 .. Len(my_pollfd) + 1 /\ pollretval <= Cardinality(Reported(Len(my_pollfd) + 1))
      /\ fds_found = Cardinality(Reported(i))
  BY DEF SvcSound, RoundSound, InRound
<1>2. RunTypeOK /\ Len(my_pollfd) \in Nat /\ Entry = 1 .. Len(my_pollfd)
  BY EntryType DEF SvcSound
<1>3. Cardinality(Reported(i)) \in Nat /\ Cardinality(Reported(i + 1)) \in Nat
  <2>1. i \in Int /\ i + 1 \in Int
    BY <1>1, <1>2
  <2>2. \A k \in Int : Cardinality(Reported(k)) \in Nat
    BY <1>2, EntriesCounted
  <2> QED BY <2>1, <2>2
<1>4. i # Len(my_pollfd) + 1
  <2>1. fds_found < pollretval /\ pollretval \in Nat
    BY <1>2 DEF More, RunTypeOK
  <2> QED BY <1>1, <1>3, <2>1
<1> QED BY <1>1, <1>2, <1>3, <1>4

LEMMA ServeNextSound ==
  ASSUME SvcSound, ServeNext
  PROVE  SvcSound'
<1> USE DEF SvcSound
<1> DEFINE f == my_pollfd[i].fd
           revents == my_pollfd[i].revents
           known == revents # "none" /\ xports[f] # NULL
<1>1. pc = "serve" /\ i \in Entry /\ i \in Nat /\ Len(my_pollfd) \in Nat
      /\ Entry = 1 .. Len(my_pollfd)
  BY EntryThere, EntryType DEF ServeNext
<1>2. /\ i' = i + 1
      /\ fds_found' = fds_found + (IF revents = "none" THEN 0 ELSE 1)
      /\ IF revents = "POLLNVAL" /\ known THEN Unregister(f) ELSE UNCHANGED registry
      /\ pc' = IF revents = "POLLNVAL" /\ ~known THEN "wild"
               ELSE IF revents = "POLLIN" /\ known THEN "recv" ELSE "serve"
      /\ fd' = IF pc' = "recv" THEN f ELSE fd
      /\ UNCHANGED <<kernel, my_pollfd, pollretval, ghosts>>
  BY <1>1 DEF ServeNext
<1>3. /\ revents # "none" => f \in Fd
      /\ revents = "POLLNVAL" => known
      /\ pc' \in {"serve", "recv"}
      /\ pc' = "recv" => known /\ fd' = f
  BY <1>1, <1>2 DEF RoundSound, InRound
<1>4. /\ svc_max_pollfd' = svc_max_pollfd /\ SlotsExact'
      /\ xports' \in [Fd -> Transport \cup {NULL}]
      /\ xports' = IF revents = "POLLNVAL" THEN [xports EXCEPT ![f] = NULL] ELSE xports
  <2>1. CASE revents = "POLLNVAL"
    <3>1. f \in Fd /\ Unregister(f) /\ UNCHANGED exited
      BY <1>2, <1>3, <2>1 DEF ghosts
    <3> QED BY <2>1, <3>1, UnregisterSound
  <2>2. CASE revents # "POLLNVAL"
    <3>1. UNCHANGED registry /\ UNCHANGED exited
      BY <1>2, <2>2 DEF ghosts
    <3> QED BY <2>2, <3>1 DEF registry, RunTypeOK, SlotsExact
  <2> QED BY <2>1, <2>2
<1>5. RunTypeOK'
  <2>1. fd' \in Fd /\ i' \in Nat /\ fds_found' \in Nat /\ pc' \in RunPlaces
    BY <1>1, <1>2, <1>3 DEF RunTypeOK, RunPlaces
  <2> QED BY <1>2, <1>4, <2>1 DEF RunTypeOK, kernel, ghosts
<1>6. TransportsIdle'
  <2>1. pc = "serve" => ~Serving
    BY DEF Serving
  <2> QED BY <1>1, <1>2, <1>4, <2>1 DEF TransportsIdle, kernel
<1>7. ServedExists'
  <2>1. ~exited
    <3>1. svc_max_pollfd # 0
      BY <1>1 DEF ServeNext, More
    <3> QED BY <3>1 DEF SlotsExact
  <2> QED BY <1>2, <1>3, <1>4, <2>1 DEF ServedExists, Serving, ghosts
<1>8. CopyFresh'
  BY <1>3 DEF CopyFresh
<1>9. RoundSound'
  <2>1. Entry' = Entry /\ \A k : Reported(k)' = {j \in Entry : j < k' /\ my_pollfd[j].revents # "none"}
    BY <1>2 DEF Entry, Reported
  <2>2. Reported(i)' = Reported(i + 1) /\ Reported(Len(my_pollfd) + 1)' = Reported(Len(my_pollfd) + 1)
    BY <1>2 DEF Entry, Reported
  <2>3. fds_found' = Cardinality(Reported(i)')
    BY <1>1, <1>2, <2>2, EntryCounted DEF RoundSound, InRound
  <2>4. ASSUME NEW k \in Entry, k >= i', my_pollfd[k].revents = "POLLNVAL"
        PROVE  xports'[my_pollfd[k].fd] # NULL
    <3>1. my_pollfd[k].fd \in Fd /\ xports[my_pollfd[k].fd] # NULL
      BY <1>1, <1>2, <2>4 DEF RoundSound, InRound
    <3>2. my_pollfd[k].fd # f
      BY <1>1, <1>2, <2>4, <3>1, FdType DEF RoundSound, InRound
    <3> QED BY <1>4, <3>1, <3>2 DEF RunTypeOK
  <2>5. i' \in 1 .. Len(my_pollfd) + 1 /\ (Serving' => i' > 1 /\ fd' = my_pollfd[i' - 1].fd)
    BY <1>1, <1>2, <1>3 DEF Serving
  <2>6. /\ \A k, l \in Entry : my_pollfd[k].fd = my_pollfd[l].fd /\ my_pollfd[k].fd # -1 => k = l
        /\ \A k \in Entry : my_pollfd[k].revents # "none" => my_pollfd[k].fd \in Fd
        /\ pollretval <= Cardinality(Reported(Len(my_pollfd) + 1))
    BY <1>1 DEF RoundSound, InRound
  <2>7. my_pollfd' = my_pollfd /\ pollretval' = pollretval
    BY <1>2
  <2> QED BY <2>1, <2>2, <2>3, <2>4, <2>5, <2>6, <2>7 DEF RoundSound
<1> QED BY <1>4, <1>5, <1>6, <1>7, <1>8, <1>9

LEMMA RoundOverSound ==
  ASSUME SvcSound, RoundOver
  PROVE  SvcSound'
<1> USE DEF SvcSound, RoundOver, Go, kernel, registry, ghosts
<1>1. RunTypeOK'
  BY FdType DEF RunTypeOK, RunPlaces
<1>2. TransportsIdle' /\ ServedExists'
  BY DEF TransportsIdle, ServedExists, Serving
<1>3. SlotsExact' /\ CopyFresh' /\ RoundSound'
  BY DEF SlotsExact, CopyFresh, RoundSound, InRound, Serving
<1> QED BY <1>1, <1>2, <1>3

-----------------------------------------------------------------------------
(* Serving a transport. *)

\* A step that serves changes neither the copy nor where the round is, so the
\* round stays sound if no entry that poll refused loses its transport.
LEMMA RoundKept ==
  ASSUME SvcSound, Serving, UNCHANGED round, UNCHANGED fd,
         pc' \in {"serve", "recv", "dispatch", "stat"},
         \A k \in Entry : k >= i /\ my_pollfd[k].revents = "POLLNVAL" =>
           xports'[my_pollfd[k].fd] # NULL
  PROVE  RoundSound' /\ CopyFresh'
<1> USE DEF SvcSound, round
<1>1. Entry' = Entry /\ Reported(i)' = Reported(i)
      /\ Reported(Len(my_pollfd) + 1)' = Reported(Len(my_pollfd) + 1)
  BY DEF Entry, Reported
<1>2. CopyFresh'
  BY DEF CopyFresh
<1>3. RoundSound'
  BY <1>1 DEF RoundSound, InRound, Serving
<1> QED BY <1>2, <1>3

\* The transport being served is not among those the round still comes to.
LEMMA ServedIsPast ==
  ASSUME SvcSound, Serving, NEW k \in Entry, k >= i
  PROVE  my_pollfd[k].fd # fd
<1>1. i > 1 /\ fd = my_pollfd[i - 1].fd /\ i \in 1 .. Len(my_pollfd) + 1 /\ fd \in Fd /\ i \in Int
  BY DEF SvcSound, RoundSound, InRound, Serving, RunTypeOK
<1>2. i - 1 \in Entry /\ k \in Nat /\ fd # -1
  BY <1>1, EntryType, FdType DEF SvcSound
<1>3. my_pollfd[k].fd = my_pollfd[i - 1].fd /\ my_pollfd[k].fd # -1 => k = i - 1
  BY <1>2 DEF SvcSound, RoundSound, InRound, Serving
<1> QED BY <1>1, <1>2, <1>3

\* xprt_register on a descriptor no transport has.
LEMMA RegisterSound ==
  ASSUME SvcSound, ~exited, ~exited', NEW f \in Fd, xports[f] = NULL, Register(f)
  PROVE  /\ SlotsExact' /\ svc_max_pollfd' \in Nat
         /\ xports' = [xports EXCEPT ![f] = NewTransport]
         /\ xports' \in [Fd -> Transport \cup {NULL}]
<1> USE DEF SvcSound
<1>1. /\ svc_pollfd # NULL /\ Slots = 1 .. svc_max_pollfd
      /\ svc_pollfd \in Seq(Fd \cup {-1}) /\ svc_max_pollfd = Len(svc_pollfd)
      /\ svc_max_pollfd \in Nat
  BY SlotsKnown DEF SlotsExact, RunTypeOK
<1>2. xports' = [xports EXCEPT ![f] = NewTransport] /\ xports' \in [Fd -> Transport \cup {NULL}]
  BY NewType DEF Register, RunTypeOK
<1>3. \A g \in Fd : xports'[g] # NULL <=> g = f \/ xports[g] # NULL
  BY <1>2, NewType DEF RunTypeOK
<1>4. \A k \in 1 .. svc_max_pollfd : svc_pollfd[k] # f
  BY DEF SlotsExact
<1>5. CASE Empty # {}
  <2>1. PICK n \in Lowest(Empty) : svc_pollfd' = [svc_pollfd EXCEPT ![n] = f]
    BY <1>5 DEF Register
  <2>2. n \in 1 .. svc_max_pollfd /\ svc_pollfd[n] = -1
    BY <1>1, <2>1 DEF Lowest, Empty
  <2>3. svc_max_pollfd' = svc_max_pollfd
    BY <1>5 DEF Register
  <2>4. svc_pollfd' \in Seq(Fd \cup {-1}) /\ Len(svc_pollfd') = svc_max_pollfd'
    BY <1>1, <2>1, <2>2, <2>3
  <2>5. \A k \in 1 .. svc_max_pollfd : svc_pollfd'[k] = IF k = n THEN f ELSE svc_pollfd[k]
    BY <1>1, <2>1
  <2>6. \A k, l \in 1 .. svc_max_pollfd' :
          svc_pollfd'[k] = svc_pollfd'[l] /\ svc_pollfd'[k] # -1 => k = l
    BY <1>4, <2>3, <2>5 DEF SlotsExact
  <2>7. \A g \in Fd : xports'[g] # NULL <=> \E k \in 1 .. svc_max_pollfd' : svc_pollfd'[k] = g
    BY <1>3, <2>2, <2>3, <2>5, FdType DEF SlotsExact
  <2> QED BY <1>1, <1>2, <2>3, <2>4, <2>6, <2>7 DEF SlotsExact
<1>6. CASE Empty = {}
  <2>1. svc_pollfd' = Append(svc_pollfd, f) /\ svc_max_pollfd' = svc_max_pollfd + 1
    BY <1>1, <1>6 DEF Register
  <2>2. svc_pollfd' \in Seq(Fd \cup {-1}) /\ Len(svc_pollfd') = svc_max_pollfd'
    BY <1>1, <2>1
  <2>3. \A k \in 1 .. svc_max_pollfd' :
          svc_pollfd'[k] = IF k = svc_max_pollfd + 1 THEN f ELSE svc_pollfd[k]
    BY <1>1, <2>1
  <2>4. \A k, l \in 1 .. svc_max_pollfd' :
          svc_pollfd'[k] = svc_pollfd'[l] /\ svc_pollfd'[k] # -1 => k = l
    BY <1>1, <1>4, <2>1, <2>3 DEF SlotsExact
  <2>5. \A g \in Fd : xports'[g] # NULL <=> \E k \in 1 .. svc_max_pollfd' : svc_pollfd'[k] = g
    BY <1>1, <1>3, <2>1, <2>3 DEF SlotsExact
  <2> QED BY <1>1, <1>2, <2>1, <2>2, <2>4, <2>5 DEF SlotsExact
<1> QED BY <1>5, <1>6

LEMMA AcceptSound ==
  ASSUME SvcSound, Accept
  PROVE  SvcSound'
<1> USE DEF SvcSound
<1>1. /\ pc = "recv" /\ Serving /\ fd = Listener /\ ~exited /\ ~exited' /\ pc' = "serve"
      /\ UNCHANGED <<limit, arrived, wire, round, fd, exited>>
  BY DEF Accept, Serving, TransportsIdle, ServedExists, RunTypeOK, ghosts
<1>2. CASE Free = {}
  <2>1. UNCHANGED <<sock, backlog, xports, svc_pollfd, svc_max_pollfd>>
    BY <1>2 DEF Accept, registry
  <2>2. RunTypeOK'
    BY <1>1, <2>1 DEF RunTypeOK, RunPlaces, round
  <2>3. SlotsExact' /\ ServedExists'
    BY <1>1, <2>1 DEF SlotsExact, ServedExists, Serving
  <2>4. TransportsIdle'
    BY <1>1, <2>1 DEF TransportsIdle, Serving
  <2>5. RoundSound' /\ CopyFresh'
    BY <1>1, <2>1, RoundKept, EntryType DEF RoundSound, InRound
  <2> QED BY <2>2, <2>3, <2>4, <2>5
<1>3. CASE Free # {}
  <2>1. PICK f \in Lowest(Free) : /\ sock' = [sock EXCEPT ![f] = Head(backlog)]
                                  /\ backlog' = Tail(backlog) /\ Register(f)
    BY <1>3 DEF Accept
  <2>2. f \in Fd /\ sock[f] = Closed
    BY <2>1 DEF Lowest, Free
  <2>3. xports[f] = NULL /\ f # Listener
    BY <2>2, FdType DEF TransportsIdle
  <2>4. backlog # <<>> /\ Head(backlog) \in Conn /\ backlog' \in Seq(Conn)
    BY <2>1 DEF Accept, RunTypeOK
  <2>5. /\ SlotsExact' /\ svc_max_pollfd' \in Nat
        /\ xports' = [xports EXCEPT ![f] = NewTransport]
        /\ xports' \in [Fd -> Transport \cup {NULL}]
    BY <1>1, <2>1, <2>2, <2>3, RegisterSound
  <2>6. RunTypeOK'
    BY <1>1, <2>1, <2>2, <2>4, <2>5 DEF RunTypeOK, RunPlaces, round
  <2>7. TransportsIdle'
    <3>1. Head(backlog) # Closed /\ Head(backlog) # Listening /\ NewTransport.buf = 0
      BY <2>4, ConnType DEF NewTransport
    <3> QED BY <1>1, <2>1, <2>2, <2>3, <2>5, <3>1 DEF TransportsIdle, Serving, RunTypeOK
  <2>8. \A g \in Fd : xports[g] # NULL => xports'[g] # NULL
    BY <2>5, NewType DEF RunTypeOK
  <2>9. RoundSound' /\ CopyFresh'
    <3>1. \A k \in Entry : k >= i /\ my_pollfd[k].revents = "POLLNVAL" =>
            xports'[my_pollfd[k].fd] # NULL
      BY <1>1, <2>8, EntryType DEF RoundSound, InRound
    <3> QED BY <1>1, <3>1, RoundKept
  <2> QED BY <1>1, <2>5, <2>6, <2>7, <2>9 DEF ServedExists, Serving
<1> QED BY <1>2, <1>3

\* A step of the transport being served: it goes on, or waits with an empty
\* buffer.
LEMMA TransportChanged ==
  ASSUME SvcSound, Serving, fd # Listener, NEW x \in Transport,
         xports' = [xports EXCEPT ![fd] = x],
         pc' \in {"recv", "dispatch", "stat"} \/ (pc' = "serve" /\ x.buf = 0),
         wire' \in [Conn -> Nat],
         UNCHANGED <<limit, sock, backlog, arrived, svc_pollfd, svc_max_pollfd, round, fd, exited>>
  PROVE  SvcSound'
<1> USE DEF SvcSound
<1>1. RunTypeOK'
  BY DEF RunTypeOK, RunPlaces, round
<1>2. x # NULL /\ \A f \in Fd : xports'[f] # NULL <=> xports[f] # NULL
  BY TransportNotNull DEF RunTypeOK, ServedExists
<1>3. SlotsExact'
  BY <1>2 DEF SlotsExact
<1>4. TransportsIdle'
  <2>1. /\ \A f \in Fd : f # fd => xports'[f] = xports[f]
        /\ xports'[fd] = x /\ fd \in Fd
    BY DEF RunTypeOK
  <2>2. CASE pc' = "serve" /\ x.buf = 0
    BY <1>2, <2>1, <2>2 DEF TransportsIdle, Serving
  <2>3. CASE pc' \in {"recv", "dispatch", "stat"}
    BY <1>2, <2>1, <2>3 DEF TransportsIdle, Serving
  <2> QED BY <2>2, <2>3
<1>5. ServedExists'
  BY <1>2 DEF ServedExists, Serving, RunTypeOK
<1>6. RoundSound' /\ CopyFresh'
  <2>1. \A k \in Entry : k >= i /\ my_pollfd[k].revents = "POLLNVAL" =>
          xports'[my_pollfd[k].fd] # NULL
    BY <1>2, EntryType DEF RoundSound, InRound
  <2> QED BY <2>1, RoundKept
<1> QED BY <1>1, <1>3, <1>4, <1>5, <1>6

\* What is served is a transport, and a connection unless it accepts.
LEMMA ServedType ==
  ASSUME SvcSound, Serving
  PROVE  /\ xports[fd] \in Transport /\ xports[fd].buf \in Nat
         /\ xports[fd].died \in BOOLEAN /\ xports[fd].rest \in BOOLEAN
         /\ sock[fd] \in Conn => fd # Listener
         /\ pc # "recv" => sock[fd] \in Conn /\ fd # Listener
<1>1. xports[fd] \in Transport
  BY DEF SvcSound, RunTypeOK, ServedExists
<1>2. xports[fd].buf \in Nat /\ xports[fd].died \in BOOLEAN /\ xports[fd].rest \in BOOLEAN
  BY <1>1 DEF Transport
<1>3. sock[fd] \in Conn => fd # Listener
  BY OnConnectionType DEF SvcSound, RunTypeOK
<1>4. pc # "recv" => sock[fd] \in Conn /\ fd # Listener
  BY OnConnectionType DEF SvcSound, RunTypeOK, ServedExists, Serving
<1> QED BY <1>1, <1>2, <1>3, <1>4

\* What a step makes of a transport is one.
LEMMA TransportParts ==
  ASSUME NEW x \in Transport, NEW n \in Nat, NEW d \in BOOLEAN, NEW r \in BOOLEAN
  PROVE  /\ [x EXCEPT !.buf = n] \in Transport
         /\ [x EXCEPT !.buf = n, !.rest = r] \in Transport
         /\ [x EXCEPT !.died = d] \in Transport /\ [x EXCEPT !.died = d].buf = x.buf
  BY DEF Transport

LEMMA ConnectionSound ==
  ASSUME SvcSound, Take \/ NoCall \/ TakeRest \/ Read \/ ReadFails \/ Dispatched
  PROVE  SvcSound'
<1> USE DEF OnConnection, WantsRest, Reading, Serving, kernel, ghosts, Go
<1>1. Serving /\ fd # Listener /\ sock[fd] \in Conn
  BY ServedType DEF Take, NoCall, TakeRest, Read, ReadFails, Dispatched
<1>2. /\ xports[fd] \in Transport /\ xports[fd].buf \in Nat
      /\ xports[fd].died \in BOOLEAN /\ xports[fd].rest \in BOOLEAN
  BY <1>1, ServedType
<1>3. wire \in [Conn -> Nat]
  BY DEF SvcSound, RunTypeOK
<1> HIDE DEF Serving
<1>4. CASE Take
  <2> DEFINE x == [xports[fd] EXCEPT !.buf = @ - 1, !.rest = TRUE]
  <2>1. x \in Transport
    <3>1. xports[fd].buf - 1 \in Nat
      BY <1>2, <1>4 DEF Take
    <3> QED BY <1>2, <3>1, TransportParts
  <2>2. xports' = [xports EXCEPT ![fd] = x]
    BY <1>4 DEF Take
  <2> QED BY <1>1, <1>3, <1>4, <2>1, <2>2, TransportChanged DEF Take
<1>5. CASE NoCall
  <2> DEFINE x == [xports[fd] EXCEPT !.died = TRUE]
  <2>1. x \in Transport
    BY <1>2, TransportParts
  <2>2. xports' = [xports EXCEPT ![fd] = x]
    BY <1>5 DEF NoCall
  <2> QED BY <1>1, <1>3, <1>5, <2>1, <2>2, TransportChanged DEF NoCall
<1>6. CASE TakeRest
  <2> DEFINE x == [xports[fd] EXCEPT !.buf = @ - 1, !.rest = FALSE]
  <2>1. x \in Transport
    <3>1. xports[fd].buf - 1 \in Nat
      BY <1>2, <1>6 DEF TakeRest
    <3> QED BY <1>2, <3>1, TransportParts
  <2>2. xports' = [xports EXCEPT ![fd] = x]
    BY <1>6 DEF TakeRest
  <2>3. pc' \in {"recv", "dispatch", "stat"}
    BY <1>6 DEF TakeRest
  <2> QED BY <1>1, <1>3, <1>6, <2>1, <2>2, <2>3, TransportChanged DEF TakeRest
<1>7. CASE Read
  <2>1. PICK n \in 1 .. wire[sock[fd]] :
          /\ wire' = [wire EXCEPT ![sock[fd]] = @ - n]
          /\ xports' = [xports EXCEPT ![fd].buf = n]
    BY <1>7 DEF Read
  <2> DEFINE x == [xports[fd] EXCEPT !.buf = n]
  <2>2. wire' \in [Conn -> Nat] /\ n \in Nat
    BY <1>1, <1>3, <2>1
  <2>3. x \in Transport
    BY <1>2, <2>2, TransportParts
  <2>4. xports' = [xports EXCEPT ![fd] = x]
    BY <2>1
  <2>5. pc' \in {"recv", "dispatch", "stat"}
    BY <1>7 DEF Read
  <2> QED BY <1>1, <1>7, <2>2, <2>3, <2>4, <2>5, TransportChanged DEF Read
<1>8. CASE ReadFails
  <2> DEFINE x == [xports[fd] EXCEPT !.died = TRUE]
  <2>1. x \in Transport /\ x.buf = xports[fd].buf
    BY <1>2, TransportParts
  <2>2. xports' = [xports EXCEPT ![fd] = x] /\ xports[fd].buf = 0
    BY <1>8 DEF ReadFails
  <2>3. pc' \in {"stat", "dispatch", "serve"}
    BY <1>8 DEF ReadFails
  <2> QED BY <1>1, <1>3, <1>8, <2>1, <2>2, <2>3, TransportChanged DEF ReadFails
<1>9. CASE Dispatched
  <2>1. PICK fails \in BOOLEAN : xports' = [xports EXCEPT ![fd].died = @ \/ fails]
    BY <1>9 DEF Dispatched
  <2> DEFINE d == xports[fd].died \/ fails
             x == [xports[fd] EXCEPT !.died = d]
  <2>2. x \in Transport
    <3>1. d \in BOOLEAN
      OBVIOUS
    <3> HIDE DEF d
    <3> QED BY <1>2, <3>1, TransportParts
  <2>3. xports' = [xports EXCEPT ![fd] = x]
    BY <2>1
  <2> QED BY <1>1, <1>3, <1>9, <2>2, <2>3, TransportChanged DEF Dispatched
<1> QED BY <1>4, <1>5, <1>6, <1>7, <1>8, <1>9

\* svctcp_destroy of a connection the round does not come to any more.
LEMMA DestroySound ==
  ASSUME SvcSound, pc \in {"dispatch", "stat"}, NEW f \in Fd, Destroy(f), f # Listener,
         UNCHANGED <<limit, backlog, arrived, wire, round, fd, exited>>,
         \/ (f = fd /\ pc' = "serve")
         \/ (f # fd /\ pc' = pc),
         \A k \in Entry : k >= i /\ my_pollfd[k].revents = "POLLNVAL" => my_pollfd[k].fd # f
  PROVE  SvcSound'
<1> USE DEF SvcSound
<1>1. Unregister(f) /\ sock' = [sock EXCEPT ![f] = Closed]
  BY DEF Destroy
<1>2. /\ SlotsExact' /\ svc_max_pollfd' = svc_max_pollfd
      /\ xports' = [xports EXCEPT ![f] = NULL] /\ xports' \in [Fd -> Transport \cup {NULL}]
  BY <1>1, UnregisterSound
<1>3. RunTypeOK'
  BY <1>1, <1>2 DEF RunTypeOK, RunPlaces, round
<1>4. TransportsIdle'
  BY <1>1, <1>2, FdType DEF TransportsIdle, Serving, RunTypeOK
<1>5. ServedExists'
  BY <1>2 DEF ServedExists, Serving, RunTypeOK
<1>6. RoundSound' /\ CopyFresh'
  <2>1. \A k \in Entry : k >= i /\ my_pollfd[k].revents = "POLLNVAL" =>
          xports'[my_pollfd[k].fd] # NULL
    BY <1>2, EntryType DEF RoundSound, InRound, Serving, RunTypeOK
  <2> QED BY <2>1, RoundKept DEF Serving
<1> QED BY <1>2, <1>3, <1>4, <1>5, <1>6

LEMMA DestroyInSound ==
  ASSUME Careless = {}, SvcSound, NEW f \in Fd, DestroyIn(f)
  PROVE  SvcSound'
<1>1. f # fd /\ pc = "dispatch" /\ pc' = pc /\ Destroy(f) /\ ~Awaited(f)
  BY DEF DestroyIn
<1>2. f # Listener
  BY OnConnectionType DEF DestroyIn, SvcSound
<1>3. \A k \in Entry : k >= i /\ my_pollfd[k].revents = "POLLNVAL" => my_pollfd[k].fd # f
  BY <1>1 DEF Awaited
<1>4. UNCHANGED <<limit, backlog, arrived, wire, round, fd, exited>>
  BY DEF DestroyIn
<1> QED BY <1>1, <1>2, <1>3, <1>4, DestroySound

LEMMA StatSound ==
  ASSUME SvcSound, Stat
  PROVE  SvcSound'
<1> USE ServedType DEF Stat, Serving, ghosts
<1>1. fd \in Fd /\ fd # Listener
  BY DEF SvcSound, RunTypeOK
<1>2. CASE xports[fd].died
  <2>1. \A k \in Entry : k >= i /\ my_pollfd[k].revents = "POLLNVAL" => my_pollfd[k].fd # fd
    BY ServedIsPast
  <2> QED BY <1>1, <1>2, <2>1, DestroySound
<1>3. CASE ~xports[fd].died
  <2>1. UNCHANGED <<limit, sock, backlog, arrived, wire, registry, round, fd, exited>>
    BY <1>3
  <2>2. \/ xports[fd].buf > 0 /\ pc' = "recv"
        \/ xports[fd].buf = 0 /\ pc' = "serve"
    BY <1>3
  <2>3. RunTypeOK' /\ SlotsExact'
    BY <2>1, <2>2 DEF SvcSound, RunTypeOK, SlotsExact, RunPlaces, registry, round
  <2>4. TransportsIdle' /\ ServedExists'
    BY <1>1, <2>1, <2>2 DEF SvcSound, TransportsIdle, ServedExists, registry
  <2>5. RoundSound' /\ CopyFresh'
    <3>1. \A k \in Entry : k >= i /\ my_pollfd[k].revents = "POLLNVAL" =>
            xports'[my_pollfd[k].fd] # NULL
      BY <2>1 DEF SvcSound, RoundSound, InRound, registry
    <3> QED BY <2>1, <2>2, <3>1, RoundKept
  <2> QED BY <2>3, <2>4, <2>5 DEF SvcSound
<1> QED BY <1>2, <1>3

-----------------------------------------------------------------------------
LEMMA StepSound == Careless = {} /\ SvcSound /\ [RunNext]_runvars => SvcSound'
<1> SUFFICES ASSUME Careless = {}, SvcSound, [RunNext]_runvars PROVE SvcSound'
  OBVIOUS
<1>1. CASE UNCHANGED runvars
  <2>1. UNCHANGED <<limit, sock, backlog, arrived, wire, xports, svc_pollfd, svc_max_pollfd, pc,
                    my_pollfd, i, fds_found, pollretval, fd, exited>>
    BY <1>1 DEF runvars, kernel, registry, round, ghosts
  <2>2. RunTypeOK' /\ SlotsExact' /\ TransportsIdle' /\ ServedExists'
    BY <2>1 DEF SvcSound, RunTypeOK, SlotsExact, TransportsIdle, ServedExists, Serving
  <2>3. CopyFresh' /\ RoundSound'
    BY <2>1 DEF SvcSound, CopyFresh, RoundSound, Entry, Reported, InRound, Serving
  <2> QED BY <2>2, <2>3 DEF SvcSound
<1>2. CASE Run
  BY <1>2, CheckSound, EnterSound, PollSound, ServeNextSound, RoundOverSound, AcceptSound,
     ConnectionSound, StatSound DEF Run
<1>3. CASE Peers \/ SvcExit
  BY <1>3, PeersSound, ExitSound
<1>4. CASE \E f \in Fd : DestroyIn(f)
  BY <1>4, DestroyInSound
<1> QED BY <1>1, <1>2, <1>3, <1>4 DEF RunNext

-----------------------------------------------------------------------------
(* The theorems. *)

\* The inductive invariant of the registry, the loop of svc_run and its copy
\* of svc_pollfd, when routines and handlers avoid what Careless names.
THEOREM ServerIsSound == Careless = {} => (RunSpec => []SvcSound)
<1>1. Careless = {} /\ RunInit => SvcSound
  BY InitSound
<1>2. Careless = {} /\ SvcSound /\ [RunNext]_runvars => SvcSound'
  BY StepSound
<1>3. CASE Careless = {}
  <2>1. SvcSound /\ [RunNext]_runvars => SvcSound'
    BY <1>2, <1>3
  <2> QED BY InitSound, <2>1, PTL DEF RunSpec
<1> QED BY <1>3

\* svc_getreq_poll stays inside its copy and serves only transports that
\* exist, though routines destroy transports and connections reuse descriptors
\* while it goes through a copy made before.
THEOREM ReadsAreSound == Careless = {} => (RunSpec => []NoWildRead)
<1>1. SvcSound => NoWildRead
  BY DEF SvcSound, RunTypeOK, RunPlaces, NoWildRead
<1> QED BY <1>1, ServerIsSound, PTL

\* When svc_run waits in poll, every transport is in one slot of the copy, and
\* no call is left in a buffer, where poll could not see it.
THEOREM PollSeesAll == Careless = {} => (RunSpec => []NothingMissed)
<1>1. SvcSound => NothingMissed
  <2> SUFFICES ASSUME SvcSound, pc = "poll", NEW f \in Fd, xports[f] # NULL
               PROVE  /\ xports[f].buf = 0
                      /\ Cardinality({k \in Entry : my_pollfd[k].fd = f}) = 1
    BY DEF NothingMissed
  <2>1. xports[f].buf = 0
    BY DEF SvcSound, TransportsIdle, Serving
  <2>2. /\ ~exited /\ Entry = 1 .. svc_max_pollfd
        /\ \A k \in Entry : my_pollfd[k].fd = svc_pollfd[k]
    BY EntryType DEF SvcSound, CopyFresh
  <2>3. PICK k \in Entry : svc_pollfd[k] = f
    BY <2>2 DEF SvcSound, SlotsExact
  <2>4. {j \in Entry : my_pollfd[j].fd = f} = {k}
    BY <2>2, <2>3, FdType DEF SvcSound, SlotsExact
  <2> QED BY <2>1, <2>4, FS_Singleton
<1> QED BY <1>1, ServerIsSound, PTL
=============================================================================
