------------------------------ MODULE ClntUdp ------------------------------
(***************************************************************************)
(* The client side of RPC over UDP, sunrpc/clnt_udp.c: clntudp_call sends  *)
(* the call, sends it again every cu_wait without an answer, and gives up  *)
(* once the time waited reaches the timeout.  An error reply may lead to   *)
(* new credentials and a new call under the next transaction id.           *)
(***************************************************************************)
EXTENDS Integers, Datagrams

CONSTANTS
    Clients,        \* client handles, each with its socket
    Procedures,     \* what a call asks for: program, version and procedure
    XidStart,       \* the xid _create_xid drew for each handle
    XidMod,         \* 2^32
    Wait,           \* cu_wait
    Timeouts,       \* timeouts of the calls through each handle
    NRefreshes,     \* initial value of nrefreshes
    Refreshing,     \* handles whose authenticator can refresh credentials
    MaxCalls        \* bound: calls made through each handle

ASSUME ClientAssumption ==
    /\ Procedures # {}
    /\ XidMod \in Nat \ {0}
    /\ XidStart \in [Clients -> 0 .. XidMod - 1]
    /\ Wait \in Nat \ {0}
    /\ Timeouts \in [Clients -> SUBSET Nat]
    /\ NRefreshes \in Nat /\ MaxCalls \in Nat

VARIABLES
    cpc,        \* where each handle is in clntudp_call
    xid,        \* the first word of cu_outbuf
    what,       \* the procedure of the last call
    timeout,    \* timeout of the last call
    waited,     \* time_waited
    refreshes,  \* nrefreshes
    result,     \* the reply the last call returned RPC_SUCCESS with, if it did
    made        \* calls made so far

client == << cpc, xid, what, timeout, waited, refreshes, result, made >>

Xids == 0 .. XidMod - 1
CallMsg == [type : {"call"}, from : Clients, xid : Xids, what : Procedures]

Goto(c, l) == cpc' = [cpc EXCEPT ![c] = l]

\* return re_status: RPC_SUCCESS with a reply, or one of the errors with {}.
\* The locals are gone.
Finish(c, reply) ==
    /\ Goto(c, "idle")
    /\ result' = [result EXCEPT ![c] = reply]
    /\ timeout' = [timeout EXCEPT ![c] = 0]
    /\ waited' = [waited EXCEPT ![c] = 0]
    /\ refreshes' = [refreshes EXCEPT ![c] = 0]

\* The call in the out buffer.
OutMsg(c) == [type |-> "call", from |-> c, xid |-> xid[c], what |-> what[c]]

NextXid(c) == xid' = [xid EXCEPT ![c] = (@ + 1) % XidMod]

\* clntudp_call up to the first sendto.
CallStart(c, w, t) ==
    /\ cpc[c] = "idle" /\ made[c] < MaxCalls
    /\ made' = [made EXCEPT ![c] = @ + 1]
    /\ what' = [what EXCEPT ![c] = w]
    /\ timeout' = [timeout EXCEPT ![c] = t]
    /\ refreshes' = [refreshes EXCEPT ![c] = NRefreshes]
    /\ result' = [result EXCEPT ![c] = {}]
    /\ NextXid(c)
    /\ Goto(c, "send")
    /\ UNCHANGED << network, waited >>

\* RPC_CANTENCODEARGS: the transaction id is used up.
CallCantEncode(c, w) ==
    /\ cpc[c] = "idle" /\ made[c] < MaxCalls
    /\ made' = [made EXCEPT ![c] = @ + 1]
    /\ what' = [what EXCEPT ![c] = w]
    /\ NextXid(c)
    /\ Finish(c, {})
    /\ UNCHANGED network

\* send_again.  A timeout of 0 is a message nobody waits for an answer to.
CallSend(c) ==
    /\ cpc[c] = "send"
    /\ SendTo(OutMsg(c))
    /\ \/ timeout[c] = 0 /\ Finish(c, {})
       \/ timeout[c] # 0 /\ Goto(c, "poll") /\ UNCHANGED << timeout, waited, refreshes, result >>
    /\ UNCHANGED << xid, what, made >>

\* RPC_CANTSEND, or, when poll or recvfrom fails or no interface is up,
\* RPC_CANTRECV.
CallError(c) ==
    /\ cpc[c] # "idle"
    /\ Finish(c, {})
    /\ UNCHANGED << network, xid, what, made >>

\* Mutant: time_waited is not counted.
PollTimeoutUncounted(c) ==
    /\ cpc[c] = "poll"
    /\ \/ waited[c] + Wait < timeout[c] /\ Goto(c, "send")
          /\ UNCHANGED << timeout, waited, refreshes, result >>
       \/ waited[c] + Wait >= timeout[c] /\ Finish(c, {})
    /\ UNCHANGED << network, xid, what, made >>

\* poll returns 0: no datagram came for cu_wait.
PollTimeout(c) ==
    /\ cpc[c] = "poll"
    /\ \/ /\ waited[c] + Wait < timeout[c]
          /\ waited' = [waited EXCEPT ![c] = @ + Wait]
          /\ Goto(c, "send")
          /\ UNCHANGED << timeout, refreshes, result >>
       \/ waited[c] + Wait >= timeout[c] /\ Finish(c, {})
    /\ UNCHANGED << network, xid, what, made >>

ForClient(c, m) == m \in net /\ m.type = "reply" /\ m.to = c

\* Mutant: any reply will do.
ProperAlways(c, m) == TRUE

\* "see if reply transaction id matches sent id"
Proper(c, m) == m.xid = xid[c]

\* A datagram with another transaction id is read and forgotten.
RecvOther(c, m) ==
    /\ cpc[c] = "poll" /\ ForClient(c, m)
    /\ ~Proper(c, m)
    /\ RecvFrom(m, {})
    /\ UNCHANGED client

\* The proper reply.  RPC_CANTDECODERES if recvfrom cut it off.
RecvReply(c, m) ==
    /\ cpc[c] = "poll" /\ ForClient(c, m)
    /\ Proper(c, m)
    /\ RecvFrom(m, {})
    /\ \/ m.ok /\ Finish(c, {m})
       \/ Finish(c, {})
    /\ UNCHANGED << xid, what, made >>

\* An error reply, and the authenticator has new credentials: call_again.
RecvRefresh(c, m) ==
    /\ cpc[c] = "poll" /\ ForClient(c, m)
    /\ Proper(c, m) /\ ~m.ok
    /\ refreshes[c] > 0 /\ c \in Refreshing
    /\ RecvFrom(m, {})
    /\ refreshes' = [refreshes EXCEPT ![c] = @ - 1]
    /\ NextXid(c)
    /\ Goto(c, "send")
    /\ UNCHANGED << what, timeout, waited, result, made >>

ClientInit ==
    /\ cpc = [c \in Clients |-> "idle"]
    /\ xid = XidStart
    /\ what \in [Clients -> {CHOOSE w \in Procedures : TRUE}]
    /\ timeout = [c \in Clients |-> 0]
    /\ waited = [c \in Clients |-> 0]
    /\ refreshes = [c \in Clients |-> 0]
    /\ result = [c \in Clients |-> {}]
    /\ made = [c \in Clients |-> 0]

\* What clntudp_call does by itself once it is called.
ClientStep(c) ==
    \/ CallSend(c) \/ CallError(c) \/ PollTimeout(c)
    \/ \E m \in net : RecvOther(c, m) \/ RecvReply(c, m) \/ RecvRefresh(c, m)

ClientNext(c) ==
    \/ \E w \in Procedures, t \in Timeouts[c] : CallStart(c, w, t)
    \/ \E w \in Procedures : CallCantEncode(c, w)
    \/ ClientStep(c)
=============================================================================
