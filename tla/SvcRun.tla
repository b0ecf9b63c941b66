------------------------------- MODULE SvcRun -------------------------------
(***************************************************************************)
(* An RPC server over TCP: the transports registered in sunrpc/svc.c, the  *)
(* loop of svc_run (svc_run.c), the rendezvous transport that accepts      *)
(* connections and the connections themselves (svc_tcp.c).                 *)
(*                                                                         *)
(* A descriptor belongs to one transport at most, so that a transport is   *)
(* known by its descriptor.  A call is two halves, its header and its      *)
(* arguments, which need not arrive together.  External: poll, on a kernel *)
(* that has Fpoll (limit is NFd) or emulated with Fselect (unix/poll.c:    *)
(* descriptors from limit on are refused with POLLNVAL, and Fselect does   *)
(* not count them); the lowest free descriptor is used first; the routine  *)
(* a call is for.  Memory does not run out.                                *)
(***************************************************************************)
EXTENDS Integers, Sequences, FiniteSets

CONSTANTS
  NFd,       \* _rpc_dtablesize
  Limits,    \* descriptors poll can handle: NFd, or less when emulated
  MaxConns,  \* bound: connections peers make
  MaxSent,   \* bound: halves of calls the peers send
  NULL,
  Careless   \* what is not avoided: svc_exit in a "signal" handler at any
             \* time, a routine that destroys its "own" transport or one with
             \* a "stale" entry in the copy, "urgent" data, which Fselect
             \* counts a second time

\* strm_stat is XPRT_DIED; halves in the buffer; the arguments of the call read
\* last are still to come out of it.
Transport == [died : BOOLEAN, buf : Nat, rest : BOOLEAN]

ASSUME SvcRunAssumption ==
  /\ {NFd, MaxConns} \subseteq Nat \ {0} /\ MaxSent \in Nat
  /\ Limits \subseteq 1 .. NFd
  /\ NULL \notin Seq(Int) /\ NULL \notin Transport

VARIABLES
  limit,
  sock,            \* what a descriptor is: Closed, Listening or a connection
  backlog,         \* connections not accepted yet
  arrived,         \* connections made so far
  wire,            \* halves of calls waiting in the socket of each connection
  sent,            \* halves sent so far
  hung,            \* connections whose peer has hung up
  xports,          \* the transport of each descriptor
  svc_pollfd,      \* descriptors to poll, -1 in an empty slot
  svc_max_pollfd,
  pc,              \* where svc_run is
  my_pollfd,       \* its copy: [fd, revents]
  i, fds_found, pollretval,
  fd,              \* of the transport being served
  excused,         \* ghost: connections dropped by the program or after a stall
  exited           \* ghost: svc_exit was called

kernel == <<limit, sock, backlog, arrived, wire, sent, hung>>
registry == <<xports, svc_pollfd, svc_max_pollfd>>
round == <<my_pollfd, i, fds_found, pollretval>>
ghosts == <<excused, exited>>
runvars == <<kernel, registry, pc, round, fd, ghosts>>

Fd == 0 .. NFd - 1
Conn == 1 .. MaxConns
Listener == 0
Closed == -1
Listening == 0
NewTransport == [died |-> FALSE, buf |-> 0, rest |-> FALSE]
Lowest(S) == {k \in S : \A l \in S : k <= l}
Slots == IF svc_pollfd = NULL THEN {} ELSE 1 .. svc_max_pollfd

-----------------------------------------------------------------------------
(* Peers *)

Connect == /\ arrived < MaxConns
           /\ arrived' = arrived + 1
           /\ backlog' = Append(backlog, arrived + 1)
           /\ UNCHANGED <<limit, sock, wire, sent, hung, registry, pc, round, fd, ghosts>>

\* Half a call; the peer does not notice what the server has done.
Send(c) == /\ c <= arrived /\ c \notin hung /\ sent < MaxSent
           /\ wire' = [wire EXCEPT ![c] = @ + 1]
           /\ sent' = sent + 1
           /\ UNCHANGED <<limit, sock, backlog, arrived, hung, registry, pc, round, fd, ghosts>>

HangUp(c) == /\ c <= arrived /\ c \notin hung
             /\ hung' = hung \cup {c}
             /\ UNCHANGED <<limit, sock, backlog, arrived, wire, sent, registry, pc, round, fd, ghosts>>

Peers == Connect \/ \E c \in Conn : Send(c) \/ HangUp(c)

-----------------------------------------------------------------------------
(* The registry (svc.c) *)

\* xprt_register: into an empty slot, or into a longer array.
Empty == {k \in Slots : svc_pollfd[k] = -1}
Register(f) ==
  /\ xports' = [xports EXCEPT ![f] = NewTransport]
  /\ IF Empty # {}
       THEN /\ \E k \in Lowest(Empty) : svc_pollfd' = [svc_pollfd EXCEPT ![k] = f]
            /\ UNCHANGED svc_max_pollfd
       ELSE /\ svc_max_pollfd' = svc_max_pollfd + 1
            /\ svc_pollfd' = IF svc_pollfd = NULL THEN <<f>> ELSE Append(svc_pollfd, f)

\* Mutant: the slot stays.
UnregisterKept(f) ==
  /\ xports' = [xports EXCEPT ![f] = NULL]
  /\ UNCHANGED <<svc_pollfd, svc_max_pollfd>>

\* xprt_unregister
Unregister(f) ==
  /\ xports' = [xports EXCEPT ![f] = NULL]
  /\ svc_pollfd' = IF svc_pollfd = NULL THEN NULL
                   ELSE [k \in Slots |-> IF svc_pollfd[k] = f THEN -1 ELSE svc_pollfd[k]]
  /\ UNCHANGED svc_max_pollfd

\* svctcp_destroy
Destroy(f) == Unregister(f) /\ sock' = [sock EXCEPT ![f] = Closed]

\* Where svc_exit may come.
Noticed == {"check", "poll", "serve", "dispatch", "stat"}

\* Mutant: poll goes on waiting after the signal handler.
SvcExitRestart ==
  /\ ~exited /\ pc \in Noticed
  /\ svc_pollfd' = NULL /\ svc_max_pollfd' = 0 /\ exited' = TRUE
  /\ UNCHANGED <<kernel, xports, pc, round, fd, excused>>

\* svc_exit, called by a routine or by a signal handler; poll returns EINTR.
SvcExit ==
  /\ ~exited /\ pc # "returned"
  /\ pc \in Noticed \/ "signal" \in Careless
  /\ svc_pollfd' = NULL /\ svc_max_pollfd' = 0
  /\ pc' = (IF pc = "poll" THEN "check" ELSE pc)
  /\ exited' = TRUE
  /\ UNCHANGED <<kernel, xports, round, fd, excused>>

-----------------------------------------------------------------------------
(* svc_run and svc_getreq_poll *)

Go(from, to) == pc = from /\ pc' = to

\* The loop of svc_run ends, or copies svc_pollfd.
Check ==
  /\ \/ /\ svc_pollfd = NULL /\ svc_max_pollfd = 0
        /\ Go("check", "returned")
        /\ UNCHANGED my_pollfd
     \/ /\ svc_pollfd # NULL
        /\ Go("check", "copied")
        /\ my_pollfd' = [k \in Slots |-> [fd |-> svc_pollfd[k], revents |-> "none"]]
  /\ UNCHANGED <<kernel, registry, i, fds_found, pollretval, fd, ghosts>>

\* poll looks at svc_max_pollfd entries, as many as there are now.
Enter ==
  /\ Go("copied", "poll")
  /\ my_pollfd' = SubSeq(my_pollfd, 1, svc_max_pollfd)
  /\ UNCHANGED <<kernel, registry, i, fds_found, pollretval, fd, ghosts>>

Readable(f) == IF sock[f] = Listening THEN backlog # <<>>
               ELSE sock[f] # Closed /\ (wire[sock[f]] > 0 \/ sock[f] \in hung)

Entry == DOMAIN my_pollfd
Refused == {k \in Entry : my_pollfd[k].fd >= limit}
Asked == {k \in Entry : my_pollfd[k].fd \in 0 .. limit - 1}
Found == {k \in Asked : Readable(my_pollfd[k].fd)}

\* Refused descriptors alone end the wait; otherwise only the others do, and
\* only they are counted.
Poll ==
  /\ Go("poll", "serve")
  /\ IF Asked = {} THEN Refused # {} /\ pollretval' = Cardinality(Refused)
     ELSE /\ Found # {}
          /\ pollretval' \in Cardinality(Found) ..
               (IF "urgent" \in Careless THEN 2 ELSE 1) * Cardinality(Found)
  /\ my_pollfd' = [k \in Entry |-> [my_pollfd[k] EXCEPT !.revents =
                     IF k \in Refused THEN "POLLNVAL" ELSE IF k \in Found THEN "POLLIN" ELSE "none"]]
  /\ i' = 1 /\ fds_found' = 0
  /\ UNCHANGED <<kernel, registry, fd, ghosts>>

\* Mutant: every slot is looked at, whatever poll returned.
MoreSlots == i <= svc_max_pollfd

More == i <= svc_max_pollfd /\ fds_found < pollretval

\* The next entry of the copy, which was made before the routines ran.
ServeNext ==
  /\ pc = "serve" /\ More
  /\ i' = i + 1
  /\ IF i \notin Entry
       THEN pc' = "wild" /\ UNCHANGED <<registry, fds_found, fd>>
     ELSE LET f == my_pollfd[i].fd
              revents == my_pollfd[i].revents
              known == revents # "none" /\ xports[f] # NULL IN
       /\ fds_found' = fds_found + (IF revents = "none" THEN 0 ELSE 1)
       /\ IF revents = "POLLNVAL" /\ known
            THEN Unregister(f) ELSE UNCHANGED registry
       /\ pc' = IF revents = "POLLNVAL" /\ ~known THEN "wild"
                ELSE IF revents = "POLLIN" /\ known THEN "recv" ELSE "serve"
       /\ fd' = IF pc' = "recv" THEN f ELSE fd
  /\ UNCHANGED <<kernel, my_pollfd, pollretval, ghosts>>

RoundOver ==
  /\ ~More /\ Go("serve", "check")
  /\ my_pollfd' = <<>> /\ i' = 1 /\ fds_found' = 0 /\ pollretval' = 0 /\ fd' = Listener
  /\ UNCHANGED <<kernel, registry, ghosts>>

-----------------------------------------------------------------------------
(* svc_getreq_common, with the operations of svc_tcp.c *)

Free == {f \in Fd : sock[f] = Closed}

\* rendezvous_request: a transport for the connection, or no descriptor left.
Accept ==
  /\ pc = "recv" /\ sock[fd] = Listening /\ backlog # <<>>
  /\ IF Free = {} THEN UNCHANGED <<sock, backlog, registry>>
     ELSE \E f \in Lowest(Free) :
            /\ sock' = [sock EXCEPT ![f] = Head(backlog)]
            /\ backlog' = Tail(backlog)
            /\ Register(f)
  /\ pc' = "serve"
  /\ UNCHANGED <<limit, arrived, wire, sent, hung, round, fd, ghosts>>

OnConnection == pc = "recv" /\ sock[fd] \in Conn

\* svctcp_recv reads the header of a call, which is for some routine.
Take ==
  /\ OnConnection /\ ~xports[fd].rest /\ xports[fd].buf > 0
  /\ xports' = [xports EXCEPT ![fd].buf = @ - 1, ![fd].rest = TRUE]
  /\ pc' = "dispatch"
  /\ UNCHANGED <<kernel, svc_pollfd, svc_max_pollfd, round, fd, ghosts>>

\* svctcp_recv: no header of a call.
NoCall ==
  /\ OnConnection /\ ~xports[fd].rest /\ xports[fd].buf > 0
  /\ xports' = [xports EXCEPT ![fd].died = TRUE]
  /\ excused' = excused \cup {sock[fd]}
  /\ pc' = "stat"
  /\ UNCHANGED <<kernel, svc_pollfd, svc_max_pollfd, round, fd, exited>>

\* The rest of a record is wanted: by svctcp_recv before the next one, by
\* svctcp_getargs for the routine, by xdrrec_eof in svctcp_stat.
WantsRest == /\ OnConnection \/ pc = "dispatch" \/ (pc = "stat" /\ ~xports[fd].died)
             /\ xports[fd].rest

TakeRest ==
  /\ WantsRest /\ xports[fd].buf > 0
  /\ xports' = [xports EXCEPT ![fd].buf = @ - 1, ![fd].rest = FALSE]
  /\ UNCHANGED <<kernel, svc_pollfd, svc_max_pollfd, pc, round, fd, ghosts>>

\* An empty buffer is filled.
Reading == (OnConnection \/ WantsRest) /\ xports[fd].buf = 0

\* readtcp: as much as read returns.
Read ==
  /\ Reading
  /\ \E n \in 1 .. wire[sock[fd]] :
       /\ wire' = [wire EXCEPT ![sock[fd]] = @ - n]
       /\ xports' = [xports EXCEPT ![fd].buf = n]
  /\ UNCHANGED <<limit, sock, backlog, arrived, sent, hung, svc_pollfd, svc_max_pollfd, pc, round,
                 fd, ghosts>>

\* readtcp: the peer has hung up, or sent nothing for 35 seconds.  The routine
\* goes on without arguments; xdrrec_eof takes it for the end of what came.
ReadFails ==
  /\ Reading /\ (wire[sock[fd]] = 0 \/ sock[fd] \in hung)
  /\ xports' = [xports EXCEPT ![fd].died = TRUE]
  /\ excused' = IF xports[fd].rest THEN excused \cup {sock[fd]} ELSE excused
  /\ pc' = CASE pc = "recv" -> "stat" [] pc = "dispatch" -> "dispatch" [] pc = "stat" -> "serve"
  /\ UNCHANGED <<kernel, svc_pollfd, svc_max_pollfd, round, fd, exited>>

\* The routine returns; its reply can not be written when the peer is gone.
Dispatched ==
  /\ Go("dispatch", "stat")
  /\ \E fails \in BOOLEAN : /\ fails => sock[fd] \in hung
                            /\ xports' = [xports EXCEPT ![fd].died = @ \/ fails]
  /\ UNCHANGED <<kernel, svc_pollfd, svc_max_pollfd, round, fd, ghosts>>

\* The copy still has an entry for descriptor f that the round comes to: poll
\* refused it, or a connection may be accepted on f before.
Awaited(f) == \E k \in Entry :
  /\ k >= i /\ my_pollfd[k].fd = f
  /\ \/ my_pollfd[k].revents = "POLLNVAL"
     \/ /\ my_pollfd[k].revents = "POLLIN"
        /\ \E j \in Entry : /\ i <= j /\ j < k /\ my_pollfd[j].revents = "POLLIN"
                           /\ my_pollfd[j].fd = Listener

\* A routine destroys the transport of a connection.
DestroyIn(f) ==
  /\ pc = "dispatch" /\ sock[f] \in Conn /\ xports[f] # NULL
  /\ Awaited(f) => "stale" \in Careless
  /\ f = fd => "own" \in Careless
  /\ Destroy(f)
  /\ excused' = excused \cup {sock[f]}
  /\ pc' = (IF f = fd THEN "wild" ELSE pc)
  /\ UNCHANGED <<limit, backlog, arrived, wire, sent, hung, round, fd, exited>>

\* Mutant: one call for each time poll finds the connection readable.
StatOnce ==
  /\ pc = "stat" /\ pc' = "serve"
  /\ IF xports[fd].died THEN Destroy(fd) ELSE UNCHANGED <<sock, registry>>
  /\ UNCHANGED <<limit, backlog, arrived, wire, sent, hung, round, fd, ghosts>>

\* XPRT_DIED: destroyed.  XPRT_MOREREQS: more is in the buffer.  XPRT_IDLE.
Stat ==
  /\ pc = "stat" /\ ~WantsRest
  /\ IF xports[fd].died THEN Destroy(fd) ELSE UNCHANGED <<sock, registry>>
  /\ pc' = IF ~xports[fd].died /\ xports[fd].buf > 0 THEN "recv" ELSE "serve"
  /\ UNCHANGED <<limit, backlog, arrived, wire, sent, hung, round, fd, ghosts>>

-----------------------------------------------------------------------------
\* One listener; the program has destroyed one or two transports made before it.
RunInit ==
  /\ limit \in Limits
  /\ sock = [f \in Fd |-> IF f = Listener THEN Listening ELSE Closed]
  /\ backlog = <<>> /\ arrived = 0 /\ wire = [c \in Conn |-> 0] /\ sent = 0 /\ hung = {}
  /\ xports = [f \in Fd |-> IF f = Listener THEN NewTransport ELSE NULL]
  /\ svc_pollfd \in {<<-1, Listener>>, <<-1, -1, Listener>>} /\ svc_max_pollfd = Len(svc_pollfd)
  /\ pc = "check" /\ my_pollfd = <<>> /\ i = 1 /\ fds_found = 0 /\ pollretval = 0
  /\ fd = Listener /\ excused = {} /\ exited = FALSE

Run == Check \/ Enter \/ Poll \/ ServeNext \/ RoundOver \/ Accept \/ Take \/ NoCall \/ TakeRest
       \/ Read \/ ReadFails \/ Dispatched \/ Stat

RunNext == Peers \/ Run \/ SvcExit \/ \E f \in Fd : DestroyIn(f)

\* poll returns when a descriptor is readable, read within 35 seconds; the
\* routines of the program return.
RunSpec == RunInit /\ [][RunNext]_runvars /\ WF_runvars(Run)

-----------------------------------------------------------------------------
(* The inductive invariant *)

RunPlaces == {"check", "copied", "poll", "serve", "recv", "dispatch", "stat", "returned"}
Serving == pc \in {"recv", "dispatch", "stat"}
InRound == pc = "serve" \/ Serving

RunTypeOK ==
  /\ limit \in Limits
  /\ sock \in [Fd -> {Closed, Listening} \cup Conn]
  /\ backlog \in Seq(Conn) /\ arrived \in 0 .. MaxConns
  /\ wire \in [Conn -> Nat]
  /\ xports \in [Fd -> Transport \cup {NULL}]
  /\ svc_max_pollfd \in Nat
  /\ pc \in RunPlaces
  /\ my_pollfd \in Seq([fd : Fd \cup {-1}, revents : {"none", "POLLIN", "POLLNVAL"}])
  /\ i \in Nat /\ fds_found \in Nat /\ pollretval \in Nat
  /\ fd \in Fd
  /\ exited \in BOOLEAN

\* svc_pollfd lists the registered transports, each once, until svc_exit.
SlotsExact ==
  IF exited THEN svc_pollfd = NULL /\ svc_max_pollfd = 0
  ELSE /\ svc_pollfd \in Seq(Fd \cup {-1}) /\ svc_max_pollfd = Len(svc_pollfd)
       /\ \A k, l \in 1 .. svc_max_pollfd :
            svc_pollfd[k] = svc_pollfd[l] /\ svc_pollfd[k] # -1 => k = l
       /\ \A f \in Fd : xports[f] # NULL <=> \E k \in 1 .. svc_max_pollfd : svc_pollfd[k] = f

\* A transport has a socket, and an empty buffer unless it is served.
TransportsIdle ==
  \A f \in Fd :
    /\ sock[f] = Listening <=> f = Listener
    /\ xports[f] # NULL =>
         /\ sock[f] # Closed
         /\ ~(Serving /\ f = fd /\ f # Listener) => xports[f].buf = 0

\* What is served is registered; the listener only accepts.
ServedExists ==
  /\ Serving => xports[fd] # NULL
  /\ pc \in {"dispatch", "stat"} => fd # Listener
  /\ pc = "recv" /\ exited => fd # Listener

CopyFresh ==
  pc \in {"copied", "poll"} =>
    /\ ~exited
    /\ Len(my_pollfd) = svc_max_pollfd
    /\ \A k \in Entry : my_pollfd[k].fd = svc_pollfd[k]

\* The entries before the k-th with an event.
Reported(k) == {j \in Entry : j < k /\ my_pollfd[j].revents # "none"}

\* The round ends before the copy does, each transport has one entry at most,
\* and those poll refused are there until the round comes to them.
RoundSound ==
  InRound =>
    /\ i \in 1 .. Len(my_pollfd) + 1
    /\ \A k, l \in Entry : my_pollfd[k].fd = my_pollfd[l].fd /\ my_pollfd[k].fd # -1 => k = l
    /\ \A k \in Entry : my_pollfd[k].revents # "none" => my_pollfd[k].fd \in Fd
    /\ fds_found = Cardinality(Reported(i))
    /\ pollretval <= Cardinality(Reported(Len(my_pollfd) + 1))
    /\ \A k \in Entry : k >= i /\ my_pollfd[k].revents = "POLLNVAL" =>
         xports[my_pollfd[k].fd] # NULL
    /\ Serving => i > 1 /\ fd = my_pollfd[i - 1].fd

SvcSound == /\ RunTypeOK /\ SlotsExact /\ TransportsIdle /\ ServedExists
            /\ CopyFresh /\ RoundSound

-----------------------------------------------------------------------------
(* Properties *)

\* svc_run never reads past its copy of svc_pollfd, through a svc_pollfd that
\* was freed, or a transport that was destroyed, whatever routines and
\* connections do to the registry while it goes through a copy made before.
NoWildRead == pc # "wild"

\* While svc_run waits in poll, every transport is in exactly one of the slots
\* polled, and has nothing left in its buffer that poll could not see.
NothingMissed ==
  pc = "poll" => \A f \in Fd : xports[f] # NULL =>
    /\ xports[f].buf = 0
    /\ Cardinality({k \in Entry : my_pollfd[k].fd = f}) = 1

\* Who need not be answered: peers that hung up, stopped within a call or sent
\* what is none, connections the program dropped or poll can not handle.
Excused(c) == c \in excused \cup hung \/ \E f \in Fd : f >= limit /\ sock[f] = c
Accepted(c) == c <= arrived /\ \A k \in DOMAIN backlog : backlog[k] # c

\* A call that arrived on an accepted connection is read, whatever the other
\* connections do, as long as svc_run runs.
CallsServed ==
  \A c \in Conn : (Accepted(c) /\ wire[c] >= 2)
                  ~> (wire[c] < 2 \/ Excused(c) \/ pc = "returned")

\* "This function can be used as a signal handler to terminate the server
\* loop" (svc_run.c:47): once svc_exit was called, svc_run returns.
ExitEnds == exited ~> pc = "returned"
=============================================================================
