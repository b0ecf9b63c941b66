----------------------------- MODULE TosSignals -----------------------------
(***************************************************************************)
(* Signals, threads and exit of a process on plain TOS, where the kernel   *)
(* knows none of them and the library does it all in the calling thread:   *)
(* kill (unix/kill.c), sigsetmask and sigblock, signal and sigaction,      *)
(* tfork (mintlib/thread.c), atexit, exit and abort, sigsetjmp and         *)
(* siglongjmp.                                                             *)
(*                                                                         *)
(* There is no concurrency: a handler runs inside kill, kill inside the    *)
(* loop of checksigs, that inside sigsetmask, and any of these functions   *)
(* may be called by the handler again.  "stack" is the stack of calls that *)
(* are not finished; its last element runs.  What the program does in its  *)
(* own functions (main, handlers, functions of atexit and of tfork) is any *)
(* sequence of calls.                                                      *)
(***************************************************************************)
EXTENDS Integers, Sequences, FiniteSets

CONSTANTS
  Sigs,      \* the signals the program uses, a subset of 0..31
  MaxDepth,  \* bound on the stack
  MaxRaise,  \* bound on the calls of raise and tfork, which raise a signal
  MaxAtExit, \* bound on the calls of atexit
  Careless   \* what the program does not avoid: to "unmask" in a handler
             \* signals that the checksigs below is about to send, to "ignore"
             \* a pending signal, to "jump" over a checksigs with signals to
             \* send or to a mask without a pending signal

SIGKILL == 9
SIGCONT == 19
SIGCHLD == 20

ASSUME SignalAssumption ==
  /\ Sigs \subseteq 0..31 /\ SIGCHLD \in Sigs
  /\ {MaxDepth, MaxRaise, MaxAtExit} \subseteq Nat

VARIABLES
  sigmask, sigpending, sig_handler,  \* _sigmask, _sigpending, _sig_handler
  num_at_exit,  \* functions registered with atexit: 1 to num_at_exit
  stack,        \* calls that are not finished; empty: the process has ended
  env,          \* {} or {what sigsetjmp saved in main}
  raises,       \* number of calls of raise and tfork
  owed,         \* ghost: how often each signal is still to act
  ran,          \* ghost: the functions exit has called, in order
  wills         \* ghost: num_at_exit at each call of exit

vars == <<sigmask, sigpending, sig_handler, num_at_exit, stack, env, raises, owed, ran, wills>>
signals == <<sigmask, sigpending, sig_handler, owed>>
exits == <<num_at_exit, ran, wills>>
counters == <<env, raises>>

Funcs == {"SIG_DFL", "SIG_IGN", "func"}
Top == stack[Len(stack)]
Below == SubSeq(stack, 1, Len(stack) - 1)
Call(frame) == Append(stack, frame)
Function(name) == [kind |-> name]
Checksigs(send) == [kind |-> "checksigs", send |-> send]
Exit(i) == [kind |-> "exit", i |-> i]

Kinds == {"main", "handler", "at_exit", "thread"}
\* The program runs, and there is room for a call.
Program == stack # << >> /\ Top.kind \in Kinds
Room == Program /\ Len(stack) + 2 <= MaxDepth
Frames(kind) == {i \in DOMAIN stack : stack[i].kind = kind}

----------------------------------------------------------------------------
(* kill and the mask                                                       *)

Blocked(sig) == sig # SIGKILL /\ sig \in sigmask
\* The default action does nothing.
Harmless(sig) == sig_handler[sig] = "SIG_DFL" /\ sig \in {SIGCONT, SIGCHLD}
Fatal(sig) == sig_handler[sig] = "SIG_DFL" /\ ~Harmless(sig)
Acts(sig) == sig_handler[sig] # "SIG_IGN" /\ ~Blocked(sig)

\* What a signal owes after kill: an action is paid, one that waits is owed
\* however often it was raised, and one that checksigs is to send and that has
\* acted since is owed no longer when the program ignores it by then.
Due(sig, raised) ==
  CASE Acts(sig) -> owed[sig] + raised - 1
    [] sig_handler[sig] = "SIG_IGN" -> IF raised = 1 \/ sig \in sigpending THEN owed[sig] ELSE 0
    [] OTHER -> IF raised = 1 THEN 1 ELSE owed[sig]

\* kill(0, sig), called from the calls in "calls"; "raised" is 1 for a signal
\* raised now and 0 for one that was pending.
Kill(sig, calls, raised) ==
  /\ sigpending' = IF Acts(sig) THEN sigpending \ {sig}
                   ELSE IF sig_handler[sig] = "SIG_IGN" THEN sigpending ELSE sigpending \cup {sig}
  /\ stack' = IF ~Acts(sig) \/ Harmless(sig) THEN calls
              ELSE Append(calls, IF Fatal(sig) THEN Exit(num_at_exit) ELSE Function("handler"))
  /\ wills' = IF Acts(sig) /\ Fatal(sig) THEN Append(wills, num_at_exit) ELSE wills
  /\ owed' = [owed EXCEPT ![sig] = Due(sig, raised)]
  /\ UNCHANGED <<sigmask, sig_handler, num_at_exit, env, ran>>

Raise(sig) ==
  /\ Room /\ raises < MaxRaise
  /\ raises' = raises + 1
  /\ Kill(sig, stack, 1)

\* checksigs took "send" once; the loop goes up through the signal numbers.
NextSig(send) == CHOOSE sig \in send : \A other \in send : sig <= other

ChecksigsLoop ==
  /\ stack # << >> /\ Top.kind = "checksigs"
  /\ IF Top.send = {}
     THEN stack' = Below /\ UNCHANGED <<signals, exits, counters>>
     ELSE LET sig == NextSig(Top.send)
          IN Kill(sig, Append(Below, Checksigs(Top.send \ {sig})), 0) /\ UNCHANGED raises

\* sigsetmask(mask), and sigaction(sig, NULL, &oact), which puts the mask back.
Sigsetmask(mask) ==
  /\ Room
  /\ "unmask" \in Careless \/
       \A i \in Frames("checksigs") : stack[i].send \cap (sigpending \ mask) = {}
  /\ sigmask' = mask
  /\ stack' = IF sigpending \subseteq mask THEN stack ELSE Call(Checksigs(sigpending \ mask))
  /\ UNCHANGED <<sigpending, sig_handler, owed, exits, counters>>

Sigblock(mask) ==
  /\ Program
  /\ sigmask' = sigmask \cup mask
  /\ UNCHANGED <<sigpending, sig_handler, owed, stack, exits, counters>>

\* signal(sig, func), sigaction(sig, act, oact)
Signal(sig, func) ==
  /\ Program
  /\ func = "SIG_IGN" /\ sig \in sigpending => "ignore" \in Careless
  /\ sig_handler' = [sig_handler EXCEPT ![sig] = func]
  /\ UNCHANGED <<sigmask, sigpending, owed, stack, exits, counters>>

\* A function of the program returns to where it was called.
Return ==
  /\ stack # << >> /\ Top.kind \in {"handler", "at_exit"}
  /\ stack' = Below
  /\ UNCHANGED <<signals, exits, counters>>

----------------------------------------------------------------------------
(* sigsetjmp and siglongjmp                                                *)

\* Only main calls sigsetjmp here, so that its frame is there to jump to.
Sigsetjmp(savesigs) ==
  /\ Program /\ Top.kind = "main"
  /\ env' = {[savesigs |-> savesigs, mask |-> IF savesigs THEN sigmask ELSE {}]}
  /\ UNCHANGED <<signals, exits, stack, raises>>

\* The mask after the jump, through NORESTORE when none was saved.
Restored(e) == IF e.savesigs THEN e.mask ELSE sigmask

\* Jumping out of a function of tfork or atexit is undefined.  A signal that a
\* checksigs was still to send and that is not pending has acted since that
\* checksigs saw it: it owes nothing.
Siglongjmp(e) ==
  /\ Program
  /\ Frames("tfork") \cup Frames("exit") = {}
  /\ "jump" \in Careless \/
       /\ sigpending \subseteq Restored(e)
       /\ \A i \in Frames("checksigs") : stack[i].send \subseteq Restored(e)
  /\ sigmask' = Restored(e)
  /\ stack' = SubSeq(stack, 1, 1)
  /\ owed' = [sig \in Sigs |-> IF sig \in sigpending THEN owed[sig] ELSE 0]
  /\ UNCHANGED <<sigpending, sig_handler, exits, counters>>

----------------------------------------------------------------------------
(* tfork                                                                   *)

Saved == [kind |-> "tfork", pending |-> sigpending, mask |-> sigmask, handler |-> sig_handler,
          owed |-> owed]

\* Mutant: the child starts with the pending signals of its parent.
TforkPending ==
  /\ Room /\ raises < MaxRaise
  /\ raises' = raises + 1
  /\ stack' = stack \o <<Saved, Function("thread")>>
  /\ sigmask' = {}
  /\ owed' = [sig \in Sigs |-> 0]
  /\ UNCHANGED <<sig_handler, sigpending, exits, env>>

\* The child runs to completion on its parent's variables.
Tfork ==
  /\ Room /\ raises < MaxRaise
  /\ raises' = raises + 1
  /\ stack' = stack \o <<Saved, Function("thread")>>
  /\ sigpending' = {} /\ sigmask' = {}
  /\ owed' = [sig \in Sigs |-> 0]
  /\ UNCHANGED <<sig_handler, exits, env>>

\* Mutant: the pending signals of the parent are forgotten.
ThreadEndsForgets(calls) ==
  LET saved == calls[Len(calls)]
  IN /\ sigmask' = saved.mask /\ sig_handler' = saved.handler /\ owed' = saved.owed
     /\ sigpending' = {}
     /\ stack' = Append(SubSeq(calls, 1, Len(calls) - 1), Function("raise"))

\* Mutant: the parent keeps the mask its child had.
ThreadEndsMask(calls) ==
  LET saved == calls[Len(calls)]
  IN /\ sigpending' = saved.pending /\ sig_handler' = saved.handler /\ owed' = saved.owed
     /\ sigmask' = sigmask
     /\ stack' = Append(SubSeq(calls, 1, Len(calls) - 1), Function("raise"))

\* Pterm in the child, under the calls in "calls": its parent restores the
\* signals, and will raise SIGCHLD.
ThreadEnds(calls) ==
  LET saved == calls[Len(calls)]
  IN /\ sigpending' = saved.pending /\ sig_handler' = saved.handler /\ owed' = saved.owed
     /\ sigmask' = saved.mask
     /\ stack' = Append(SubSeq(calls, 1, Len(calls) - 1), Function("raise"))

\* The function of tfork returns, or calls _exit.
ThreadReturns ==
  /\ stack # << >> /\ Top.kind = "thread"
  /\ ThreadEnds(Below)
  /\ UNCHANGED <<exits, counters>>

RaiseChild ==
  /\ stack # << >> /\ Top.kind = "raise"
  /\ Kill(SIGCHLD, Below, 1)
  /\ UNCHANGED raises

----------------------------------------------------------------------------
(* atexit and exit                                                         *)

\* A call without memory returns -1 and changes nothing.
Atexit ==
  /\ Program /\ num_at_exit < MaxAtExit
  /\ num_at_exit' = num_at_exit + 1
  /\ UNCHANGED <<signals, stack, ran, wills, counters>>

\* exit, called by the program or on return from main.
CallExit ==
  /\ Room
  /\ stack' = Call(Exit(num_at_exit))
  /\ wills' = Append(wills, num_at_exit)
  /\ UNCHANGED <<signals, num_at_exit, ran, counters>>

\* _exit ends the child that runs, or else the process.
Terminate ==
  LET threads == Frames("tfork")
      last == CHOOSE i \in threads : \A j \in threads : j <= i
  IN IF threads = {} THEN stack' = << >> /\ UNCHANGED signals
     ELSE ThreadEnds(SubSeq(stack, 1, last))

\* Mutant: the first function registered is forgotten.
LastFunction(i) == i <= 1

\* The loop of exit is through.
NoFunction(i) == i = 0

ExitLoop ==
  /\ stack # << >> /\ Top.kind = "exit"
  /\ IF NoFunction(Top.i) THEN Terminate /\ UNCHANGED ran
     ELSE /\ stack' = Below \o <<Exit(Top.i - 1), Function("at_exit")>>
          /\ ran' = Append(ran, Top.i)
          /\ UNCHANGED signals
  /\ UNCHANGED <<num_at_exit, wills, counters>>

Ended == stack = << >> /\ UNCHANGED vars

----------------------------------------------------------------------------

Init ==
  /\ sigmask = {} /\ sigpending = {}
  /\ sig_handler = [sig \in Sigs |-> "SIG_DFL"]
  /\ num_at_exit = 0
  /\ stack = <<Function("main")>>
  /\ env = {} /\ raises = 0
  /\ owed = [sig \in Sigs |-> 0]
  /\ ran = << >> /\ wills = << >>

Next ==
  \/ \E sig \in Sigs : Raise(sig)
  \/ \E sig \in Sigs, func \in Funcs : Signal(sig, func)
  \/ \E mask \in SUBSET Sigs : Sigsetmask(mask) \/ Sigblock(mask)
  \/ \E e \in env : Siglongjmp(e)
  \/ \E savesigs \in BOOLEAN : Sigsetjmp(savesigs)
  \/ Return
  \/ ChecksigsLoop \/ RaiseChild
  \/ Tfork \/ ThreadReturns
  \/ Atexit \/ CallExit \/ ExitLoop
  \/ Ended

Spec == Init /\ [][Next]_vars

----------------------------------------------------------------------------
(* Properties                                                              *)

Frame ==
  [kind : Kinds \cup {"raise"}]
  \cup [kind : {"checksigs"}, send : SUBSET Sigs]
  \cup [kind : {"exit"}, i : Nat]
  \cup [kind : {"tfork"}, pending : SUBSET Sigs, mask : SUBSET Sigs, handler : [Sigs -> Funcs],
        owed : [Sigs -> Int]]

TypeOK ==
  /\ sigmask \in SUBSET Sigs /\ sigpending \in SUBSET Sigs
  /\ sig_handler \in [Sigs -> Funcs] /\ owed \in [Sigs -> Int]
  /\ num_at_exit \in Nat /\ raises \in Nat
  /\ stack \in Seq(Frame) /\ env \in SUBSET [savesigs : BOOLEAN, mask : SUBSET Sigs]
  /\ ran \in Seq(Nat) /\ wills \in Seq(Nat)

\* No signal acts more often than it was raised, whatever handlers, threads
\* and masks checksigs runs into while it goes through the signals it saw
\* pending; a signal raised while it waits does not count again.
DeliveredOnce == \A sig \in Sigs : owed[sig] >= 0

\* What the checksigs of one thread, in the calls up to the j-th of s, are
\* still to send.
Sent(s, j) == {sig \in Sigs : \E i \in 1..j : /\ s[i].kind = "checksigs" /\ sig \in s[i].send
                                             /\ \A k \in i..j : s[k].kind # "tfork"}

\* No signal is lost: one that was raised and has not acted since is pending,
\* or a checksigs of the running thread will send it, also after handlers
\* that raise it again or block it, after jumps out of them and after a child
\* of tfork that used the same variables.
NothingLost ==
  stack # << >> =>
    \A sig \in Sigs : owed[sig] > 0 => sig \in sigpending \cup Sent(stack, Len(stack))

\* Unless a checksigs is still at it, no signal is both pending and unblocked
\* when the program runs: nothing would ever send it.
NothingLeft ==
  Program /\ Frames("checksigs") = {} => sigpending \subseteq sigmask

\* A process that called exit once, itself or through a fatal signal, in main
\* or in a handler, has run the functions registered till then, each once,
\* the last registered first.
ExitRunsAll ==
  stack = << >> /\ Len(wills) = 1 =>
    ran = [i \in 1..wills[1] |-> wills[1] + 1 - i]

\* The inductive strengthening of the first three.  The signals of a thread
\* whose calls end with the j-th: each has an action to its credit, and one
\* only, just when it is pending or to be sent, and is to be sent if it is
\* pending and could be.
Accounted(s, j, pending, mask, handler, credit) ==
  /\ \A sig \in pending \cup Sent(s, j) : credit[sig] >= 1
  /\ \A sig \in Sigs : credit[sig] \in 0..1
  /\ \A sig \in Sigs : credit[sig] > 0 => sig \in pending \cup Sent(s, j)
  /\ \A sig \in pending \ mask : sig \in Sent(s, j)
  /\ \A sig \in pending : sig # SIGKILL /\ handler[sig] # "SIG_IGN"

\* The threads that wait for a child, and no signal to be sent twice.
Parents(s) ==
  \A j \in DOMAIN s :
    s[j].kind = "tfork" =>
      Accounted(s, j - 1, s[j].pending, s[j].mask, s[j].handler, s[j].owed)
Apart(s) ==
  \A i, j \in DOMAIN s :
    s[i].kind = "checksigs" /\ s[j].kind = "checksigs" /\ i # j => s[i].send \cap s[j].send = {}

Accounts ==
  /\ stack # << >> => Accounted(stack, Len(stack), sigpending, sigmask, sig_handler, owed)
  /\ Parents(stack) /\ Apart(stack) /\ DeliveredOnce

\* The function of a thread is called by tfork.
Started(s) == \A j \in DOMAIN s : s[j].kind = "thread" => j > 1 /\ s[j - 1].kind = "tfork"

\* The strengthening of the last: the one call of exit has come down to i.
Countdown(from, to) == [k \in 1..(from - to) |-> from + 1 - k]
OneExit ==
  /\ Started(stack) /\ (stack # << >> => stack[1].kind = "main")
  /\ wills = << >> => ran = << >> /\ stack # << >>
  /\ Len(wills) <= 1 =>
       \A j \in DOMAIN stack :
         stack[j].kind = "exit" =>
           /\ wills # << >>
           /\ \A k \in DOMAIN stack : stack[k].kind = "exit" => k = j
           /\ stack[j].i <= wills[1] /\ ran = Countdown(wills[1], stack[j].i)
  /\ ExitRunsAll
=============================================================================
