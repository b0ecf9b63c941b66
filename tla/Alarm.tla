------------------------------- MODULE Alarm -------------------------------
(***************************************************************************)
(* The one alarm timer of a process on MiNT and who uses it: alarm() of    *)
(* the program (unix/alarm.c), sleep() (posix/sleep.c) and lckpwdf()       *)
(* (shadow/lckpwdf.c), which lets SIGALRM end its wait for the lock on the *)
(* password file.  Another process takes and releases that lock.           *)
(*                                                                         *)
(* Every kernel call is a step and the clock may tick between any two of   *)
(* them.  Time is counted in ticks, Tps to the second, and kept as what is *)
(* left of it: timer is the time until the kernel posts SIGALRM (0: off),  *)
(* due the time until the program's own alarm is due, my.left is           *)
(* "stop - _clock()" of sleep.  Of the signal state only SIGALRM is kept.  *)
(* External: Talarm (rounds what is left up to seconds), Psignal (unblocks *)
(* the signal, as sleep.c:53-54 says), Psigpause, Psigblock, Psigsetmask,  *)
(* F_SETLKW, and that a pending unblocked signal is delivered before the   *)
(* process goes on, except right after Psignal, which sleep does not trust *)
(* (sleep.c:74-75).                                                        *)
(***************************************************************************)
EXTENDS Integers

CONSTANTS
  Tps,       \* ticks per second (CLOCKS_PER_SEC)
  Alarms,    \* what the program passes to alarm()
  Sleeps,    \* what it passes to sleep()
  TIMEOUT,   \* of lckpwdf, in seconds
  WordSize,  \* number of values of an unsigned long
  MaxSecs,   \* LONG_MAX / 1000, the longest alarm
  MaxLate,   \* bound: ticks that pass during one call while it does not wait
  NoAlarm,   \* the program waits for no alarm
  Heedless   \* what the program does not avoid: "sleep" past its own alarm
             \* though the kernel may be late, "lock" with an alarm set,
             \* a call of either while a "blocked" alarm is pending

ASSUME AlarmAssumption ==
  /\ {Tps, TIMEOUT, WordSize, MaxSecs} \subseteq Nat \ {0}
  /\ MaxLate \in Nat
  /\ Alarms \subseteq Nat
  /\ Sleeps \subseteq Nat \ {0}
  /\ MaxLate < TIMEOUT * Tps
  /\ NoAlarm \notin Int
  /\ \A k \in Alarms \cup Sleeps : k + MaxLate < MaxSecs /\ MaxSecs < WordSize

VARIABLES
  pc,       \* "main": in the program; otherwise the next step of the call
  timer,    \* the alarm timer
  pending,  \* SIGALRM is pending
  blocked,  \* SIGALRM is in the signal mask
  handler,  \* of SIGALRM
  my,       \* locals of the running call
  late,     \* ticks that passed while the call did not wait
  lock_fd,  \* the descriptor of the lock file is open (-1: FALSE)
  owner,    \* who has the lock on the file
  due,      \* ghost: when the program's alarm would come had its last call
            \* not used the timer
  wanted    \* ghost: the program has SIGALRM blocked

alarmvars == <<pc, timer, pending, blocked, handler, my, late, lock_fd, owner, due, wanted>>
sigalrm == <<pending, blocked, handler>>
program == <<due, wanted>>
lock == <<lock_fd, owner>>

None == "none"
Handlers == {"program", "alarm_catch", "noop_handler"}
Idle == [n |-> 0, alarm_sec |-> 0, left |-> 0, old_sigmask |-> FALSE, old_func |-> "program",
         result |-> 0]

\* Calls that wait in the kernel for a signal or the lock.
WaitSteps == {"sigpause", "setlkw"}
\* sleep, from reading the clock to reading it again.
Measured == {"alarm", "pause", "sigpause", "cancel", "eat", "yield", "reblock", "remain"}
InSleep == Measured \cup {"sigblock", "catch", "block", "stop", "rearm", "old_func", "old_mask", "leave"}
InLock == {"noop", "unblock", "timeout", "enter", "setlkw", "alarm0", "saved_set", "saved_act", "close"}

----------------------------------------------------------------------------
(* The clock and delivery                                                  *)

Delivered == ~(pending /\ ~blocked)
Greater(a, b) == IF a > b THEN a ELSE b
Secs(ticks) == (ticks + Tps - 1) \div Tps
\* _alarm of sleep.c and alarm(): no more than LONG_MAX / 1000.
Armed(secs) == Tps * (IF secs > MaxSecs THEN MaxSecs ELSE secs)

\* A sleep that lasts until the program's alarm, or nearly.
Exact == pc \in Measured /\ my.alarm_sec # 0 /\ my.alarm_sec * Tps <= my.n * Tps + MaxLate

Tick ==
  /\ Delivered
  /\ pc # "main" \/ timer > 0
  /\ pc \in WaitSteps \cup {"main"} \/ (late < MaxLate /\ (Exact => "sleep" \in Heedless))
  /\ late' = IF pc \in WaitSteps \cup {"main"} THEN late ELSE late + 1
  /\ timer' = Greater(timer - 1, 0)
  /\ pending' = (pending \/ timer = 1)
  /\ due' = IF due = NoAlarm THEN due ELSE Greater(due - 1, - Armed(MaxSecs))
  /\ my' = IF pc \in Measured THEN [my EXCEPT !.left = Greater(@ - 1, - MaxLate)] ELSE my
  /\ UNCHANGED <<pc, blocked, handler, lock, wanted>>

\* A delivered SIGALRM ends Psigpause, and F_SETLKW with EINTR.
Woken == IF pc = "sigpause" THEN "cancel" ELSE IF pc = "setlkw" THEN "alarm0" ELSE pc
Interrupt ==
  /\ pc' = Woken
  /\ blocked' = (IF pc = "sigpause" THEN TRUE ELSE blocked)
  /\ my' = IF pc = "setlkw" THEN [my EXCEPT !.result = -1] ELSE my

Deliver ==
  /\ ~Delivered
  /\ pending' = FALSE
  /\ due' = IF handler = "program" THEN NoAlarm ELSE due
  /\ Interrupt
  /\ UNCHANGED <<timer, handler, late, lock, wanted>>

\* Another signal of the process, with a handler of the program's.
OtherSignal ==
  /\ pc \in WaitSteps /\ Delivered
  /\ Interrupt
  /\ UNCHANGED <<timer, pending, handler, late, lock, program>>

----------------------------------------------------------------------------
(* The program                                                             *)

Go(from, to) == pc = from /\ Delivered /\ pc' = to

\* alarm(secs)
Alarm(secs) ==
  /\ Go("main", "main") /\ ~pending
  /\ timer' = Armed(secs)
  /\ due' = IF secs = 0 THEN NoAlarm ELSE Armed(secs)
  /\ UNCHANGED <<sigalrm, my, late, lock, wanted>>

\* sigblock and sigsetmask of SIGALRM.
Mask ==
  /\ Go("main", "main")
  /\ blocked' = ~blocked
  /\ wanted' = blocked'
  /\ UNCHANGED <<timer, pending, handler, my, late, lock, due>>

----------------------------------------------------------------------------
(* sleep(n)                                                                *)

Sleep(n) ==
  /\ Go("main", "sigblock")
  /\ pending => "blocked" \in Heedless
  /\ my' = [Idle EXCEPT !.n = n, !.alarm_sec = Secs(timer)]
  /\ timer' = 0
  /\ due' = IF due = NoAlarm \/ pending THEN due ELSE timer
  /\ UNCHANGED <<sigalrm, late, lock, wanted>>

BlockAll ==
  /\ Go("sigblock", "catch")
  /\ my' = [my EXCEPT !.old_sigmask = blocked]
  /\ blocked' = TRUE
  /\ UNCHANGED <<timer, pending, handler, late, lock, program>>

\* Psignal(SIGALRM, func) unblocks SIGALRM.
Psignal(func) == handler' = func /\ blocked' = FALSE

CatchAlarm ==
  /\ Go("catch", "block")
  /\ my' = [my EXCEPT !.old_func = handler]
  /\ Psignal("alarm_catch")
  /\ UNCHANGED <<timer, pending, late, lock, program>>

\* Mutant: sleep goes on without the second Psigblock.
BlockAgainNot ==
  /\ pc = "block" /\ pc' = "stop"
  /\ UNCHANGED <<timer, sigalrm, my, late, lock, program>>

\* Psigblock(~0) after Psignal, which may not have delivered.
BlockAgain ==
  /\ pc = "block" /\ pc' = "stop"
  /\ blocked' = TRUE
  /\ UNCHANGED <<timer, pending, handler, my, late, lock, program>>

ReadStop ==
  /\ Go("stop", "alarm")
  /\ my' = [my EXCEPT !.left = my.n * Tps]
  /\ UNCHANGED <<timer, sigalrm, late, lock, program>>

\* But only sleep as long as the original alarm clock.
Shorter == IF my.alarm_sec # 0 /\ my.alarm_sec < my.n THEN my.alarm_sec ELSE my.n

SetAlarm ==
  /\ Go("alarm", "pause")
  /\ timer' = Armed(Shorter)
  /\ UNCHANGED <<sigalrm, my, late, lock, program>>

\* Psigpause(old_sigmask & ~sigmask(SIGALRM)); Interrupt ends it.
Pause ==
  /\ Go("pause", "sigpause")
  /\ blocked' = FALSE
  /\ UNCHANGED <<timer, pending, handler, my, late, lock, program>>

Cancel ==
  /\ Go("cancel", "eat")
  /\ timer' = 0
  /\ UNCHANGED <<sigalrm, my, late, lock, program>>

\* Mutant: an alarm that came before the timer was cancelled is not eaten.
EatNot ==
  /\ Go("eat", "yield")
  /\ UNCHANGED <<timer, sigalrm, my, late, lock, program>>

Eat ==
  /\ Go("eat", "yield")
  /\ Psignal("alarm_catch")
  /\ UNCHANGED <<timer, pending, my, late, lock, program>>

\* Syield(): goes on once a pending SIGALRM was delivered.
Yield ==
  /\ Go("yield", "reblock")
  /\ UNCHANGED <<timer, sigalrm, my, late, lock, program>>

BlockOnceMore ==
  /\ Go("reblock", "remain")
  /\ blocked' = TRUE
  /\ UNCHANGED <<timer, pending, handler, my, late, lock, program>>

\* Division of C: towards zero.
Truncated(ticks) == IF ticks < 0 THEN - ((- ticks) \div Tps) ELSE ticks \div Tps

\* alarm_sec -= ((long) n - remain), in unsigned long
Rest == (my.alarm_sec - (my.n - Truncated(my.left))) % WordSize

Remain ==
  /\ Go("remain", IF my.alarm_sec = 0 THEN "old_func" ELSE "rearm")
  /\ my' = [my EXCEPT !.alarm_sec = IF @ = 0 THEN 0 ELSE Rest]
  /\ UNCHANGED <<timer, sigalrm, late, lock, program>>

\* Post the signal now, or restore the original timer.
Rearm ==
  /\ Go("rearm", "old_func")
  /\ pending' = (pending \/ my.alarm_sec = 0)
  /\ timer' = IF my.alarm_sec = 0 THEN timer ELSE Armed(my.alarm_sec)
  /\ UNCHANGED <<blocked, handler, my, late, lock, program>>

RestoreFunc ==
  /\ Go("old_func", "old_mask")
  /\ Psignal(my.old_func)
  /\ UNCHANGED <<timer, pending, my, late, lock, program>>

\* Psigsetmask after Psignal, which may not have delivered.
RestoreMask ==
  /\ pc = "old_mask" /\ pc' = "leave"
  /\ blocked' = my.old_sigmask
  /\ UNCHANGED <<timer, pending, handler, my, late, lock, program>>

\* Syield() and return.
Leave ==
  /\ Go("leave", "main")
  /\ my' = Idle /\ late' = 0
  /\ UNCHANGED <<timer, sigalrm, lock, program>>

SleepStep ==
  \/ BlockAll \/ CatchAlarm \/ BlockAgain \/ ReadStop \/ SetAlarm \/ Pause \/ Cancel \/ Eat
  \/ Yield \/ BlockOnceMore \/ Remain \/ Rearm \/ RestoreFunc \/ RestoreMask \/ Leave

----------------------------------------------------------------------------
(* lckpwdf() and ulckpwdf()                                                *)

\* The lock file is opened; a failure of open or of the flags returns -1 and
\* leaves no descriptor behind.
Lckpwdf ==
  /\ Go("main", "noop")
  /\ ~lock_fd
  /\ due # NoAlarm => "lock" \in Heedless
  /\ pending => "blocked" \in Heedless
  /\ lock_fd' = TRUE
  /\ UNCHANGED <<timer, sigalrm, my, late, owner, program>>

\* sigaction(SIGALRM, &new_act, &saved_act)
InstallNoop ==
  /\ Go("noop", "unblock")
  /\ my' = [my EXCEPT !.old_func = handler]
  /\ handler' = "noop_handler"
  /\ UNCHANGED <<timer, pending, blocked, late, lock, program>>

UnblockAlarm ==
  /\ Go("unblock", "timeout")
  /\ my' = [my EXCEPT !.old_sigmask = blocked]
  /\ blocked' = FALSE
  /\ UNCHANGED <<timer, pending, handler, late, lock, program>>

\* sigaction or sigprocmask fails: RETURN_CLOSE_FD(-1), RETURN_RESTORE_HANDLER(-1)
SetupFails ==
  /\ Go("noop", "close") \/ Go("unblock", "saved_act")
  /\ my' = [my EXCEPT !.result = -1]
  /\ UNCHANGED <<timer, sigalrm, late, lock, program>>

SetTimeout ==
  /\ Go("timeout", "enter")
  /\ timer' = Armed(TIMEOUT)
  /\ UNCHANGED <<sigalrm, my, late, lock, program>>

\* fcntl(lock_fd, F_SETLKW): waits if the other process has the lock.
Enter ==
  /\ Go("enter", IF owner = None THEN "alarm0" ELSE "setlkw")
  /\ owner' = IF owner = None THEN "we" ELSE owner
  /\ UNCHANGED <<timer, sigalrm, my, late, lock_fd, program>>

Granted ==
  /\ Go("setlkw", "alarm0")
  /\ owner = None /\ owner' = "we"
  /\ UNCHANGED <<timer, sigalrm, my, late, lock_fd, program>>

ClearAlarm ==
  /\ Go("alarm0", "saved_set")
  /\ timer' = 0
  /\ UNCHANGED <<sigalrm, my, late, lock, program>>

\* Mutant: RETURN_CLEAR_ALARM does not restore the mask.
RestoreSetNot ==
  /\ Go("saved_set", "saved_act")
  /\ UNCHANGED <<timer, sigalrm, my, late, lock, program>>

RestoreSet ==
  /\ Go("saved_set", "saved_act")
  /\ blocked' = my.old_sigmask
  /\ UNCHANGED <<timer, pending, handler, my, late, lock, program>>

RestoreAct ==
  /\ Go("saved_act", "close")
  /\ handler' = my.old_func
  /\ UNCHANGED <<timer, pending, blocked, my, late, lock, program>>

\* Closing a descriptor of the file gives the process's lock on it back.
Released == IF owner = "we" THEN None ELSE owner

\* Mutant: RETURN_CLOSE_FD keeps the descriptor of a lock it did not get.
CloseFailedNot ==
  /\ Go("close", "main")
  /\ my' = Idle /\ late' = 0
  /\ UNCHANGED <<timer, sigalrm, lock, program>>

\* RETURN_CLOSE_FD(result)
CloseFailed ==
  /\ Go("close", "main")
  /\ lock_fd' = (my.result = 0)
  /\ owner' = IF my.result = 0 THEN owner ELSE Released
  /\ my' = Idle /\ late' = 0
  /\ UNCHANGED <<timer, sigalrm, program>>

Ulckpwdf ==
  /\ Go("main", "main")
  /\ lock_fd
  /\ lock_fd' = FALSE
  /\ owner' = Released
  /\ UNCHANGED <<timer, sigalrm, my, late, program>>

\* The other process locks and unlocks, or ends.
OtherProcess ==
  /\ \/ owner = None /\ owner' = "other"
     \/ owner = "other" /\ owner' = None
  /\ UNCHANGED <<pc, timer, sigalrm, my, late, lock_fd, program>>

LockStep ==
  \/ InstallNoop \/ UnblockAlarm \/ SetupFails \/ SetTimeout \/ Enter \/ Granted \/ ClearAlarm
  \/ RestoreSet \/ RestoreAct \/ CloseFailed

----------------------------------------------------------------------------

AlarmInit ==
  /\ pc = "main" /\ timer = 0 /\ pending = FALSE /\ blocked = FALSE /\ handler = "program"
  /\ my = Idle /\ late = 0
  /\ lock_fd = FALSE /\ owner = None
  /\ due = NoAlarm /\ wanted = FALSE

Step == SleepStep \/ LockStep

AlarmNext ==
  \/ \E secs \in Alarms : Alarm(secs)
  \/ \E n \in Sleeps : Sleep(n)
  \/ Mask \/ Lckpwdf \/ Ulckpwdf
  \/ Step \/ Tick \/ Deliver
  \/ OtherSignal \/ OtherProcess

\* The process runs, time passes and the kernel delivers signals; nothing is
\* promised of the program, of other signals or of the other process.
Fairness == WF_alarmvars(Step) /\ WF_alarmvars(Tick) /\ WF_alarmvars(Deliver)
AlarmSpec == AlarmInit /\ [][AlarmNext]_alarmvars /\ Fairness

----------------------------------------------------------------------------
(* Properties                                                              *)

AlarmTypeOK ==
  /\ pc \in {"main"} \cup InSleep \cup InLock
  /\ timer \in Nat /\ late \in 0..MaxLate
  /\ {pending, blocked, lock_fd, wanted} \subseteq BOOLEAN
  /\ handler \in Handlers
  /\ my \in [n : Nat, alarm_sec : Nat, left : Int, old_sigmask : BOOLEAN,
             old_func : Handlers, result : {0, -1}]
  /\ owner \in {None, "we", "other"}
  /\ due = NoAlarm \/ due \in Int

\* How far one call may move the program's alarm: less than a second of
\* rounding, and the time the call was late.
Slack == Tps + MaxLate - 1

\* In the program, SIGALRM is pending or the timer runs exactly if the program
\* waits for an alarm of its own, and the timer ends near the time it is due:
\* sleep and lckpwdf leave neither no alarm nor a stray one behind.
AlarmKept ==
  pc = "main" =>
    IF due = NoAlarm THEN timer = 0 /\ ~pending
    ELSE pending \/ (timer > 0 /\ timer - due \in (- Slack)..Slack)

\* "It is important that we don't change the signal state": when sleep or
\* lckpwdf has returned, SIGALRM has the program's handler and mask again.
SignalStateRestored == pc = "main" => handler = "program" /\ blocked = wanted

\* lock_fd is open in the program exactly if this process has the lock, however
\* the wait for it ended.
LockHeld == pc = "main" => (lock_fd <=> owner = "we")

\* The inductive strengthening of the two: what the saved handler and mask
\* are at each step, and who has the lock.
Saving == {"block", "stop", "rearm", "old_func"} \cup Measured
FuncSaved == Saving \cup {"unblock", "timeout", "enter", "setlkw", "alarm0", "saved_set", "saved_act"}
MaskSaved == Saving \cup {"catch", "old_mask", "timeout", "enter", "setlkw", "alarm0", "saved_set"}
Asking == {"noop", "unblock", "timeout", "enter", "setlkw"}

StateSaved ==
  /\ IF pc \in FuncSaved THEN my.old_func = "program" ELSE handler = "program"
  /\ IF pc \in MaskSaved THEN my.old_sigmask = wanted ELSE blocked = wanted

LockKnown ==
  IF pc \in Asking THEN lock_fd /\ owner # "we" /\ my.result = 0
  ELSE IF pc \in InLock THEN lock_fd /\ (my.result = 0 <=> owner = "we")
  ELSE (lock_fd <=> owner = "we") /\ my.result = 0

AlarmSound == AlarmTypeOK /\ StateSaved /\ LockKnown

\* The inductive strengthening of AlarmKept for a careful program: where the
\* timer is off, SIGALRM can or can not be delivered, and how the timer, the
\* clock sleep reads and what it has saved relate to the program's alarm.
Quiet == timer = 0 /\ ~pending
Near == IF due = NoAlarm THEN Quiet ELSE pending \/ (timer > 0 /\ timer - due \in (- Slack)..Slack)
Kept == {"main", "old_func", "old_mask", "leave"}
Early == {"sigblock", "catch", "block", "stop"}
Off == Early \cup {"alarm", "reblock", "remain", "rearm", "noop", "unblock", "timeout", "saved_set",
                  "saved_act", "close"}
Open == {"sigpause", "yield", "timeout", "enter", "setlkw", "alarm0"}

\* Ticks since sleep read the clock first, and the time the alarm had left.
Elapsed == my.n * Tps - my.left
Left == my.alarm_sec * Tps

TimerKnown ==
  /\ timer <= Tps * MaxSecs /\ (pending => timer = 0)
  /\ due # NoAlarm => Alarms # {}
  /\ pc \in Kept => Near
  /\ pc \in Off => Quiet
  /\ pc \in {"eat", "yield"} => timer = 0
  /\ pc \in {"pause", "sigpause"} => pending \/ timer > 0
  /\ pc \in Open => ~blocked
  /\ pc \in {"stop", "alarm", "pause", "remain", "rearm", "old_func"} => blocked
  /\ pc \in {"block", "stop"} \cup Measured => handler = "alarm_catch"
  /\ pc \in InLock => due = NoAlarm

SleepKnown ==
  /\ pc \in Early \cup Measured =>
       /\ my.n \in 1..MaxSecs /\ my.alarm_sec <= MaxSecs
       /\ my.alarm_sec = 0 <=> due = NoAlarm
  /\ pc \in Early \cup {"alarm"} /\ due # NoAlarm => Left - (Tps - 1) - late <= due /\ due <= Left
  /\ pc = "alarm" => Elapsed <= (IF Exact THEN 0 ELSE late)
  /\ pc \in Measured =>
       /\ 0 <= Elapsed
       /\ Elapsed + timer <= Armed(Shorter) + (IF Exact THEN 0 ELSE late)
       /\ due # NoAlarm =>
            /\ Left - (Tps - 1) - late <= due + Elapsed /\ due + Elapsed <= Left
            /\ timer + Left - (Tps - 1) - Armed(Shorter) - late <= due
  /\ pc = "rearm" =>
       /\ due # NoAlarm /\ my.alarm_sec <= MaxSecs
       /\ my.alarm_sec > 0 =>
            - Slack <= Left - due /\ Left - due <= Tps - 1 + late

AlarmTracked == AlarmSound /\ TimerKnown /\ SleepKnown

\* sleep and lckpwdf return: the alarm they set can not be lost before they
\* wait for it, and the lock is waited for no longer than TIMEOUT.
CallReturns == pc # "main" ~> pc = "main"
============================================================================
