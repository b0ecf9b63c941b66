---------------------------- MODULE SignalProofs ----------------------------
(***************************************************************************)
(* Proofs about the signals of a process: Alarm on MiNT, TosSignals on     *)
(* TOS.                                                                    *)
(*                                                                         *)
(* Alarm, for every clock rate, timeout, set of alarms and sleeps.  For a  *)
(* program that is as careless as it likes: sleep and lckpwdf leave        *)
(* handler and mask of SIGALRM as they were, and lock_fd is open exactly   *)
(* while this process has the lock.  For one that is not: the alarm it set *)
(* comes when it should.                                                   *)
(*                                                                         *)
(* TosSignals, for any signals, any nesting of handlers, threads, masks    *)
(* and exit, and any number of calls: no signal acts more often than it    *)
(* was raised, none is left pending and unblocked, and one exit runs every *)
(* function of atexit once, the last registered first.                     *)
(***************************************************************************)
EXTENDS Alarm, TosSignals, SequenceTheorems, WellFoundedInduction, TLAPS

-----------------------------------------------------------------------------
(* Arithmetic of the clock.                                                *)

LEMMA ArmedType == \A secs \in Nat : Armed(secs) \in Nat
  BY AlarmAssumption, SMTT(30) DEF Armed

LEMMA SecsType == \A ticks \in Nat : Secs(ticks) \in Nat
  BY AlarmAssumption, SMTT(30) DEF Secs

LEMMA TruncatedType == \A ticks \in Int : Truncated(ticks) \in Int
  BY AlarmAssumption, SMTT(30) DEF Truncated

LEMMA WordType == \A k \in Int : k % WordSize \in Nat
  BY AlarmAssumption, SMTT(30)

LEMMA RestType ==
  ASSUME my.alarm_sec \in Nat, my.n \in Nat, my.left \in Int
  PROVE  Rest \in Nat
<1>1. my.alarm_sec - (my.n - Truncated(my.left)) \in Int
  BY TruncatedType
<1> DEFINE k == my.alarm_sec - (my.n - Truncated(my.left))
<1>2. Rest = k % WordSize
  BY DEF Rest
<1> HIDE DEF k
<1>3. k \in Int
  BY <1>1 DEF k
<1> QED BY <1>2, <1>3, WordType

-----------------------------------------------------------------------------
LEMMA AlarmInitSound == AlarmInit => AlarmSound
<1> SUFFICES ASSUME AlarmInit PROVE AlarmSound
  OBVIOUS
<1> USE DEF AlarmInit, None, InSleep, InLock, Measured, FuncSaved, MaskSaved, Saving, Asking
<1>1. my \in [n : Nat, alarm_sec : Nat, left : Int, old_sigmask : BOOLEAN, old_func : Handlers,
              result : {0, -1}]
  BY DEF Idle, Handlers
<1>2. late \in 0..MaxLate
  BY AlarmAssumption
<1>3. AlarmTypeOK
  BY <1>1, <1>2 DEF AlarmTypeOK, Handlers
<1>4. StateSaved /\ LockKnown
  BY DEF StateSaved, LockKnown, Idle
<1> QED BY <1>3, <1>4 DEF AlarmSound

\* The type of the locals of a call.
LEMMA LocalsType ==
  ASSUME AlarmTypeOK
  PROVE  /\ my.n \in Nat /\ my.alarm_sec \in Nat /\ my.left \in Int
         /\ my.old_sigmask \in BOOLEAN /\ my.old_func \in Handlers /\ my.result \in {0, -1}
  BY DEF AlarmTypeOK

\* alarm(), sigblock() and the lock functions of the program.
LEMMA ProgramSound ==
  ASSUME AlarmSound,
         \/ \E secs \in Alarms : Alarm(secs)
         \/ Mask \/ Lckpwdf \/ Ulckpwdf \/ OtherProcess
  PROVE  AlarmSound'
<1> USE DEF AlarmSound, StateSaved, LockKnown, FuncSaved, MaskSaved, Saving, Asking, InSleep, InLock,
            Measured, Go, sigalrm, program, lock, None
<1>1. ASSUME NEW secs \in Alarms, Alarm(secs) PROVE AlarmSound'
  <2>1. Armed(secs) \in Nat /\ secs \in Nat
    BY ArmedType, AlarmAssumption
  <2>2. timer' \in Nat /\ (due' = NoAlarm \/ due' \in Int)
    BY <1>1, <2>1 DEF Alarm
  <2>3. AlarmTypeOK'
    BY <1>1, <2>2 DEF Alarm, AlarmTypeOK
  <2> QED BY <1>1, <2>3 DEF Alarm
<1>2. CASE Mask
  BY <1>2 DEF Mask, AlarmTypeOK
<1>3. CASE Lckpwdf
  BY <1>3 DEF Lckpwdf, AlarmTypeOK
<1>4. CASE Ulckpwdf
  BY <1>4 DEF Ulckpwdf, AlarmTypeOK, Released
<1>5. CASE OtherProcess
  BY <1>5 DEF OtherProcess, AlarmTypeOK
<1> QED BY <1>1, <1>2, <1>3, <1>4, <1>5

\* Every step of sleep.
LEMMA SleepSound ==
  ASSUME AlarmSound, SleepStep \/ \E n \in Sleeps : Sleep(n)
  PROVE  AlarmSound'
<1> USE LocalsType
    DEF AlarmSound, StateSaved, LockKnown, FuncSaved, MaskSaved, Saving, Asking, InSleep, InLock,
        Measured, Go, sigalrm, program, lock
<1>1. ASSUME NEW n \in Sleeps, Sleep(n) PROVE AlarmSound'
  <2>1. Secs(timer) \in Nat /\ n \in Nat
    BY SecsType, AlarmAssumption DEF AlarmTypeOK
  <2>2. due' = NoAlarm \/ due' \in Int
    <3>1. due' = due \/ due' = timer
      BY <1>1 DEF Sleep
    <3> QED BY <3>1 DEF AlarmTypeOK
  <2>3. my' \in [n : Nat, alarm_sec : Nat, left : Int, old_sigmask : BOOLEAN, old_func : Handlers,
                 result : {0, -1}]
    <3>1. my' = [n |-> n, alarm_sec |-> Secs(timer), left |-> 0, old_sigmask |-> FALSE,
                 old_func |-> "program", result |-> 0]
      BY <1>1 DEF Sleep, Idle
    <3> QED BY <2>1, <3>1 DEF Handlers
  <2>4. AlarmTypeOK'
    BY <1>1, <2>2, <2>3 DEF Sleep, AlarmTypeOK
  <2> QED BY <1>1, <2>4 DEF Sleep, Idle, AlarmTypeOK
<1>2. CASE BlockAll
  BY <1>2 DEF BlockAll, AlarmTypeOK
<1>3. CASE CatchAlarm
  BY <1>3 DEF CatchAlarm, Psignal, AlarmTypeOK, Handlers
<1>4. CASE BlockAgain
  BY <1>4 DEF BlockAgain, AlarmTypeOK
<1>5. CASE ReadStop
  <2>1. my.n * Tps \in Int
    BY AlarmAssumption
  <2> QED BY <1>5, <2>1 DEF ReadStop, AlarmTypeOK
<1>6. CASE SetAlarm
  <2>1. Armed(Shorter) \in Nat
    BY ArmedType DEF Shorter
  <2> QED BY <1>6, <2>1 DEF SetAlarm, AlarmTypeOK
<1>7. CASE Pause
  BY <1>7 DEF Pause, AlarmTypeOK
<1>8. CASE Cancel
  BY <1>8 DEF Cancel, AlarmTypeOK
<1>9. CASE Eat
  BY <1>9 DEF Eat, Psignal, AlarmTypeOK, Handlers
<1>10. CASE Yield
  BY <1>10 DEF Yield, AlarmTypeOK
<1>11. CASE BlockOnceMore
  BY <1>11 DEF BlockOnceMore, AlarmTypeOK
<1>12. CASE Remain
  <2>1. (IF my.alarm_sec = 0 THEN 0 ELSE Rest) \in Nat
    BY RestType
  <2> QED BY <1>12, <2>1 DEF Remain, AlarmTypeOK
<1>13. CASE Rearm
  <2>1. Armed(my.alarm_sec) \in Nat
    BY ArmedType
  <2> QED BY <1>13, <2>1 DEF Rearm, AlarmTypeOK
<1>14. CASE RestoreFunc
  BY <1>14 DEF RestoreFunc, Psignal, AlarmTypeOK, Handlers
<1>15. CASE RestoreMask
  BY <1>15 DEF RestoreMask, AlarmTypeOK
<1>16. CASE Leave
  BY <1>16, AlarmAssumption DEF Leave, AlarmTypeOK, Idle, Handlers
<1> QED
  BY <1>1, <1>2, <1>3, <1>4, <1>5, <1>6, <1>7, <1>8, <1>9, <1>10, <1>11, <1>12, <1>13, <1>14,
     <1>15, <1>16 DEF SleepStep

\* Every step of lckpwdf after the lock file is open.
LEMMA LockSound == AlarmSound /\ LockStep => AlarmSound'
<1> SUFFICES ASSUME AlarmSound, LockStep PROVE AlarmSound'
  OBVIOUS
<1> USE LocalsType
    DEF AlarmSound, StateSaved, LockKnown, FuncSaved, MaskSaved, Saving, Asking, InSleep, InLock,
        Measured, Go, sigalrm, program, lock
<1>1. CASE InstallNoop
  BY <1>1 DEF InstallNoop, AlarmTypeOK, Handlers
<1>2. CASE UnblockAlarm
  BY <1>2 DEF UnblockAlarm, AlarmTypeOK
<1>3. CASE SetTimeout
  <2>1. Armed(TIMEOUT) \in Nat
    BY ArmedType, AlarmAssumption
  <2> QED BY <1>3, <2>1 DEF SetTimeout, AlarmTypeOK
<1>4. CASE Enter
  BY <1>4 DEF Enter, AlarmTypeOK, None
<1>5. CASE Granted
  BY <1>5 DEF Granted, AlarmTypeOK, None
<1>6. CASE ClearAlarm
  BY <1>6 DEF ClearAlarm, AlarmTypeOK
<1>7. CASE RestoreSet
  BY <1>7 DEF RestoreSet, AlarmTypeOK
<1>8. CASE RestoreAct
  BY <1>8 DEF RestoreAct, AlarmTypeOK, Handlers
<1>9. CASE CloseFailed
  <2>1. AlarmTypeOK'
    BY <1>9, AlarmAssumption DEF CloseFailed, AlarmTypeOK, Idle, Handlers, Released, None
  <2> QED BY <1>9, <2>1 DEF CloseFailed, AlarmTypeOK, Idle, Released, None
<1>10. CASE SetupFails
  BY <1>10 DEF SetupFails, AlarmTypeOK
<1> QED BY <1>1, <1>2, <1>3, <1>4, <1>5, <1>6, <1>7, <1>8, <1>9, <1>10 DEF LockStep

\* The clock and the signals: a signal that ends a wait leaves the mask the
\* call had before it, and an interrupted lckpwdf has no lock.
LEMMA KernelSound ==
  ASSUME AlarmSound, Tick \/ Deliver \/ OtherSignal
  PROVE  AlarmSound'
<1> USE LocalsType
    DEF AlarmSound, StateSaved, LockKnown, FuncSaved, MaskSaved, Saving, Asking, InSleep, InLock,
        Measured, sigalrm, program, lock
<1>1. CASE Tick
  <2>1. timer' \in Nat
    BY <1>1 DEF Tick, Greater, AlarmTypeOK
  <2>2. late' \in 0..MaxLate
    BY <1>1, AlarmAssumption DEF Tick, AlarmTypeOK
  <2>3. due' = NoAlarm \/ due' \in Int
    BY <1>1, ArmedType, AlarmAssumption DEF Tick, Greater, AlarmTypeOK
  <2>4. Greater(my.left - 1, - MaxLate) \in Int
    BY AlarmAssumption DEF Greater, AlarmTypeOK
  <2>5. AlarmTypeOK'
    BY <1>1, <2>1, <2>2, <2>3, <2>4 DEF Tick, AlarmTypeOK
  <2> QED BY <1>1, <2>5 DEF Tick, AlarmTypeOK
<1>2. ASSUME Interrupt,
             OtherSignal \/ Deliver
      PROVE  AlarmSound'
  <2>1. /\ UNCHANGED <<timer, handler, late, lock_fd, owner, wanted>>
        /\ pending' \in BOOLEAN
        /\ due' = NoAlarm \/ due' \in Int
    BY <1>2 DEF OtherSignal, Deliver, AlarmTypeOK
  <2>2. CASE pc = "sigpause"
    BY <2>1, <2>2, <1>2 DEF Interrupt, Woken, AlarmTypeOK
  <2>3. CASE pc = "setlkw"
    BY <2>1, <2>3, <1>2 DEF Interrupt, Woken, AlarmTypeOK
  <2>4. CASE pc \notin {"sigpause", "setlkw"}
    BY <2>1, <2>4, <1>2 DEF Interrupt, Woken, AlarmTypeOK
  <2> QED BY <2>2, <2>3, <2>4
<1> QED BY <1>1, <1>2 DEF Deliver, OtherSignal

LEMMA StepSound == AlarmSound /\ [AlarmNext]_alarmvars => AlarmSound'
<1> SUFFICES ASSUME AlarmSound, [AlarmNext]_alarmvars PROVE AlarmSound'
  OBVIOUS
<1>1. CASE UNCHANGED alarmvars
  BY <1>1
  DEF alarmvars, AlarmSound, AlarmTypeOK, StateSaved, LockKnown, FuncSaved, MaskSaved, Saving, Asking,
      InSleep, InLock, Measured
<1>2. CASE AlarmNext
  BY <1>2, ProgramSound, SleepSound, LockSound, KernelSound DEF AlarmNext, Step
<1> QED BY <1>1, <1>2

-----------------------------------------------------------------------------
(* Ticks and seconds.                                                      *)

LEMMA TicksOrder ==
  \A a, b \in Int : /\ a <= b <=> a * Tps <= b * Tps
                    /\ a * Tps \in Int /\ a * Tps = Tps * a
                    /\ (a + b) * Tps = a * Tps + b * Tps
                    /\ (a - b) * Tps = a * Tps - b * Tps
<1>1. Tps \in Int /\ Tps > 0
  BY AlarmAssumption
<1> SUFFICES ASSUME NEW a \in Int, NEW b \in Int
             PROVE  /\ a <= b <=> a * Tps <= b * Tps
                    /\ a * Tps \in Int /\ a * Tps = Tps * a
                    /\ (a + b) * Tps = a * Tps + b * Tps
                    /\ (a - b) * Tps = a * Tps - b * Tps
  OBVIOUS
<1>2. /\ a * Tps \in Int /\ a * Tps = Tps * a
      /\ (a + b) * Tps = a * Tps + b * Tps
      /\ (a - b) * Tps = a * Tps - b * Tps
  BY <1>1
<1>3. a <= b => a * Tps <= b * Tps
  BY <1>1
<1>4. b < a => b * Tps < a * Tps
  BY <1>1
<1> QED BY <1>1, <1>2, <1>3, <1>4

LEMMA SecsRound ==
  ASSUME NEW t \in Nat
  PROVE  /\ t <= Secs(t) * Tps /\ Secs(t) * Tps <= t + Tps - 1
         /\ Secs(t) = 0 <=> t = 0
         /\ \A m \in Nat : t <= m * Tps => Secs(t) <= m
<1>1. Tps \in Nat /\ Tps > 0
  BY AlarmAssumption
<1>2. Secs(t) \in Nat
  BY SecsType
<1> DEFINE s == Secs(t)
<1>3. t <= s * Tps /\ s * Tps <= t + Tps - 1
  BY <1>1, SMTT(30) DEF Secs
<1> HIDE DEF s
<1>4. s \in Nat
  BY <1>2 DEF s
<1>5. s = 0 => t = 0
  BY <1>1, <1>3
<1>6. t = 0 => s = 0
  <2>1. 1 <= s => 1 * Tps <= s * Tps
    BY <1>4, TicksOrder
  <2>2. 1 * Tps = Tps /\ s * Tps \in Int
    BY <1>1, <1>4
  <2> QED BY <1>1, <1>3, <1>4, <2>1, <2>2
<1>7. ASSUME NEW m \in Nat, t <= m * Tps PROVE s <= m
  <2>1. m + 1 <= s => (m + 1) * Tps <= s * Tps
    BY <1>4, TicksOrder
  <2>2. (m + 1) * Tps = m * Tps + Tps /\ m * Tps \in Int /\ s * Tps \in Int
    BY <1>1, <1>4
  <2> QED BY <1>1, <1>3, <1>4, <1>7, <2>1, <2>2
<1> QED BY <1>3, <1>5, <1>6, <1>7 DEF s

LEMMA TruncatedRound ==
  ASSUME NEW t \in Int
  PROVE  /\ t >= 0 => Truncated(t) * Tps <= t /\ t < Truncated(t) * Tps + Tps
         /\ t < 0 => /\ t <= Truncated(t) * Tps /\ Truncated(t) * Tps <= 0
                     /\ Truncated(t) * Tps < t + Tps
<1>1. Tps \in Nat /\ Tps > 0
  BY AlarmAssumption
<1>2. ASSUME NEW k \in Nat PROVE (k \div Tps) * Tps <= k /\ k < (k \div Tps) * Tps + Tps
                                 /\ k \div Tps \in Nat
  BY <1>1, SMTT(30)
<1>3. CASE t >= 0
  BY <1>2, <1>3 DEF Truncated
<1>4. CASE t < 0
  <2> DEFINE q == (- t) \div Tps
  <2>1. q * Tps <= - t /\ - t < q * Tps + Tps /\ q \in Nat
    BY <1>2, <1>4
  <2>2. Truncated(t) = - q
    BY <1>4 DEF Truncated
  <2> HIDE DEF q
  <2>3. (- q) * Tps = - (q * Tps) /\ 0 <= q * Tps
    BY <1>1, <2>1
  <2> QED BY <1>1, <1>4, <2>1, <2>2, <2>3
<1> QED BY <1>3, <1>4

\* The alarm sleep sets is no longer than the sleep or the program's alarm.
LEMMA ShorterSpan ==
  ASSUME my.n \in 1..MaxSecs, my.alarm_sec \in 0..MaxSecs
  PROVE  /\ Armed(Shorter) = IF my.alarm_sec # 0 /\ my.alarm_sec < my.n
                               THEN my.alarm_sec * Tps ELSE my.n * Tps
         /\ Armed(Shorter) <= my.n * Tps /\ Armed(Shorter) >= Tps
         /\ my.alarm_sec # 0 => Armed(Shorter) <= my.alarm_sec * Tps
<1>1. MaxSecs \in Nat /\ Tps \in Nat /\ 1 * Tps = Tps
  BY AlarmAssumption
<1>2. Shorter \in 1..MaxSecs /\ Shorter <= my.n /\ (my.alarm_sec # 0 => Shorter <= my.alarm_sec)
  BY <1>1 DEF Shorter
<1>3. Armed(Shorter) = Shorter * Tps
  BY <1>1, <1>2, TicksOrder DEF Armed
<1>4. Shorter * Tps <= my.n * Tps /\ 1 * Tps <= Shorter * Tps
  BY <1>1, <1>2, TicksOrder
<1>5. my.alarm_sec # 0 => Shorter * Tps <= my.alarm_sec * Tps
  BY <1>1, <1>2, TicksOrder
<1> QED BY <1>1, <1>3, <1>4, <1>5 DEF Shorter

LEMMA SlackFits ==
  ASSUME Alarms # {}
  PROVE  Slack < Armed(MaxSecs) /\ Slack \in Nat /\ Armed(MaxSecs) \in Nat
<1>1. MaxSecs \in Nat /\ MaxLate \in Nat /\ Tps \in Nat /\ Tps > 0 /\ MaxLate < MaxSecs
  <2>1. PICK k \in Alarms : k \in Nat /\ k + MaxLate < MaxSecs
    BY AlarmAssumption
  <2> QED BY <2>1, AlarmAssumption
<1>2. Armed(MaxSecs) = MaxSecs * Tps
  BY <1>1, TicksOrder DEF Armed
<1>3. (MaxLate + 1) * Tps <= MaxSecs * Tps /\ (MaxLate + 1) * Tps = MaxLate * Tps + 1 * Tps
  BY <1>1, TicksOrder
<1>4. MaxLate * Tps >= MaxLate /\ 1 * Tps = Tps
  BY <1>1
<1> QED BY <1>1, <1>2, <1>3, <1>4, ArmedType DEF Slack

-----------------------------------------------------------------------------
(* The program's alarm through sleep.                                      *)

\* What sleep restores is what is left of the program's alarm.
LEMMA RestLeft ==
  ASSUME AlarmTracked, pc = "remain", my.alarm_sec # 0
  PROVE  /\ Rest \in Nat /\ Rest <= MaxSecs
         /\ - Slack <= Rest * Tps - due /\ Rest * Tps - due <= Tps - 1 + late
<1> DEFINE k == Truncated(my.left)
           a == my.alarm_sec * Tps
           n == my.n * Tps
           r == my.alarm_sec - (my.n - k)
           lateness == IF Exact THEN 0 ELSE late
<1>1. Tps \in Nat /\ Tps > 0 /\ MaxSecs \in Nat /\ MaxLate \in Nat /\ WordSize \in Nat /\ MaxSecs < WordSize
  <2>1. Alarms # {}
    BY DEF AlarmTracked, SleepKnown, TimerKnown, Measured
  <2>2. PICK m \in Alarms : m + MaxLate < MaxSecs /\ MaxSecs < WordSize
    BY <2>1, AlarmAssumption
  <2> QED BY <2>2, AlarmAssumption
<1>2. /\ my.n \in 1..MaxSecs /\ my.alarm_sec \in 1..MaxSecs /\ my.left \in Int /\ due \in Int
      /\ late \in 0..MaxLate
  BY DEF AlarmTracked, SleepKnown, AlarmSound, AlarmTypeOK, Measured
<1>3. k \in Int /\ a \in Int /\ n \in Int /\ r \in Int
  BY <1>1, <1>2, TruncatedType
<1>4. /\ my.left >= 0 => k * Tps <= my.left /\ my.left < k * Tps + Tps
      /\ my.left < 0 => my.left <= k * Tps /\ k * Tps <= 0 /\ k * Tps < my.left + Tps
  BY <1>2, TruncatedRound
<1> HIDE DEF k
<1>5. r * Tps = a - n + k * Tps /\ k * Tps \in Int
  <2>1. r = (my.alarm_sec - my.n) + k /\ my.alarm_sec - my.n \in Int
    BY <1>2, <1>3
  <2>2. \A x \in Int : (x + k) * Tps = x * Tps + k * Tps /\ k * Tps \in Int
    BY <1>3, TicksOrder
  <2>3. (my.alarm_sec - my.n) * Tps = a - n
    BY <1>1, <1>2, TicksOrder
  <2> QED BY <2>1, <2>2, <2>3
<1>6. Armed(Shorter) <= n /\ Armed(Shorter) <= a /\ Armed(Shorter) \in Nat
  BY <1>2, ShorterSpan, ArmedType DEF Shorter
<1>7. /\ n - my.left >= 0 /\ n - my.left <= Armed(Shorter) + lateness
      /\ a - (Tps - 1) - late <= due + (n - my.left) /\ due + (n - my.left) <= a
      /\ a - (Tps - 1) - Armed(Shorter) - late <= due
  <2>1. due # NoAlarm /\ timer = 0
    BY DEF AlarmTracked, SleepKnown, TimerKnown, Measured, Off, Quiet
  <2> QED BY <2>1, <1>1, <1>2, <1>3, <1>6 DEF AlarmTracked, SleepKnown, Measured, Elapsed, Left
<1>8. lateness \in 0..late /\ (lateness = 0 \/ a > n + MaxLate)
  BY <1>1, <1>2, <1>3 DEF Exact, Measured
<1> HIDE DEF k, a, n, lateness
<1>9. r * Tps > - Tps
  BY <1>1, <1>2, <1>3, <1>5, <1>4, <1>6, <1>7, <1>8
<1>10. r * Tps <= a
  BY <1>1, <1>2, <1>3, <1>5, <1>4, <1>6, <1>7
<1>11. r \in Nat /\ r <= MaxSecs
  <2>1. (-1) * Tps = - Tps
    BY <1>1
  <2>2. r <= -1 => r * Tps <= (-1) * Tps
    BY <1>3, TicksOrder
  <2>3. my.alarm_sec * Tps = a
    BY DEF a
  <2>4. r <= my.alarm_sec
    <3>1. \A x, y \in Int : x <= y <=> x * Tps <= y * Tps
      BY TicksOrder
    <3>2. my.alarm_sec \in Int
      BY <1>2
    <3> QED BY <1>3, <1>10, <2>3, <3>1, <3>2
  <2> QED BY <1>1, <1>2, <1>3, <1>5, <1>9, <2>1, <2>2, <2>4
<1>12. Rest = r
  <2>1. Rest = r % WordSize
    BY DEF Rest, k
  <2>2. \A x \in Nat : x < WordSize => x % WordSize = x
    BY <1>1, SMTT(30)
  <2>3. r < WordSize
    BY <1>1, <1>11
  <2> HIDE DEF r
  <2> QED BY <1>11, <2>1, <2>2, <2>3
<1>13. - Slack <= r * Tps - due
  BY <1>1, <1>2, <1>3, <1>5, <1>4, <1>6, <1>7, <1>8 DEF Slack
<1>14. r * Tps - due <= Tps - 1 + late
  BY <1>1, <1>2, <1>3, <1>5, <1>4, <1>6, <1>7, <1>8
<1> QED BY <1>11, <1>12, <1>13, <1>14

LEMMA ArmedBound ==
  ASSUME NEW secs \in Nat
  PROVE  /\ Armed(secs) \in Nat /\ Armed(secs) <= Tps * MaxSecs
         /\ Armed(secs) = 0 <=> secs = 0
         /\ secs <= MaxSecs => Armed(secs) = secs * Tps
<1>1. Tps \in Nat /\ Tps > 0 /\ MaxSecs \in Nat /\ MaxSecs > 0
  BY AlarmAssumption
<1> DEFINE k == IF secs > MaxSecs THEN MaxSecs ELSE secs
<1>2. k \in 0..MaxSecs /\ (k = 0 <=> secs = 0) /\ (secs <= MaxSecs => k = secs)
  BY <1>1
<1>3. Armed(secs) = Tps * k
  BY DEF Armed
<1> HIDE DEF k
<1>4. Tps * k \in Nat /\ Tps * k = k * Tps /\ (Tps * k = 0 <=> k = 0)
  BY <1>1, <1>2
<1>5. Tps * k <= Tps * MaxSecs
  <2>1. k * Tps <= MaxSecs * Tps /\ MaxSecs * Tps = Tps * MaxSecs
    BY <1>1, <1>2, TicksOrder
  <2> QED BY <1>4, <2>1
<1> QED BY <1>2, <1>3, <1>4, <1>5

LEMMA SlackType == Slack \in Nat
  BY AlarmAssumption DEF Slack

LEMMA InitTracked == AlarmInit => AlarmTracked
<1> SUFFICES ASSUME AlarmInit PROVE TimerKnown /\ SleepKnown
  BY AlarmInitSound DEF AlarmTracked
<1>1. 0 <= Tps * MaxSecs
  BY ArmedBound
<1> QED
  BY <1>1
  DEF AlarmInit, TimerKnown, SleepKnown, Near, Kept, Off, Quiet, Open, Early, Measured, InLock

LEMMA ProgramTracked ==
  ASSUME Heedless = {}, AlarmTracked,
         \/ \E secs \in Alarms : Alarm(secs)
         \/ Mask \/ Lckpwdf \/ Ulckpwdf \/ OtherProcess
  PROVE  TimerKnown' /\ SleepKnown'
<1> USE DEF AlarmTracked, AlarmSound, TimerKnown, Near, Kept, Off, Quiet, Open, Early, Measured, InLock,
            Go, Delivered, sigalrm, program, lock
<1>1. ASSUME NEW secs \in Alarms, Alarm(secs) PROVE TimerKnown' /\ SleepKnown'
  <2>1. secs \in Nat /\ Armed(secs) \in Nat /\ Armed(secs) <= Tps * MaxSecs /\ (Armed(secs) = 0 <=> secs = 0)
    BY AlarmAssumption, ArmedBound
  <2>2. pc = "main" /\ pc' = "main" /\ ~pending' /\ timer' = Armed(secs)
        /\ due' = IF secs = 0 THEN NoAlarm ELSE Armed(secs)
    BY <1>1 DEF Alarm
  <2>3. Near'
    BY <2>1, <2>2, SlackType, AlarmAssumption
  <2>4. TimerKnown'
    BY <2>1, <2>2, <2>3
  <2> QED BY <2>2, <2>4 DEF SleepKnown
<1>2. CASE Mask
  BY <1>2 DEF Mask, SleepKnown
<1>3. CASE Lckpwdf
  BY <1>3 DEF Lckpwdf, SleepKnown
<1>4. CASE Ulckpwdf
  BY <1>4 DEF Ulckpwdf, SleepKnown
<1>5. CASE OtherProcess
  <2>1. UNCHANGED <<pc, timer, pending, blocked, handler, my, late, due>>
    BY <1>5 DEF OtherProcess
  <2> QED BY <2>1 DEF SleepKnown, Elapsed, Left, Exact, Shorter, Armed
<1> QED BY <1>1, <1>2, <1>3, <1>4, <1>5

\* lckpwdf uses the timer only while the program has no alarm.
LEMMA LockTracked ==
  ASSUME Heedless = {}, AlarmTracked, LockStep
  PROVE  TimerKnown' /\ SleepKnown'
<1> USE DEF AlarmTracked, AlarmSound, TimerKnown, Near, Kept, Off, Quiet, Open, Early, Measured, InLock,
            Go, Delivered, sigalrm, program, lock, SleepKnown
<1>1. CASE InstallNoop
  BY <1>1 DEF InstallNoop
<1>2. CASE UnblockAlarm
  BY <1>2 DEF UnblockAlarm
<1>3. CASE SetTimeout
  <2>1. Armed(TIMEOUT) <= Tps * MaxSecs
    BY ArmedBound, AlarmAssumption
  <2> QED BY <1>3, <2>1 DEF SetTimeout
<1>4. CASE Enter
  BY <1>4 DEF Enter
<1>5. CASE Granted
  BY <1>5 DEF Granted
<1>6. CASE ClearAlarm
  <2>1. 0 <= Tps * MaxSecs
    BY ArmedBound
  <2> QED BY <1>6, <2>1 DEF ClearAlarm
<1>7. CASE RestoreSet
  BY <1>7 DEF RestoreSet
<1>8. CASE RestoreAct
  BY <1>8 DEF RestoreAct
<1>9. CASE CloseFailed
  BY <1>9 DEF CloseFailed
<1>10. CASE SetupFails
  BY <1>10 DEF SetupFails
<1> QED BY <1>1, <1>2, <1>3, <1>4, <1>5, <1>6, <1>7, <1>8, <1>9, <1>10 DEF LockStep

\* sleep takes the timer over: what it has saved is the program's alarm,
\* rounded up to seconds.
LEMMA SleepCalled ==
  ASSUME Heedless = {}, AlarmTracked, NEW n \in Sleeps, Sleep(n)
  PROVE  TimerKnown' /\ SleepKnown'
<1> USE DEF AlarmTracked, AlarmSound, AlarmTypeOK
<1>1. Tps \in Nat /\ Tps > 0 /\ MaxSecs \in Nat /\ n \in 1..MaxSecs /\ 0 <= Tps * MaxSecs
  BY AlarmAssumption, ArmedBound
<1>2. timer \in Nat /\ timer <= MaxSecs * Tps /\ MaxSecs * Tps = Tps * MaxSecs
  BY <1>1, TicksOrder DEF TimerKnown
<1>3. pc = "main" /\ ~pending /\ pc' = "sigblock" /\ timer' = 0 /\ ~pending'
  BY DEF Sleep, Go, Delivered, sigalrm
<1>4. my'.n = n /\ my'.alarm_sec = Secs(timer)
  BY DEF Sleep, Idle
<1>5. due = NoAlarm <=> timer = 0
  BY <1>3 DEF TimerKnown, Near, Kept, Quiet
<1>6. due' = IF due = NoAlarm THEN NoAlarm ELSE timer
  BY <1>3 DEF Sleep
<1>7. /\ Secs(timer) \in Nat /\ Secs(timer) <= MaxSecs /\ (Secs(timer) = 0 <=> timer = 0)
      /\ timer <= Secs(timer) * Tps /\ Secs(timer) * Tps <= timer + Tps - 1
  BY <1>1, <1>2, SecsRound, SecsType
<1>8. due' = NoAlarm <=> timer = 0
  BY <1>2, <1>5, <1>6, AlarmAssumption
<1>9. TimerKnown'
  BY <1>1, <1>3, <1>5, <1>6
  DEF TimerKnown, Kept, Off, Quiet, Early, Open, Measured, InLock
<1>10. late' \in Nat
  BY AlarmAssumption DEF Sleep, lock
<1>11. due' # NoAlarm => Left' - (Tps - 1) - late' <= due' /\ due' <= Left'
  <2>1. Left' = Secs(timer) * Tps /\ Secs(timer) * Tps \in Int
    BY <1>1, <1>4, <1>7 DEF Left
  <2> QED BY <1>1, <1>2, <1>6, <1>7, <1>10, <2>1
<1>12. SleepKnown'
  BY <1>1, <1>3, <1>4, <1>7, <1>8, <1>11 DEF SleepKnown, Early, Measured
<1> QED BY <1>9, <1>12

\* The steps of sleep up to the wait.
LEMMA SleepBegins ==
  ASSUME Heedless = {}, AlarmTracked,
         BlockAll \/ CatchAlarm \/ BlockAgain \/ ReadStop \/ SetAlarm \/ Pause
  PROVE  TimerKnown' /\ SleepKnown'
<1> USE DEF AlarmTracked, TimerKnown, SleepKnown, Kept, Off, Quiet, Open, Early, Measured, InLock,
            Go, Delivered, sigalrm, program, lock
<1>1. /\ Tps \in Nat /\ Tps > 0 /\ timer \in Nat /\ late \in Nat /\ (due = NoAlarm \/ due \in Int)
      /\ my.n * Tps \in Int /\ Left \in Int /\ my.left \in Int /\ NoAlarm \notin Int
      /\ \A k \in Nat : k = 0 <=> k * Tps = 0
  BY AlarmAssumption, LocalsType DEF AlarmSound, AlarmTypeOK, Left
<1>2. CASE BlockAll
  <2>1. Left' = Left
    BY <1>2 DEF BlockAll, Left, AlarmSound, AlarmTypeOK
  <2> QED BY <1>2, <2>1 DEF BlockAll, AlarmSound, AlarmTypeOK
<1>3. CASE CatchAlarm
  <2>1. Left' = Left
    BY <1>3 DEF CatchAlarm, Left, AlarmSound, AlarmTypeOK
  <2> QED BY <1>3, <2>1 DEF CatchAlarm, Psignal, AlarmSound, AlarmTypeOK
<1>4. CASE BlockAgain
  BY <1>4 DEF BlockAgain, Left
<1>5. CASE ReadStop
  <2>1. /\ Left' = Left /\ my'.n = my.n /\ my'.alarm_sec = my.alarm_sec /\ my'.left = my.n * Tps
        /\ pc = "stop" /\ pc' = "alarm" /\ timer' = 0 /\ timer = 0
        /\ UNCHANGED <<pending, blocked, handler, late, due>>
    BY <1>5 DEF ReadStop, Left, AlarmSound, AlarmTypeOK
  <2>2. Elapsed' = 0
    BY <1>1, <2>1 DEF Elapsed
  <2>3. Armed(Shorter)' = Armed(Shorter) /\ Armed(Shorter) \in Nat
    BY <2>1, ArmedType, LocalsType DEF Shorter, Armed, AlarmSound
  <2>4. TimerKnown'
    BY <2>1
  <2>5. SleepKnown'
    BY <1>1, <2>1, <2>2, <2>3
  <2> QED BY <2>4, <2>5
<1>6. CASE SetAlarm
  <2>1. /\ UNCHANGED <<my, pending, blocked, handler, late, due>>
        /\ pc = "alarm" /\ pc' = "pause" /\ timer' = Armed(Shorter) /\ timer = 0 /\ ~pending
    BY <1>6 DEF SetAlarm
  <2>2. Elapsed' = Elapsed /\ Left' = Left /\ Armed(Shorter)' = Armed(Shorter)
    BY <2>1 DEF Elapsed, Left, Armed, Shorter
  <2>3. Exact' = Exact
    BY <2>1 DEF Exact
  <2>4. Armed(Shorter) \in Nat /\ Armed(Shorter) <= Tps * MaxSecs /\ Armed(Shorter) > 0
    <3>1. Shorter \in Nat \ {0}
      BY <2>1, LocalsType, AlarmAssumption DEF Shorter, AlarmSound
    <3> QED BY <3>1, ArmedBound
  <2>5. TimerKnown'
    BY <2>1, <2>4
  <2>6. Elapsed \in Int
    BY <1>1 DEF Elapsed
  <2>7. SleepKnown'
    BY <1>1, <2>1, <2>2, <2>3, <2>4, <2>6
  <2> QED BY <2>5, <2>7
<1>7. CASE Pause
  <2>1. /\ UNCHANGED <<my, timer, pending, handler, late, due>> /\ ~blocked'
        /\ pc = "pause" /\ pc' = "sigpause"
    BY <1>7 DEF Pause
  <2>2. Elapsed' = Elapsed /\ Left' = Left /\ Armed(Shorter)' = Armed(Shorter) /\ Exact' = Exact
    BY <2>1 DEF Elapsed, Left, Armed, Shorter, Exact
  <2> QED BY <2>1, <2>2
<1> QED BY <1>2, <1>3, <1>4, <1>5, <1>6, <1>7

\* The steps of sleep after the wait.
LEMMA SleepEnds ==
  ASSUME Heedless = {}, AlarmTracked,
         \/ Cancel \/ Eat \/ Yield \/ BlockOnceMore \/ Remain \/ Rearm
         \/ RestoreFunc \/ RestoreMask \/ Leave
  PROVE  TimerKnown' /\ SleepKnown'
<1> USE DEF AlarmTracked, TimerKnown, SleepKnown, Kept, Off, Quiet, Open, Early, Measured, InLock,
            Go, Delivered, sigalrm, program, lock
<1>1. /\ timer \in Nat /\ late \in Nat /\ NoAlarm \notin Int /\ 0 <= Tps * MaxSecs
      /\ my.alarm_sec \in Nat /\ Armed(Shorter) \in Nat /\ Elapsed \in Int
  BY AlarmAssumption, LocalsType, ArmedBound DEF AlarmSound, AlarmTypeOK, Shorter, Elapsed
<1>2. CASE Cancel
  <2>1. /\ UNCHANGED <<my, pending, blocked, handler, late, due>> /\ timer' = 0
        /\ pc = "cancel" /\ pc' = "eat"
    BY <1>2 DEF Cancel
  <2>2. Elapsed' = Elapsed /\ Left' = Left /\ Armed(Shorter)' = Armed(Shorter) /\ Exact' = Exact
    BY <2>1 DEF Elapsed, Left, Armed, Shorter, Exact
  <2>3. TimerKnown'
    BY <1>1, <2>1
  <2>4. Left \in Int /\ Tps \in Int /\ (due = NoAlarm \/ due \in Int)
    BY <1>1, AlarmAssumption DEF Left, AlarmSound, AlarmTypeOK
  <2>5. SleepKnown'
    BY <1>1, <2>1, <2>2, <2>4
  <2> QED BY <2>3, <2>5
<1>3. ASSUME Eat \/ Yield \/ BlockOnceMore PROVE TimerKnown' /\ SleepKnown'
  <2>1. /\ UNCHANGED <<my, pending, timer, late, due>>
        /\ \/ pc = "eat" /\ pc' = "yield" /\ handler' = "alarm_catch" /\ ~blocked'
           \/ pc = "yield" /\ pc' = "reblock" /\ UNCHANGED <<handler, blocked>> /\ ~pending
           \/ pc = "reblock" /\ pc' = "remain" /\ UNCHANGED handler /\ blocked'
    BY <1>3 DEF Eat, Yield, BlockOnceMore, Psignal
  <2>2. Elapsed' = Elapsed /\ Left' = Left /\ Armed(Shorter)' = Armed(Shorter) /\ Exact' = Exact
    BY <2>1 DEF Elapsed, Left, Armed, Shorter, Exact
  <2> QED BY <1>1, <2>1, <2>2
<1>4. CASE Remain
  <2>1. /\ UNCHANGED <<pending, blocked, handler, timer, late, due>> /\ timer = 0 /\ ~pending /\ blocked
        /\ pc = "remain" /\ pc' = (IF my.alarm_sec = 0 THEN "old_func" ELSE "rearm")
        /\ my'.alarm_sec = (IF my.alarm_sec = 0 THEN 0 ELSE Rest)
    BY <1>4 DEF Remain, AlarmSound, AlarmTypeOK
  <2>2. my.alarm_sec = 0 <=> due = NoAlarm
    BY <2>1
  <2>3. CASE my.alarm_sec = 0
    BY <2>1, <2>2, <2>3 DEF Near
  <2>4. CASE my.alarm_sec # 0
    <3>1. /\ Rest \in Nat /\ Rest <= MaxSecs
          /\ - Slack <= Rest * Tps - due /\ Rest * Tps - due <= Tps - 1 + late
      BY <2>1, <2>4, RestLeft
    <3>2. Left' = Rest * Tps
      BY <2>1, <2>4 DEF Left
    <3>3. Slack' = Slack
      BY DEF Slack
    <3>4. TimerKnown'
      BY <2>1, <2>4
    <3> QED BY <2>1, <2>2, <2>4, <3>1, <3>2, <3>3, <3>4
  <2> QED BY <2>3, <2>4
<1>5. CASE Rearm
  <2>1. /\ UNCHANGED <<my, blocked, handler, late, due>> /\ timer = 0 /\ ~pending /\ blocked
        /\ pc = "rearm" /\ pc' = "old_func" /\ due # NoAlarm
        /\ IF my.alarm_sec = 0 THEN pending' /\ timer' = 0
           ELSE ~pending' /\ timer' = Armed(my.alarm_sec)
    BY <1>5 DEF Rearm, AlarmSound, AlarmTypeOK
  <2>2. my.alarm_sec # 0 => timer' = Left /\ timer' > 0 /\ timer' <= Tps * MaxSecs
    BY <1>1, <2>1, ArmedBound DEF Left
  <2>3. late <= MaxLate /\ Tps \in Nat /\ MaxLate \in Nat /\ due \in Int
    BY <2>1, AlarmAssumption DEF AlarmSound, AlarmTypeOK
  <2>4. my.alarm_sec # 0 => timer' - due' \in (- Slack)..Slack
    BY <1>1, <2>1, <2>2, <2>3, ArmedBound DEF Slack
  <2>5. Near'
    BY <2>1, <2>2, <2>4 DEF Near, Slack
  <2> QED BY <1>1, <2>1, <2>2, <2>5
<1>6. ASSUME RestoreFunc \/ RestoreMask \/ Leave PROVE TimerKnown' /\ SleepKnown'
  <2>1. /\ UNCHANGED <<pending, timer, due>>
        /\ \/ pc = "old_func" /\ pc' = "old_mask"
           \/ pc = "old_mask" /\ pc' = "leave"
           \/ pc = "leave" /\ pc' = "main"
    BY <1>6 DEF RestoreFunc, RestoreMask, Leave, Psignal
  <2>2. Near' = Near
    BY <2>1 DEF Near
  <2> QED BY <2>1, <2>2
<1> QED BY <1>2, <1>3, <1>4, <1>5, <1>6

\* A signal ends the wait, and eats no alarm but one that is due.
LEMMA SignalTracked ==
  ASSUME Heedless = {}, AlarmTracked, Deliver \/ OtherSignal
  PROVE  TimerKnown' /\ SleepKnown'
<1> USE DEF AlarmTracked, TimerKnown, SleepKnown, Kept, Off, Quiet, Open, Early, Measured, InLock,
            Delivered, program, lock, Interrupt, Woken
<1>1. /\ timer \in Nat /\ late \in Nat /\ NoAlarm \notin Int /\ pending \in BOOLEAN
      /\ my.alarm_sec \in Nat /\ Armed(Shorter) \in Nat /\ Elapsed \in Int
  BY AlarmAssumption, LocalsType DEF AlarmSound, AlarmTypeOK, Shorter, Elapsed, Armed
<1>2. /\ UNCHANGED <<timer, late>> /\ pc' = Woken
      /\ pc # "setlkw" => my' = my
      /\ pc = "setlkw" => pc' = "alarm0" /\ ~blocked' /\ due = NoAlarm
      /\ pc = "sigpause" => pc' = "cancel" /\ handler' = "alarm_catch"
      /\ pc \notin {"sigpause", "setlkw"} => UNCHANGED <<blocked, handler>>
      /\ UNCHANGED handler
  BY DEF Deliver, OtherSignal
<1>3. CASE Deliver
  <2>1. pending /\ ~blocked /\ ~pending' /\ timer = 0
        /\ due' = IF handler = "program" THEN NoAlarm ELSE due
    BY <1>3 DEF Deliver
  <2>2. pc \in Kept => handler = "program"
    BY <2>1 DEF AlarmSound, StateSaved, FuncSaved, Saving
  <2>3. pc \notin Off /\ (pc \in {"pause"} \cup Measured => due' = due)
    BY <2>1
  <2>4. /\ pc # "setlkw" => /\ Elapsed' = Elapsed /\ Left' = Left
                            /\ Armed(Shorter)' = Armed(Shorter)
        /\ pc \in Measured => Exact' = Exact
    BY <1>2 DEF Elapsed, Left, Armed, Shorter, Exact
  <2>5. CASE pc = "sigpause"
    <3>1. TimerKnown'
      BY <1>1, <1>2, <2>1, <2>3, <2>5
    <3> QED BY <1>1, <1>2, <2>1, <2>3, <2>4, <2>5, <3>1
  <2>6. CASE pc = "setlkw"
    BY <1>1, <1>2, <2>1, <2>6
  <2>7. CASE pc \notin {"sigpause", "setlkw"}
    <3>1. pc' = pc /\ UNCHANGED <<blocked, handler, my>>
      BY <1>2, <2>7
    <3>2. ASSUME pc \in Kept PROVE TimerKnown'
      <4>1. due' = NoAlarm /\ Near'
        BY <1>1, <1>2, <2>1, <2>2, <3>2 DEF Near
      <4> QED BY <1>1, <1>2, <2>1, <2>3, <3>1, <3>2, <4>1
    <3>3. ASSUME pc \notin Kept PROVE TimerKnown'
      <4>1. pc' \notin Kept /\ pc' \notin Off /\ UNCHANGED <<timer, blocked, handler>>
        BY <1>2, <2>3, <3>1, <3>3
      <4>2. pc' \in InLock => due' = NoAlarm
        BY <2>1, <3>1
      <4>3. pc' # "pause" /\ pc' # "sigpause"
        BY <2>1, <2>7, <3>1
      <4> QED BY <1>1, <2>1, <3>1, <4>1, <4>2, <4>3
    <3>4. SleepKnown'
      BY <1>1, <1>2, <2>1, <2>3, <2>4, <2>7, <3>1
    <3> QED BY <3>2, <3>3, <3>4
  <2> QED BY <2>5, <2>6, <2>7
<1>4. CASE OtherSignal
  <2>1. UNCHANGED <<pending, due>> /\ pc \in {"sigpause", "setlkw"}
    BY <1>4 DEF OtherSignal, WaitSteps
  <2>2. /\ pc = "sigpause" => /\ Elapsed' = Elapsed /\ Left' = Left
                              /\ Armed(Shorter)' = Armed(Shorter) /\ Exact' = Exact
    BY <1>2, <2>1 DEF Elapsed, Left, Armed, Shorter, Exact
  <2> QED BY <1>1, <1>2, <2>1, <2>2
<1> QED BY <1>3, <1>4

\* A tick moves the timer, the clock sleep reads and what is left of the
\* program's alarm alike.
LEMMA TickTracked ==
  ASSUME Heedless = {}, AlarmTracked, Tick
  PROVE  TimerKnown' /\ SleepKnown'
<1> USE DEF AlarmTracked, AlarmSound
<1>1. /\ timer \in Nat /\ late \in 0..MaxLate /\ MaxLate \in Nat /\ NoAlarm \notin Int /\ pending \in BOOLEAN
      /\ my.n \in Nat /\ my.alarm_sec \in Nat /\ my.left \in Int /\ Armed(Shorter) \in Nat
      /\ Tps \in Nat /\ Tps > 0 /\ (due = NoAlarm \/ due \in Int) /\ Slack = Tps + MaxLate - 1
      /\ Tps * MaxSecs \in Nat
      /\ pc \in {"main"} \cup InSleep \cup InLock
  <2>1. /\ Tps \in Nat /\ Tps > 0 /\ MaxSecs \in Nat /\ MaxLate \in Nat /\ NoAlarm \notin Int
    BY AlarmAssumption
  <2>2. Armed(Shorter) \in Nat
    BY LocalsType, ArmedType DEF Shorter
  <2> QED BY <2>1, <2>2, LocalsType DEF AlarmTypeOK, Slack
<1>2. /\ UNCHANGED <<pc, blocked, handler>>
      /\ timer' = (IF timer = 0 THEN 0 ELSE timer - 1)
      /\ (pending \/ timer = 1 => pending') /\ (~pending /\ timer # 1 => ~pending')
      /\ late' = IF pc \in WaitSteps \cup {"main"} THEN late ELSE late + 1
      /\ pending => blocked
      /\ due' = NoAlarm <=> due = NoAlarm
  <2>1. due # NoAlarm => Greater(due - 1, - Armed(MaxSecs)) \in Int
    BY <1>1, ArmedType, AlarmAssumption DEF Greater
  <2>2. /\ UNCHANGED <<pc, blocked, handler>>
        /\ (pending \/ timer = 1 => pending') /\ (~pending /\ timer # 1 => ~pending')
        /\ late' = IF pc \in WaitSteps \cup {"main"} THEN late ELSE late + 1
        /\ pending => blocked
    BY DEF Tick, Delivered
  <2>3. timer' = (IF timer = 0 THEN 0 ELSE timer - 1)
    BY <1>1 DEF Tick, Greater
  <2>4. due' = NoAlarm <=> due = NoAlarm
    BY <1>1, <2>1 DEF Tick
  <2> QED BY <2>2, <2>3, <2>4
\* The program's alarm is not late by more than the ghost can say.
<1>3. due # NoAlarm /\ due - 1 >= - Slack => due' = due - 1
  <2>1. due # NoAlarm => Slack < Armed(MaxSecs) /\ Slack \in Nat /\ Armed(MaxSecs) \in Nat
    BY SlackFits DEF TimerKnown
  <2> QED BY <1>1, <2>1 DEF Tick, Greater
<1>4. pc \notin Measured => my' = my
  BY DEF Tick
<1>5. CASE pc \in Kept
  <2>1. due # NoAlarm /\ ~pending => due' = due - 1
    BY <1>1, <1>3, <1>5 DEF TimerKnown, Near
  <2>2. Near /\ Slack' = Slack
    BY <1>5 DEF TimerKnown, Slack
  <2>3. Near'
    <3>1. CASE due = NoAlarm
      BY <1>1, <1>2, <2>2, <3>1 DEF Near, Quiet
    <3>2. CASE pending
      BY <1>2, <2>2, <3>2 DEF Near, Quiet
    <3>3. CASE due # NoAlarm /\ ~pending
      <4>1. timer > 0 /\ timer - due \in (- Slack)..Slack /\ due' = due - 1 /\ timer' = timer - 1
        BY <1>1, <1>2, <2>1, <2>2, <3>3 DEF Near
      <4>2. timer' - due' = timer - due
        BY <1>1, <3>3, <4>1
      <4>3. pending' \/ timer' > 0
        BY <1>1, <1>2, <4>1
      <4> QED BY <1>2, <2>2, <3>3, <4>1, <4>2, <4>3 DEF Near
    <3> QED BY <3>1, <3>2, <3>3
  <2>4. pc \notin {"alarm", "rearm"} \cup Early \cup Measured \cup Off
    BY <1>5 DEF Kept, Early, Measured, Off
  <2>5. TimerKnown'
    BY <1>1, <1>2, <1>5, <2>3, <2>4 DEF TimerKnown, Quiet, Kept, InLock, Open, Off
  <2> QED BY <1>2, <2>4, <2>5 DEF SleepKnown
<1>6. CASE pc \in InLock
  <2>1. TimerKnown'
    BY <1>1, <1>2, <1>6 DEF TimerKnown, Quiet, Kept, InLock, Open, Off, Measured, Early
  <2> QED BY <1>2, <1>6, <2>1 DEF SleepKnown, Early, Measured, InLock
<1>7. CASE pc \in Early \cup {"rearm"}
  <2>1. late' = late + 1 /\ Quiet /\ my' = my /\ Left' = Left /\ Slack' = Slack
    BY <1>2, <1>4, <1>7 DEF WaitSteps, Early, Off, TimerKnown, Left, Slack, Measured
  <2>2. Left \in Int /\ (my.alarm_sec > 0 => Left >= Tps)
    BY <1>1, TicksOrder DEF Left
  <2>3. late' <= MaxLate
    BY <1>1, <1>7, <2>1 DEF Tick, WaitSteps, Early
  <2>4. TimerKnown'
    BY <1>1, <1>2, <1>7, <2>1 DEF TimerKnown, Quiet, Kept, InLock, Open, Off, Measured, Early
  <2>5. CASE pc = "rearm"
    <3>1. my.alarm_sec > 0 => due' = due - 1
      BY <1>1, <1>3, <2>1, <2>2, <2>3, <2>5 DEF SleepKnown
    <3> QED BY <1>1, <1>2, <2>1, <2>2, <2>4, <2>5, <3>1 DEF SleepKnown, Early, Measured
  <2>6. CASE pc \in Early
    <3>1. due # NoAlarm => due' = due - 1
      BY <1>1, <1>3, <2>1, <2>2, <2>3, <2>6 DEF SleepKnown
    <3> QED BY <1>1, <1>2, <2>1, <2>2, <2>4, <2>6, <3>1 DEF SleepKnown, Early, Measured
  <2> QED BY <1>7, <2>5, <2>6
<1>8. CASE pc \in Measured
  <2> DEFINE lateness == IF Exact THEN 0 ELSE late
             S == Armed(Shorter)
  <2>1. /\ my.n \in 1..MaxSecs /\ my.alarm_sec \in 0..MaxSecs /\ (my.alarm_sec = 0 <=> due = NoAlarm)
        /\ 0 <= Elapsed /\ Elapsed + timer <= S + lateness
        /\ due # NoAlarm =>
             /\ Left - (Tps - 1) - late <= due + Elapsed /\ due + Elapsed <= Left
             /\ timer + Left - (Tps - 1) - S - late <= due
    BY <1>1, <1>8 DEF SleepKnown
  <2>2. /\ S \in Nat /\ S <= my.n * Tps /\ my.n * Tps \in Int /\ Left \in Int /\ Elapsed \in Int
        /\ due # NoAlarm => S <= Left
    BY <1>1, <2>1, ShorterSpan DEF Left, Elapsed
  <2>3. IF pc = "sigpause" THEN late' = late /\ timer > 0
        ELSE late' = late + 1 /\ late' <= MaxLate /\ ~Exact
    BY <1>1, <1>2, <1>8 DEF Tick, WaitSteps, Measured, TimerKnown, Open
  <2>4. Exact' = Exact /\ Left' = Left /\ S' = S /\ my'.n = my.n /\ my'.alarm_sec = my.alarm_sec
    BY <1>2, <1>8, <1>1 DEF Tick, Exact, Left, Shorter, Armed, AlarmTypeOK
  <2>5. due # NoAlarm => due' = due - 1
    BY <1>1, <1>3, <2>1, <2>2, <2>3
  <2>6. Elapsed' = Elapsed + 1
    <3>1. my.left - 1 >= - MaxLate
      BY <1>1, <2>1, <2>2, <2>3 DEF Elapsed
    <3>2. my'.left = my.left - 1
      BY <1>1, <1>8, <3>1 DEF Tick, Greater, AlarmTypeOK
    <3> QED BY <1>1, <2>2, <2>4, <3>2 DEF Elapsed
  <2>7. TimerKnown'
    <3>1. /\ timer' <= Tps * MaxSecs /\ (pending' => timer' = 0)
          /\ pending \/ timer > 0 => pending' \/ timer' > 0
          /\ Quiet => Quiet'
          /\ timer = 0 => timer' = 0
      BY <1>1, <1>2 DEF TimerKnown, Quiet
    <3> QED BY <1>2, <1>8, <3>1 DEF TimerKnown, Kept, InLock, Open, Off, Measured, Early
  <2>8. Elapsed' + timer' <= S' + lateness'
    BY <1>1, <1>2, <2>1, <2>2, <2>3, <2>4, <2>6
  <2>9. pc = "alarm" =>
          /\ Elapsed' <= lateness'
          /\ due # NoAlarm => Left' - (Tps - 1) - late' <= due' /\ due' <= Left'
    BY <1>1, <2>1, <2>2, <2>3, <2>4, <2>5, <2>6 DEF SleepKnown
  <2>10. due # NoAlarm =>
           /\ Left' - (Tps - 1) - late' <= due' + Elapsed' /\ due' + Elapsed' <= Left'
           /\ timer' + Left' - (Tps - 1) - S' - late' <= due'
    BY <1>1, <1>2, <2>1, <2>2, <2>3, <2>4, <2>5, <2>6
  <2>11. my'.n \in 1..MaxSecs /\ my'.alarm_sec <= MaxSecs /\ (my'.alarm_sec = 0 <=> due' = NoAlarm)
         /\ 0 <= Elapsed'
    BY <1>1, <1>2, <2>1, <2>2, <2>4, <2>6
  <2>12. pc \notin Early /\ pc # "rearm"
    BY <1>8 DEF Measured, Early
  <2>13. SleepKnown'
    BY <1>2, <1>8, <2>8, <2>9, <2>10, <2>11, <2>12 DEF SleepKnown
  <2> QED BY <2>7, <2>13
<1> QED BY <1>1, <1>5, <1>6, <1>7, <1>8 DEF InSleep, Kept, Early, Measured

LEMMA StepTracked ==
  ASSUME Heedless = {}, AlarmTracked, [AlarmNext]_alarmvars
  PROVE  AlarmTracked'
<1>1. AlarmSound'
  BY StepSound DEF AlarmTracked
<1>2. TimerKnown' /\ SleepKnown'
  <2>1. CASE AlarmNext
    BY <2>1, ProgramTracked, LockTracked, SleepCalled, SleepBegins, SleepEnds, SignalTracked, TickTracked
    DEF AlarmNext, Step, SleepStep
  <2>2. CASE UNCHANGED alarmvars
    BY <2>2
    DEF AlarmTracked, TimerKnown, SleepKnown, Near, Kept, Off, Quiet, Open, Early, Measured, InLock, alarmvars,
        Exact, Elapsed, Left, Shorter, Armed, Slack
  <2> QED BY <2>1, <2>2
<1> QED BY <1>1, <1>2 DEF AlarmTracked

-----------------------------------------------------------------------------
(* The theorems.                                                           *)

\* The inductive invariant of sleep, alarm and lckpwdf: what each step has
\* saved of the signal state, and who has the lock.
THEOREM AlarmIsSound == AlarmSpec => []AlarmSound
<1> QED BY AlarmInitSound, StepSound, PTL DEF AlarmSpec

\* sleep and lckpwdf return with the handler and the mask of SIGALRM that the
\* program had, whatever woke them.
THEOREM SignalsRestored == AlarmSpec => []SignalStateRestored
<1>1. AlarmSound => SignalStateRestored
  BY DEF AlarmSound, StateSaved, SignalStateRestored, FuncSaved, MaskSaved, Saving, Measured
<1> QED BY <1>1, AlarmIsSound, PTL

\* lckpwdf and ulckpwdf leave lock_fd open exactly if the process has the
\* lock on the password file.
THEOREM LockIsHeld == AlarmSpec => []LockHeld
<1>1. AlarmSound => LockHeld
  BY DEF AlarmSound, LockKnown, LockHeld, Asking, InLock
<1> QED BY <1>1, AlarmIsSound, PTL

\* A program that sets no alarm lckpwdf would lose, sleeps past none the kernel
\* may be late for, and calls neither with an alarm pending, has its alarm when
\* it was due, within a second of rounding and the ticks the call was late.
THEOREM AlarmIsKept == ASSUME Heedless = {} PROVE AlarmSpec => []AlarmKept
<1>1. AlarmTracked => AlarmKept
  BY DEF AlarmTracked, TimerKnown, AlarmKept, Kept, Near, Quiet
<1>2. Heedless = {} /\ AlarmTracked /\ [AlarmNext]_alarmvars => AlarmTracked'
  BY StepTracked
<1> QED BY <1>1, <1>2, InitTracked, PTL DEF AlarmSpec

-----------------------------------------------------------------------------
(* TosSignals.                                                             *)

-----------------------------------------------------------------------------
(* The order in which checksigs goes through the signals.                  *)

LEMMA LeastNatural ==
  ASSUME NEW T \in SUBSET Nat, T # {}
  PROVE  \E x \in T : \A y \in T : x <= y
<1> DEFINE R == OpToRel(<, Nat)
<1>1. IsWellFoundedOn(R, Nat)
  BY NatLessThanWellFounded
<1>2. \A x, y \in Nat : y < x => <<y, x>> \in R
  BY DEF OpToRel
<1> HIDE DEF R
<1>3. PICK x \in T : \A y \in T : ~ (<<y, x>> \in R)
  BY <1>1, WFMin
<1>4. \A y \in T : y \in Nat /\ ~(y < x)
  BY <1>2, <1>3
<1> QED BY <1>3, <1>4

LEMMA NextSigSent ==
  ASSUME NEW send \in SUBSET Sigs, send # {}
  PROVE  NextSig(send) \in send
<1>1. send \in SUBSET Nat
  BY SignalAssumption
<1>2. \E sig \in send : \A other \in send : sig <= other
  BY <1>1, LeastNatural
<1> QED BY <1>2 DEF NextSig

-----------------------------------------------------------------------------
(* What is still to be sent, call by call.                                 *)

\* Calls that agree up to the j-th have the same to send there.
LEMMA SentSame ==
  ASSUME NEW s, NEW t, NEW j \in Int, \A i \in 1..j : s[i] = t[i]
  PROVE  Sent(s, j) = Sent(t, j)
<1>1. \A i \in 1..j : \A k \in i..j : s[k] = t[k]
  OBVIOUS
<1> QED BY <1>1 DEF Sent

\* A call that is not tfork adds what it is to send.
LEMMA SentCall ==
  ASSUME NEW s, NEW j \in Nat \ {0}, s[j].kind # "tfork"
  PROVE  Sent(s, j) = Sent(s, j - 1) \cup
                      (IF s[j].kind = "checksigs" THEN s[j].send \cap Sigs ELSE {})
<1>1. ASSUME NEW sig \in Sent(s, j - 1) PROVE sig \in Sent(s, j)
  <2>1. PICK i \in 1..(j - 1) : /\ s[i].kind = "checksigs" /\ sig \in s[i].send
                                /\ \A k \in i..(j - 1) : s[k].kind # "tfork"
    BY DEF Sent
  <2>2. i \in 1..j /\ \A k \in i..j : k \in i..(j - 1) \/ k = j
    OBVIOUS
  <2> QED BY <2>1, <2>2 DEF Sent
<1>2. ASSUME NEW sig \in Sigs, s[j].kind = "checksigs", sig \in s[j].send PROVE sig \in Sent(s, j)
  <2>1. j \in 1..j /\ \A k \in j..j : k = j
    OBVIOUS
  <2> QED BY <1>2, <2>1 DEF Sent
<1>3. ASSUME NEW sig \in Sent(s, j)
      PROVE  sig \in Sent(s, j - 1) \/ (s[j].kind = "checksigs" /\ sig \in s[j].send)
  <2>1. PICK i \in 1..j : /\ s[i].kind = "checksigs" /\ sig \in s[i].send
                          /\ \A k \in i..j : s[k].kind # "tfork"
    BY DEF Sent
  <2>2. CASE i = j
    BY <2>1, <2>2
  <2>3. CASE i # j
    <3>1. i \in 1..(j - 1) /\ \A k \in i..(j - 1) : k \in i..j
      BY <2>3
    <3> QED BY <2>1, <3>1 DEF Sent
  <2> QED BY <2>2, <2>3
<1> QED BY <1>1, <1>2, <1>3 DEF Sent

\* tfork starts with nothing to send.
LEMMA SentChild ==
  ASSUME NEW s, NEW j \in Nat \ {0}, s[j].kind = "tfork"
  PROVE  Sent(s, j) = {}
<1>1. \A i \in 1..j : j \in i..j
  OBVIOUS
<1> QED BY <1>1 DEF Sent

LEMMA AccountedSame ==
  ASSUME NEW s, NEW t, NEW j \in Int, \A i \in 1..j : s[i] = t[i],
         NEW pend, NEW mask, NEW func, NEW credit, Accounted(s, j, pend, mask, func, credit)
  PROVE  Accounted(t, j, pend, mask, func, credit)
<1>1. Sent(s, j) = Sent(t, j)
  BY SentSame
<1> QED BY <1>1 DEF Accounted

-----------------------------------------------------------------------------
(* Calls that return, and calls on top.                                    *)

\* t holds the first calls of s.
Prefix(t, s) ==
  /\ t \in Seq(Frame) /\ s \in Seq(Frame) /\ Len(t) <= Len(s)
  /\ \A i \in 1..Len(t) : t[i] = s[i]

LEMMA PrefixKeeps ==
  ASSUME NEW s, NEW t, Prefix(t, s)
  PROVE  /\ Parents(s) => Parents(t)
         /\ Apart(s) => Apart(t)
         /\ Started(s) => Started(t)
<1> USE DEF Prefix
<1>1. Len(s) \in Nat /\ Len(t) \in Nat /\ DOMAIN s = 1..Len(s) /\ DOMAIN t = 1..Len(t)
  OBVIOUS
<1>2. ASSUME Parents(s), NEW j \in DOMAIN t, t[j].kind = "tfork"
      PROVE  Accounted(t, j - 1, t[j].pending, t[j].mask, t[j].handler, t[j].owed)
  <2>1. j \in DOMAIN s /\ s[j] = t[j] /\ j - 1 \in Int /\ \A i \in 1..(j - 1) : s[i] = t[i]
    BY <1>1
  <2>2. Accounted(s, j - 1, t[j].pending, t[j].mask, t[j].handler, t[j].owed)
    BY <1>2, <2>1 DEF Parents
  <2> QED BY <2>1, <2>2, AccountedSame
<1>3. Parents(s) => Parents(t)
  BY <1>2 DEF Parents
<1>4. Apart(s) => Apart(t)
  BY <1>1 DEF Apart
<1>5. ASSUME Started(s), NEW j \in DOMAIN t, t[j].kind = "thread"
      PROVE  j > 1 /\ t[j - 1].kind = "tfork"
  <2>1. j \in DOMAIN s /\ s[j].kind = "thread" /\ (j > 1 => j - 1 \in 1..Len(t))
    BY <1>1, <1>5
  <2> QED BY <1>5, <2>1 DEF Started
<1> QED BY <1>3, <1>4, <1>5 DEF Started

\* A call of no consequence for the signals on top of t.
LEMMA CallKeeps ==
  ASSUME NEW t \in Seq(Frame), NEW f \in Frame, f.kind \notin {"tfork", "checksigs", "thread"}
  PROVE  /\ Append(t, f) \in Seq(Frame) /\ Len(Append(t, f)) = Len(t) + 1
         /\ Prefix(t, Append(t, f)) /\ Append(t, f)[Len(t) + 1] = f
         /\ Sent(Append(t, f), Len(t) + 1) = Sent(t, Len(t))
         /\ Parents(t) => Parents(Append(t, f))
         /\ Apart(t) => Apart(Append(t, f))
         /\ Started(t) => Started(Append(t, f))
<1> DEFINE s == Append(t, f)
<1>1. /\ s \in Seq(Frame) /\ Len(s) = Len(t) + 1 /\ Len(t) \in Nat
      /\ \A i \in 1..Len(t) : s[i] = t[i]
      /\ s[Len(t) + 1] = f /\ DOMAIN s = 1..(Len(t) + 1) /\ DOMAIN t = 1..Len(t)
  OBVIOUS
<1> HIDE DEF s
<1>2. Prefix(t, s)
  BY <1>1 DEF Prefix
<1>3. Sent(s, Len(t) + 1) = Sent(t, Len(t))
  <2>1. Sent(s, Len(t)) = Sent(t, Len(t))
    BY <1>1, SentSame
  <2>2. Len(t) + 1 \in Nat \ {0} /\ (Len(t) + 1) - 1 = Len(t)
        /\ s[Len(t) + 1].kind \notin {"tfork", "checksigs"}
    BY <1>1
  <2>3. Sent(s, Len(t) + 1) = Sent(s, (Len(t) + 1) - 1) \cup {}
    BY <2>2, SentCall
  <2> QED BY <2>1, <2>2, <2>3
<1>4. ASSUME Parents(t), NEW j \in DOMAIN s, s[j].kind = "tfork"
      PROVE  Accounted(s, j - 1, s[j].pending, s[j].mask, s[j].handler, s[j].owed)
  <2>1. j \in DOMAIN t /\ s[j] = t[j] /\ j - 1 \in Int /\ \A i \in 1..(j - 1) : t[i] = s[i]
    BY <1>1, <1>4
  <2>2. Accounted(t, j - 1, s[j].pending, s[j].mask, s[j].handler, s[j].owed)
    BY <1>4, <2>1 DEF Parents
  <2> QED BY <2>1, <2>2, AccountedSame
<1>5. Parents(t) => Parents(s)
  BY <1>4 DEF Parents
<1>6. Apart(t) => Apart(s)
  BY <1>1 DEF Apart
<1>7. Started(t) => Started(s)
  <2>1. ASSUME Started(t), NEW j \in DOMAIN s, s[j].kind = "thread"
        PROVE  j > 1 /\ s[j - 1].kind = "tfork"
    <3>1. j \in DOMAIN t /\ t[j].kind = "thread"
      BY <1>1, <2>1
    <3>2. j > 1 /\ t[j - 1].kind = "tfork"
      BY <2>1, <3>1 DEF Started
    <3> QED BY <1>1, <3>1, <3>2
  <2> QED BY <2>1 DEF Started
<1> QED BY <1>1, <1>2, <1>3, <1>5, <1>6, <1>7 DEF s

\* A call that returns; unless it was tfork, the thread is the same.
LEMMA ReturnKeeps ==
  ASSUME NEW s \in Seq(Frame), s # << >>
  PROVE  LET t == SubSeq(s, 1, Len(s) - 1)
         IN /\ t \in Seq(Frame) /\ Len(t) = Len(s) - 1 /\ Prefix(t, s)
            /\ Parents(s) => Parents(t)
            /\ Apart(s) => Apart(t)
            /\ Started(s) => Started(t)
            /\ s[Len(s)].kind # "tfork" =>
                 Sent(s, Len(s)) = Sent(t, Len(t)) \cup
                   (IF s[Len(s)].kind = "checksigs" THEN s[Len(s)].send ELSE {})
<1> DEFINE t == SubSeq(s, 1, Len(s) - 1)
<1>1. /\ Len(s) \in Nat \ {0} /\ t \in Seq(Frame) /\ Len(t) = Len(s) - 1
      /\ \A i \in 1..Len(t) : t[i] = s[i]
  <2>1. Len(s) \in Nat \ {0}
    BY EmptySeq
  <2>2. \A i \in 1..(Len(s) - 1) : s[i] \in Frame
    BY <2>1
  <2>3. 1 \in Int /\ Len(s) - 1 \in Int
    BY <2>1
  <2>4. /\ t \in Seq(Frame)
        /\ Len(t) = IF 1 <= Len(s) - 1 THEN (Len(s) - 1) - 1 + 1 ELSE 0
        /\ \A i \in 1..((Len(s) - 1) - 1 + 1) : t[i] = s[1 + i - 1]
    BY <2>2, <2>3, SubSeqProperties
  <2> HIDE DEF t
  <2>5. Len(t) = Len(s) - 1 /\ (Len(s) - 1) - 1 + 1 = Len(t)
    <3>1. \A n \in Nat \ {0} : /\ (IF 1 <= n - 1 THEN (n - 1) - 1 + 1 ELSE 0) = n - 1
                              /\ (n - 1) - 1 + 1 = n - 1
      OBVIOUS
    <3> QED BY <2>1, <2>4, <3>1
  <2>6. ASSUME NEW i \in 1..Len(t) PROVE t[i] = s[i]
    BY <2>4, <2>5
  <2> QED BY <2>1, <2>4, <2>5, <2>6
<1> HIDE DEF t
<1>2. Prefix(t, s)
  BY <1>1 DEF Prefix
<1>3. ASSUME s[Len(s)].kind # "tfork"
      PROVE  Sent(s, Len(s)) = Sent(t, Len(t)) \cup
               (IF s[Len(s)].kind = "checksigs" THEN s[Len(s)].send ELSE {})
  <2>1. Sent(s, Len(s) - 1) = Sent(t, Len(t))
    BY <1>1, SentSame
  <2>2. s[Len(s)].kind = "checksigs" => s[Len(s)].send \subseteq Sigs
    <3>1. s[Len(s)] \in Frame
      BY <1>1
    <3> QED BY <3>1 DEF Frame, Kinds
  <2> QED BY <1>1, <1>3, <2>1, <2>2, SentCall
<1> QED BY <1>1, <1>2, <1>3, PrefixKeeps DEF t

LEMMA FrameTypes ==
  ASSUME NEW f \in Frame
  PROVE  /\ f.kind \in Kinds \cup {"raise", "checksigs", "exit", "tfork"}
         /\ f.kind = "checksigs" => f.send \in SUBSET Sigs /\ f = Checksigs(f.send)
         /\ f.kind = "exit" => f.i \in Nat /\ f = Exit(f.i)
         /\ f.kind = "tfork" => /\ f.pending \in SUBSET Sigs /\ f.mask \in SUBSET Sigs
                                /\ f.handler \in [Sigs -> Funcs] /\ f.owed \in [Sigs -> Int]
  BY DEF Frame, Kinds, Checksigs, Exit

LEMMA FrameKinds ==
  /\ \A kind \in Kinds \cup {"raise"} : Function(kind) \in Frame /\ Function(kind).kind = kind
  /\ \A i \in Nat : Exit(i) \in Frame /\ Exit(i).kind = "exit" /\ Exit(i).i = i
  /\ \A send \in SUBSET Sigs :
       Checksigs(send) \in Frame /\ Checksigs(send).kind = "checksigs" /\ Checksigs(send).send = send
  BY DEF Frame, Function, Exit, Checksigs

\* The loop of exit calls the next function.
LEMMA LoopCalls ==
  ASSUME NEW t \in Seq(Frame), NEW i \in Nat \ {0}
  PROVE  LET s == t \o <<Exit(i - 1), Function("at_exit")>>
         IN /\ s \in Seq(Frame) /\ Len(s) = Len(t) + 2
            /\ s[Len(t) + 1] = Exit(i - 1) /\ s[Len(t) + 2] = Function("at_exit")
            /\ Prefix(t, s)
            /\ Sent(s, Len(s)) = Sent(t, Len(t))
            /\ Parents(t) => Parents(s)
            /\ Apart(t) => Apart(s)
            /\ Started(t) => Started(s)
<1> DEFINE f == Exit(i - 1)
<1> DEFINE g == Function("at_exit")
<1> DEFINE u == Append(t, f)
<1> DEFINE v == Append(u, g)
<1>1. f \in Frame /\ f.kind = "exit" /\ g \in Frame /\ g.kind = "at_exit"
  BY FrameKinds DEF Kinds
<1> HIDE DEF f, g
<1>2. v = t \o <<f, g>>
  BY <1>1
<1>3. /\ u \in Seq(Frame) /\ Len(u) = Len(t) + 1 /\ Prefix(t, u) /\ u[Len(t) + 1] = f
      /\ Sent(u, Len(u)) = Sent(t, Len(t))
      /\ Parents(t) => Parents(u)
      /\ Apart(t) => Apart(u)
      /\ Started(t) => Started(u)
  BY <1>1, CallKeeps
<1> HIDE DEF u
<1>4. /\ v \in Seq(Frame) /\ Len(v) = Len(u) + 1 /\ Prefix(u, v) /\ v[Len(u) + 1] = g
      /\ Sent(v, Len(v)) = Sent(u, Len(u))
      /\ Parents(u) => Parents(v)
      /\ Apart(u) => Apart(v)
      /\ Started(u) => Started(v)
  BY <1>1, <1>3, CallKeeps
<1> HIDE DEF v
<1>5. /\ Len(t) \in Nat /\ Len(v) = Len(t) + 2 /\ v[Len(t) + 2] = g /\ v[Len(t) + 1] = f
      /\ Prefix(t, v)
  <2>1. Len(t) \in Nat /\ (Len(t) + 1) + 1 = Len(t) + 2
    OBVIOUS
  <2>2. Len(v) = Len(t) + 2 /\ v[Len(t) + 2] = g
    BY <1>3, <1>4, <2>1
  <2>3. v[Len(t) + 1] = f
    BY <1>3, <1>4, <2>1 DEF Prefix
  <2>4. Prefix(t, v)
    BY <1>3, <1>4, <2>1 DEF Prefix
  <2> QED BY <2>1, <2>2, <2>3, <2>4
<1> QED BY <1>2, <1>3, <1>4, <1>5 DEF f, g

-----------------------------------------------------------------------------
(* kill.                                                                   *)

\* What kill leaves on the stack: the calls it came from, and a handler or
\* exit on top of them.
LEMMA KillCalls ==
  ASSUME TypeOK, NEW sig \in Sigs, NEW calls \in Seq(Frame), NEW raised \in {0, 1},
         Kill(sig, calls, raised)
  PROVE  /\ \/ stack' = calls /\ wills' = wills
            \/ stack' = Append(calls, Function("handler")) /\ wills' = wills
            \/ stack' = Append(calls, Exit(num_at_exit)) /\ wills' = Append(wills, num_at_exit)
         /\ stack' \in Seq(Frame) /\ wills' \in Seq(Nat)
         /\ Prefix(calls, stack')
         /\ Sent(stack', Len(stack')) = Sent(calls, Len(calls))
         /\ Parents(calls) => Parents(stack')
         /\ Apart(calls) => Apart(stack')
         /\ Started(calls) => Started(stack')
<1>1. num_at_exit \in Nat /\ wills \in Seq(Nat)
  BY DEF TypeOK
<1>2. \/ stack' = calls /\ wills' = wills
      \/ stack' = Append(calls, Function("handler")) /\ wills' = wills
      \/ stack' = Append(calls, Exit(num_at_exit)) /\ wills' = Append(wills, num_at_exit)
  BY DEF Kill, Fatal, Harmless
<1>3. /\ Function("handler") \in Frame /\ Function("handler").kind = "handler"
      /\ Exit(num_at_exit) \in Frame /\ Exit(num_at_exit).kind = "exit"
  BY <1>1, FrameKinds DEF Kinds
<1>4. CASE stack' = calls /\ wills' = wills
  BY <1>1, <1>4 DEF Prefix
<1>5. CASE stack' = Append(calls, Function("handler")) /\ wills' = wills
  BY <1>1, <1>3, <1>5, CallKeeps
<1>6. CASE stack' = Append(calls, Exit(num_at_exit)) /\ wills' = Append(wills, num_at_exit)
  BY <1>1, <1>3, <1>6, CallKeeps
<1> QED BY <1>2, <1>4, <1>5, <1>6

\* kill keeps the types, whatever calls it leaves.
LEMMA KillTypes ==
  ASSUME TypeOK, NEW sig \in Sigs, NEW calls \in Seq(Frame), NEW raised \in {0, 1},
         Kill(sig, calls, raised), raises' \in Nat
  PROVE  TypeOK'
<1>1. stack' \in Seq(Frame) /\ wills' \in Seq(Nat)
  BY KillCalls
<1>2. sigpending' \in SUBSET Sigs
  BY DEF TypeOK, Kill
<1>3. owed' \in [Sigs -> Int]
  <2>1. owed \in [Sigs -> Int] /\ Due(sig, raised) \in Int
    BY DEF TypeOK, Due
  <2> QED BY <2>1 DEF Kill
<1>4. UNCHANGED <<sigmask, sig_handler, num_at_exit, env, ran>>
  BY DEF Kill
<1> QED BY <1>1, <1>2, <1>3, <1>4 DEF TypeOK

\* The accounts of the thread that calls kill, whose own debt is settled.
LEMMA KillAccounted ==
  ASSUME TypeOK, NEW sig \in Sigs, NEW calls \in Seq(Frame), NEW raised \in {0, 1},
         Kill(sig, calls, raised),
         LET S == Sent(calls, Len(calls))
         IN /\ \A x \in sigpending \cup S : owed[x] >= 1
            /\ \A x \in Sigs : owed[x] \in 0..1
            /\ \A x \in Sigs : owed[x] > 0 => x \in sigpending \cup S \/ (x = sig /\ raised = 0)
            /\ \A x \in sigpending \ sigmask : x \in S \/ (x = sig /\ raised = 0)
            /\ \A x \in sigpending : x # SIGKILL /\ sig_handler[x] # "SIG_IGN"
            /\ raised = 0 => owed[sig] >= 1 /\ sig \notin S
            /\ Parents(calls) /\ Apart(calls)
  PROVE  Accounts'
<1> DEFINE S == Sent(calls, Len(calls))
<1>1. Sent(stack', Len(stack')) = S /\ Parents(stack') /\ Apart(stack')
  BY KillCalls
<1>2. UNCHANGED <<sigmask, sig_handler>>
  BY DEF Kill
<1>3. owed \in [Sigs -> Int] /\ sigpending \in SUBSET Sigs /\ S \subseteq Sigs
  BY DEF TypeOK, Sent
<1>4. /\ \A x \in sigpending \cup S : owed[x] >= 1
      /\ \A x \in Sigs : owed[x] \in 0..1
      /\ \A x \in Sigs : owed[x] > 0 => x \in sigpending \cup S \/ (x = sig /\ raised = 0)
      /\ \A x \in sigpending \ sigmask : x \in S \/ (x = sig /\ raised = 0)
      /\ \A x \in sigpending : x # SIGKILL /\ sig_handler[x] # "SIG_IGN"
      /\ raised = 0 => owed[sig] >= 1 /\ sig \notin S
  OBVIOUS
<1> HIDE DEF S
<1> DEFINE debt == Due(sig, raised)
<1>5. owed' = [owed EXCEPT ![sig] = debt]
  BY DEF Kill
<1> HIDE DEF debt
<1>6. owed'[sig] = debt /\ \A x \in Sigs \ {sig} : owed'[x] = owed[x]
  BY <1>3, <1>5
\* What is left to show, of the one signal and of the others.
<1>7. ASSUME debt \in 0..1, debt > 0 <=> sig \in sigpending' \cup S,
             sigpending' \in SUBSET Sigs,
             \A x \in Sigs \ {sig} : x \in sigpending' <=> x \in sigpending,
             sig \in sigpending' \ sigmask => sig \in S,
             sig \in sigpending' => sig # SIGKILL /\ sig_handler[sig] # "SIG_IGN"
      PROVE  Accounts'
  <2>1. \A x \in Sigs : owed'[x] \in 0..1 /\ (owed'[x] > 0 <=> x \in sigpending' \cup S)
    <3> SUFFICES ASSUME NEW x \in Sigs
                 PROVE  owed'[x] \in 0..1 /\ (owed'[x] > 0 <=> x \in sigpending' \cup S)
      OBVIOUS
    <3>1. CASE x = sig
      BY <1>6, <1>7, <3>1
    <3>2. CASE x # sig
      BY <1>4, <1>6, <1>7, <3>2
    <3> QED BY <3>1, <3>2
  <2>2. \A x \in sigpending' \ sigmask' : x \in S
    BY <1>2, <1>4, <1>7
  <2>3. \A x \in sigpending' : x # SIGKILL /\ sig_handler'[x] # "SIG_IGN"
    BY <1>2, <1>4, <1>7
  <2>4. \A x \in Sigs : owed'[x] >= 0 /\ (owed'[x] > 0 => owed'[x] >= 1)
    BY <2>1
  <2>5. \A x \in sigpending' \cup S : owed'[x] >= 1
    BY <1>3, <1>7, <2>1, <2>4
  <2> QED BY <1>1, <2>1, <2>2, <2>3, <2>4, <2>5 DEF Accounts, Accounted, DeliveredOnce
<1>8. CASE Acts(sig)
  <2>1. sigpending' = sigpending \ {sig} /\ debt = owed[sig] + raised - 1
    BY <1>8 DEF Kill, Due, debt
  <2>2. sig \in sigpending /\ raised = 1 => sig \in S
    BY <1>4, <1>8 DEF Acts, Blocked
  <2>3. debt \in 0..1 /\ (debt > 0 <=> sig \in S)
    <3>1. CASE raised = 0
      BY <1>4, <2>1, <3>1
    <3>2. CASE raised = 1
      <4>1. debt = owed[sig] /\ owed[sig] \in 0..1
        BY <1>4, <2>1, <3>2
      <4>2. owed[sig] > 0 <=> sig \in S
        BY <1>4, <2>2, <3>2, <4>1
      <4> QED BY <4>1, <4>2
    <3> QED BY <3>1, <3>2
  <2> QED BY <1>3, <1>7, <2>1, <2>3
<1>9. CASE ~Acts(sig) /\ sig_handler[sig] = "SIG_IGN"
  <2>1. /\ sigpending' = sigpending /\ sig \notin sigpending
        /\ debt = IF raised = 1 THEN owed[sig] ELSE 0
    BY <1>4, <1>9 DEF Kill, Due, debt
  <2>2. debt \in 0..1 /\ (debt > 0 <=> sig \in S)
    BY <1>4, <2>1
  <2> QED BY <1>3, <1>7, <2>1, <2>2
<1>10. CASE ~Acts(sig) /\ sig_handler[sig] # "SIG_IGN"
  <2>1. /\ sigpending' = sigpending \cup {sig} /\ sig \in sigmask /\ sig # SIGKILL
        /\ debt = IF raised = 1 THEN 1 ELSE owed[sig]
    BY <1>10 DEF Kill, Acts, Blocked, Due, debt
  <2>2. debt \in 0..1 /\ debt > 0
    BY <1>4, <2>1
  <2> QED BY <1>3, <1>7, <1>10, <2>1, <2>2
<1> QED BY <1>8, <1>9, <1>10

-----------------------------------------------------------------------------
(* Every step keeps the accounts of a program that avoids what Careless    *)
(* names.                                                                  *)

\* A checksigs on top of t, with signals no other is to send.
LEMMA ChecksigsKeeps ==
  ASSUME NEW t \in Seq(Frame), NEW send \in SUBSET Sigs
  PROVE  LET s == Append(t, Checksigs(send))
         IN /\ s \in Seq(Frame) /\ Len(s) = Len(t) + 1 /\ Prefix(t, s)
            /\ s[Len(s)] = Checksigs(send)
            /\ Sent(s, Len(s)) = Sent(t, Len(t)) \cup send
            /\ Parents(t) => Parents(s)
            /\ Started(t) => Started(s)
            /\ Apart(t) /\ (\A i \in DOMAIN t : t[i].kind = "checksigs" => t[i].send \cap send = {})
                 => Apart(s)
<1> DEFINE f == Checksigs(send)
<1> DEFINE s == Append(t, f)
<1>0. f \in Frame /\ f.kind = "checksigs" /\ f.send = send
  BY FrameKinds
<1> HIDE DEF f
<1>1. /\ s \in Seq(Frame) /\ Len(s) = Len(t) + 1 /\ Len(t) \in Nat
      /\ \A i \in 1..Len(t) : s[i] = t[i]
      /\ s[Len(t) + 1] = f /\ DOMAIN s = 1..(Len(t) + 1) /\ DOMAIN t = 1..Len(t)
  BY <1>0
<1> HIDE DEF s
<1>2. Prefix(t, s)
  BY <1>1 DEF Prefix
<1>3. Sent(s, Len(s)) = Sent(t, Len(t)) \cup send
  <2>1. Sent(s, Len(t)) = Sent(t, Len(t))
    BY <1>1, SentSame
  <2>2. Len(s) \in Nat \ {0} /\ Len(s) - 1 = Len(t) /\ s[Len(s)] = f
    BY <1>1
  <2>3. Sent(s, Len(s)) = Sent(s, Len(s) - 1) \cup (send \cap Sigs)
    BY <1>0, <2>2, SentCall
  <2> QED BY <2>1, <2>2, <2>3
<1>4. ASSUME Parents(t), NEW j \in DOMAIN s, s[j].kind = "tfork"
      PROVE  Accounted(s, j - 1, s[j].pending, s[j].mask, s[j].handler, s[j].owed)
  <2>1. j \in DOMAIN t /\ s[j] = t[j] /\ j - 1 \in Int /\ \A i \in 1..(j - 1) : t[i] = s[i]
    BY <1>0, <1>1, <1>4
  <2>2. Accounted(t, j - 1, s[j].pending, s[j].mask, s[j].handler, s[j].owed)
    BY <1>4, <2>1 DEF Parents
  <2> QED BY <2>1, <2>2, AccountedSame
<1>5. Parents(t) => Parents(s)
  BY <1>4 DEF Parents
<1>6. ASSUME Started(t), NEW j \in DOMAIN s, s[j].kind = "thread"
      PROVE  j > 1 /\ s[j - 1].kind = "tfork"
  <2>1. j \in DOMAIN t /\ t[j].kind = "thread"
    BY <1>0, <1>1, <1>6
  <2>2. j > 1 /\ t[j - 1].kind = "tfork"
    BY <1>6, <2>1 DEF Started
  <2> QED BY <1>1, <2>1, <2>2
<1>7. Started(t) => Started(s)
  BY <1>6 DEF Started
<1>8. ASSUME Apart(t), \A i \in DOMAIN t : t[i].kind = "checksigs" => t[i].send \cap send = {}
      PROVE  Apart(s)
  <2> SUFFICES ASSUME NEW i \in DOMAIN s, NEW j \in DOMAIN s,
                      s[i].kind = "checksigs", s[j].kind = "checksigs", i # j
               PROVE  s[i].send \cap s[j].send = {}
    BY DEF Apart
  <2>1. CASE i \in DOMAIN t /\ j \in DOMAIN t
    BY <1>1, <1>8, <2>1 DEF Apart
  <2>2. CASE i = Len(t) + 1 /\ j \in DOMAIN t
    BY <1>0, <1>1, <1>8, <2>2
  <2>3. CASE j = Len(t) + 1 /\ i \in DOMAIN t
    BY <1>0, <1>1, <1>8, <2>3
  <2> QED BY <1>1, <2>1, <2>2, <2>3
<1>9. Len(s) = Len(t) + 1 /\ s[Len(s)] = f
  BY <1>1
<1> QED BY <1>1, <1>2, <1>3, <1>5, <1>7, <1>8, <1>9 DEF s, f

\* A signal to be sent by the topmost checksigs is to be sent by no other.
LEMMA SentOnce ==
  ASSUME NEW s \in Seq(Frame), s # << >>, Apart(s), s[Len(s)].kind = "checksigs",
         NEW sig \in s[Len(s)].send
  PROVE  /\ \A i \in 1..(Len(s) - 1) : s[i].kind = "checksigs" => sig \notin s[i].send
         /\ sig \notin Sent(s, Len(s) - 1)
<1>1. Len(s) \in Nat \ {0} /\ DOMAIN s = 1..Len(s)
  BY EmptySeq
<1>2. \A i \in 1..(Len(s) - 1) : s[i].kind = "checksigs" => sig \notin s[i].send
  <2>1. \A i \in 1..(Len(s) - 1) : i \in DOMAIN s /\ Len(s) \in DOMAIN s /\ i # Len(s)
    <3>1. \A n \in Nat \ {0} : \A i \in 1..(n - 1) : i \in 1..n /\ n \in 1..n /\ i # n
      OBVIOUS
    <3> QED BY <1>1, <3>1
  <2> QED BY <2>1 DEF Apart
<1> QED BY <1>2 DEF Sent

\* The loop of checksigs: it returns, or sends the next signal.
LEMMA ChecksigsAccounts ==
  ASSUME TypeOK, Accounts, ChecksigsLoop
  PROVE  Accounts'
<1>1. /\ stack \in Seq(Frame) /\ stack # << >> /\ Top.kind = "checksigs"
      /\ sigpending \in SUBSET Sigs /\ owed \in [Sigs -> Int]
  BY DEF TypeOK, ChecksigsLoop
<1>2. Len(stack) \in Nat \ {0} /\ DOMAIN stack = 1..Len(stack)
  BY <1>1, EmptySeq
<1>3. Top \in Frame
  BY <1>1, <1>2 DEF Top
<1>4. Top.send \in SUBSET Sigs
  BY <1>1, <1>3, FrameTypes
<1>5. /\ Below \in Seq(Frame) /\ Len(Below) = Len(stack) - 1 /\ Prefix(Below, stack)
      /\ Parents(Below) /\ Apart(Below)
      /\ Sent(stack, Len(stack)) = Sent(Below, Len(Below)) \cup Top.send
  BY <1>1, ReturnKeeps DEF Accounts, Below, Top
<1>6. /\ Accounted(stack, Len(stack), sigpending, sigmask, sig_handler, owed)
      /\ DeliveredOnce
  BY <1>1 DEF Accounts
<1>7. CASE Top.send = {}
  <2>1. stack' = Below /\ UNCHANGED <<sigpending, sigmask, sig_handler, owed>>
    BY <1>7 DEF ChecksigsLoop, signals
  <2>2. Accounted(Below, Len(Below), sigpending, sigmask, sig_handler, owed)
    BY <1>5, <1>6, <1>7 DEF Accounted
  <2>3. Accounted(stack', Len(stack'), sigpending', sigmask', sig_handler', owed')
    BY <2>1, <2>2
  <2>4. Parents(stack') /\ Apart(stack') /\ DeliveredOnce'
    BY <1>5, <1>6, <2>1 DEF DeliveredOnce
  <2> QED BY <1>1, <1>5, <2>1, <2>3, <2>4 DEF Accounts
<1>8. CASE Top.send # {}
  <2> DEFINE sig == NextSig(Top.send)
  <2> DEFINE rest == Top.send \ {sig}
  <2> DEFINE calls == Append(Below, Checksigs(rest))
  <2>1. Kill(sig, calls, 0)
    BY <1>8 DEF ChecksigsLoop
  <2>2. sig \in Top.send /\ sig \in Sigs /\ rest \in SUBSET Sigs /\ rest \subseteq Top.send
    BY <1>4, <1>8, NextSigSent
  <2> HIDE DEF sig
  <2>3. /\ sig \notin Sent(Below, Len(Below))
        /\ \A i \in DOMAIN Below : Below[i].kind = "checksigs" => Below[i].send \cap rest = {}
    <3>1. ASSUME NEW x \in Top.send
          PROVE  /\ x \notin Sent(Below, Len(Below))
                 /\ \A i \in 1..Len(Below) : Below[i].kind = "checksigs" => x \notin Below[i].send
      <4>1. x \in stack[Len(stack)].send /\ stack[Len(stack)].kind = "checksigs" /\ Apart(stack)
        BY <1>1, <3>1 DEF Top, Accounts
      <4>2. \A i \in 1..(Len(stack) - 1) : stack[i].kind = "checksigs" => x \notin stack[i].send
        BY <1>1, <4>1, SentOnce
      <4>3. \A i \in 1..Len(Below) : Below[i].kind = "checksigs" => x \notin Below[i].send
        BY <1>5, <4>2 DEF Prefix
      <4> QED BY <4>3 DEF Sent
    <3>2. DOMAIN Below = 1..Len(Below)
      BY <1>5
    <3> QED BY <2>2, <3>1, <3>2
  <2>4. /\ calls \in Seq(Frame) /\ Sent(calls, Len(calls)) = Sent(Below, Len(Below)) \cup rest
        /\ Parents(calls) /\ Apart(calls)
    BY <1>5, <2>2, <2>3, ChecksigsKeeps
  <2>5. /\ \A x \in sigpending \cup Sent(calls, Len(calls)) : owed[x] >= 1
        /\ \A x \in sigpending \ sigmask : x \in Sent(calls, Len(calls)) \/ x = sig
        /\ \A x \in Sigs : owed[x] \in 0..1
        /\ \A x \in Sigs : owed[x] > 0 => x \in sigpending \cup Sent(calls, Len(calls)) \/ x = sig
        /\ \A x \in sigpending : x # SIGKILL /\ sig_handler[x] # "SIG_IGN"
        /\ owed[sig] >= 1 /\ sig \notin Sent(calls, Len(calls))
    BY <1>5, <1>6, <2>2, <2>3, <2>4 DEF Accounted
  <2> HIDE DEF calls
  <2>6. 0 \in {0, 1}
    OBVIOUS
  <2> QED BY <2>1, <2>2, <2>4, <2>5, <2>6, KillAccounted
<1> QED BY <1>7, <1>8

\* A signal the program raises, in any of its functions.
LEMMA RaiseAccounts ==
  ASSUME TypeOK, Accounts, NEW sig \in Sigs, Raise(sig)
  PROVE  Accounts'
<1>1. stack \in Seq(Frame) /\ stack # << >> /\ Kill(sig, stack, 1) /\ 1 \in {0, 1}
  BY DEF TypeOK, Raise, Room, Program
<1>2. /\ \A x \in sigpending \cup Sent(stack, Len(stack)) : owed[x] >= 1
      /\ \A x \in Sigs : owed[x] \in 0..1
      /\ \A x \in Sigs : owed[x] > 0 => x \in sigpending \cup Sent(stack, Len(stack))
      /\ \A x \in sigpending \ sigmask : x \in Sent(stack, Len(stack))
      /\ \A x \in sigpending : x # SIGKILL /\ sig_handler[x] # "SIG_IGN"
      /\ Parents(stack) /\ Apart(stack)
  BY <1>1 DEF Accounts, Accounted, TypeOK
<1> QED BY <1>1, <1>2, KillAccounted

\* SIGCHLD in the parent.
LEMMA RaiseChildAccounts ==
  ASSUME TypeOK, Accounts, RaiseChild
  PROVE  Accounts'
<1>1. /\ stack \in Seq(Frame) /\ stack # << >> /\ Top.kind = "raise"
      /\ Kill(SIGCHLD, Below, 1) /\ 1 \in {0, 1} /\ SIGCHLD \in Sigs
  BY SignalAssumption DEF TypeOK, RaiseChild
<1>2. /\ Below \in Seq(Frame) /\ Parents(Below) /\ Apart(Below)
      /\ Sent(stack, Len(stack)) = Sent(Below, Len(Below))
  BY <1>1, ReturnKeeps DEF Accounts, Below, Top
<1>3. /\ \A x \in sigpending \cup Sent(Below, Len(Below)) : owed[x] >= 1
      /\ \A x \in Sigs : owed[x] \in 0..1
      /\ \A x \in Sigs : owed[x] > 0 => x \in sigpending \cup Sent(Below, Len(Below))
      /\ \A x \in sigpending \ sigmask : x \in Sent(Below, Len(Below))
      /\ \A x \in sigpending : x # SIGKILL /\ sig_handler[x] # "SIG_IGN"
  BY <1>1, <1>2 DEF Accounts, Accounted, TypeOK
<1> QED BY <1>1, <1>2, <1>3, KillAccounted

-----------------------------------------------------------------------------
(* tfork, and the end of the child.                                        *)

\* "calls" are those of a parent that waits for its child, up to its tfork.
Waiting(calls) ==
  Prefix(calls, stack) /\ calls # << >> /\ calls[Len(calls)].kind = "tfork"

LEMMA ThreadReturnsFrom ==
  ASSUME TypeOK, Started(stack), ThreadReturns
  PROVE  Waiting(Below) /\ ThreadEnds(Below)
<1>1. stack \in Seq(Frame) /\ stack # << >> /\ stack[Len(stack)].kind = "thread" /\ ThreadEnds(Below)
  BY DEF TypeOK, ThreadReturns, Top
<1>2. Len(stack) \in Nat \ {0} /\ DOMAIN stack = 1..Len(stack)
  BY <1>1, EmptySeq
<1>3. Len(stack) > 1 /\ stack[Len(stack) - 1].kind = "tfork"
  BY <1>1, <1>2 DEF Started
<1>4. Below \in Seq(Frame) /\ Len(Below) = Len(stack) - 1 /\ Prefix(Below, stack)
  BY <1>1, ReturnKeeps DEF Below
<1>5. Len(Below) \in 1..Len(Below) /\ Below # << >>
  BY <1>2, <1>3, <1>4
<1>6. Below[Len(Below)] = stack[Len(stack) - 1]
  BY <1>4, <1>5 DEF Prefix
<1> QED BY <1>1, <1>3, <1>4, <1>5, <1>6 DEF Waiting

LEMMA TerminateFrom ==
  ASSUME TypeOK, Terminate
  PROVE  \/ stack' = << >> /\ UNCHANGED signals
         \/ \E calls : Waiting(calls) /\ ThreadEnds(calls)
<1>1. CASE Frames("tfork") = {}
  BY <1>1 DEF Terminate
<1>2. CASE Frames("tfork") # {}
  <2> DEFINE threads == Frames("tfork")
  <2> DEFINE last == CHOOSE i \in threads : \A j \in threads : j <= i
  <2> DEFINE calls == SubSeq(stack, 1, last)
  <2>1. stack \in Seq(Frame) /\ Len(stack) \in Nat /\ DOMAIN stack = 1..Len(stack)
    BY DEF TypeOK
  <2>2. threads \subseteq 1..Len(stack) /\ threads # {}
    BY <1>2, <2>1 DEF Frames
  <2>3. \E i \in threads : \A j \in threads : j <= i
    <3> HIDE DEF threads
    <3> DEFINE bounds == {n \in Nat : \A j \in threads : j <= n}
    <3>1. Len(stack) \in bounds /\ bounds \in SUBSET Nat
      BY <2>1, <2>2
    <3>2. PICK n \in bounds : \A m \in bounds : n <= m
      BY <3>1, LeastNatural
    <3>3. n \in threads
      <4>1. n # 0
        <5>1. PICK j \in threads : j \in 1..Len(stack)
          BY <2>2
        <5>2. j <= n
          BY <3>2
        <5> QED BY <2>1, <5>1, <5>2
      <4>2. n - 1 \in Nat /\ n - 1 \notin bounds
        BY <3>2, <4>1
      <4>3. PICK j \in threads : ~(j <= n - 1)
        BY <4>2
      <4>4. j <= n /\ j \in Int
        BY <2>2, <3>2
      <4>5. j = n
        BY <4>2, <4>3, <4>4
      <4> QED BY <4>5
    <3> QED BY <3>2, <3>3
  <2>4. last \in threads
    BY <2>3
  <2>5. last \in 1..Len(stack) /\ stack[last].kind = "tfork"
    BY <2>4 DEF Frames
  <2>6. ThreadEnds(calls)
    BY <1>2 DEF Terminate
  <2> HIDE DEF last
  <2>7. \A i \in 1..last : stack[i] \in Frame
    BY <2>1, <2>5
  <2>8. /\ calls \in Seq(Frame)
        /\ Len(calls) = IF 1 <= last THEN last - 1 + 1 ELSE 0
        /\ \A i \in 1..(last - 1 + 1) : calls[i] = stack[1 + i - 1]
    BY <2>5, <2>7, SubSeqProperties
  <2> HIDE DEF calls
  <2>9. Len(calls) = last
    BY <2>5, <2>8
  <2>10. \A i \in 1..last : calls[i] = stack[i]
    BY <2>5, <2>8
  <2>11. last \in 1..last
    BY <2>5
  <2>12. Waiting(calls)
    BY <2>1, <2>5, <2>8, <2>9, <2>10, <2>11 DEF Waiting, Prefix
  <2> QED BY <2>6, <2>12
<1> QED BY <1>1, <1>2

\* The parent has its signals back as they were, with the accounts it had.
LEMMA ThreadEndsKeeps ==
  ASSUME TypeOK, NEW calls, Waiting(calls), ThreadEnds(calls)
  PROVE  /\ sigpending' \in SUBSET Sigs /\ sigmask' \in SUBSET Sigs
         /\ sig_handler' \in [Sigs -> Funcs] /\ owed' \in [Sigs -> Int] /\ stack' \in Seq(Frame)
         /\ \E t : /\ Prefix(t, stack) /\ Len(t) = Len(calls) - 1
                 /\ stack' = Append(t, Function("raise"))
         /\ Started(stack) => Started(stack')
         /\ Accounts => Accounts'
<1> DEFINE saved == calls[Len(calls)]
<1> DEFINE t == SubSeq(calls, 1, Len(calls) - 1)
<1>1. calls \in Seq(Frame) /\ calls # << >> /\ saved.kind = "tfork" /\ Prefix(calls, stack)
  BY DEF Waiting, Prefix
<1>2. Len(calls) \in Nat \ {0} /\ Len(stack) \in Nat /\ Len(calls) <= Len(stack)
      /\ DOMAIN stack = 1..Len(stack) /\ \A i \in 1..Len(calls) : calls[i] = stack[i]
  BY <1>1, EmptySeq DEF Prefix
<1>3. Len(calls) \in DOMAIN stack /\ stack[Len(calls)] = saved
  BY <1>2
<1>4. saved \in Frame
  BY <1>1, <1>2
<1>5. /\ sigpending' = saved.pending /\ sig_handler' = saved.handler /\ owed' = saved.owed
      /\ sigmask' = saved.mask /\ stack' = Append(t, Function("raise"))
  BY DEF ThreadEnds
<1>6. /\ sigpending' \in SUBSET Sigs /\ sigmask' \in SUBSET Sigs
      /\ sig_handler' \in [Sigs -> Funcs] /\ owed' \in [Sigs -> Int]
  BY <1>1, <1>4, <1>5, FrameTypes
<1>7. /\ t \in Seq(Frame) /\ Len(t) = Len(calls) - 1 /\ Prefix(t, calls)
      /\ Parents(calls) => Parents(t)
      /\ Apart(calls) => Apart(t)
      /\ Started(calls) => Started(t)
  BY <1>1, ReturnKeeps
<1> HIDE DEF t
<1>8. Prefix(t, stack)
  BY <1>1, <1>2, <1>7 DEF Prefix
<1>9. Function("raise") \in Frame /\ Function("raise").kind = "raise"
  BY FrameKinds
<1>10. /\ stack' \in Seq(Frame) /\ Len(stack') = Len(t) + 1
       /\ Sent(stack', Len(t) + 1) = Sent(t, Len(t))
       /\ Parents(t) => Parents(stack')
       /\ Apart(t) => Apart(stack')
       /\ Started(t) => Started(stack')
  BY <1>5, <1>7, <1>9, CallKeeps
<1>11. Started(stack) => Started(stack')
  BY <1>1, <1>7, <1>10, PrefixKeeps
<1>12. ASSUME Accounts PROVE Accounts'
  <2>1. Parents(stack') /\ Apart(stack')
    BY <1>1, <1>7, <1>10, <1>12, PrefixKeeps DEF Accounts
  <2>2. Accounted(stack, Len(calls) - 1, saved.pending, saved.mask, saved.handler, saved.owed)
    BY <1>1, <1>3, <1>12 DEF Accounts, Parents
  <2>3. \A i \in 1..Len(t) : stack[i] = t[i]
    BY <1>8 DEF Prefix
  <2>4. Accounted(t, Len(t), saved.pending, saved.mask, saved.handler, saved.owed)
    BY <1>2, <1>7, <2>2, <2>3, AccountedSame
  <2>5. Accounted(stack', Len(stack'), sigpending', sigmask', sig_handler', owed')
    BY <1>5, <1>10, <2>4 DEF Accounted
  <2>6. DeliveredOnce'
    BY <2>5 DEF Accounted, DeliveredOnce
  <2> QED BY <2>1, <2>5, <2>6 DEF Accounts
<1> QED BY <1>5, <1>6, <1>7, <1>8, <1>10, <1>11, <1>12

\* The child starts on top of its parent's calls.
LEMMA TforkKeeps ==
  ASSUME TypeOK, Tfork
  PROVE  /\ stack' \in Seq(Frame) /\ Len(stack') = Len(stack) + 2
         /\ stack'[Len(stack) + 1] = Saved /\ stack'[Len(stack) + 2] = Function("thread")
         /\ Prefix(stack, stack')
         /\ Started(stack) => Started(stack')
         /\ Accounts => Accounts'
<1> DEFINE f == Saved
<1> DEFINE g == Function("thread")
<1> DEFINE n == Len(stack)
<1>1. /\ f \in Frame /\ f.kind = "tfork" /\ f.pending = sigpending /\ f.mask = sigmask
      /\ f.handler = sig_handler /\ f.owed = owed
  BY DEF TypeOK, Saved, Frame
<1>2. g \in Frame /\ g.kind = "thread"
  BY FrameKinds DEF Kinds
<1>3. /\ stack \in Seq(Frame) /\ stack' = stack \o <<f, g>> /\ stack # << >>
      /\ sigpending' = {} /\ owed' = [sig \in Sigs |-> 0]
  BY DEF TypeOK, Tfork, Room, Program
<1> HIDE DEF f, g
<1>4. /\ stack' \in Seq(Frame) /\ Len(stack') = n + 2 /\ n \in Nat \ {0}
      /\ \A i \in 1..n : stack'[i] = stack[i]
      /\ stack'[n + 1] = f /\ stack'[n + 2] = g
      /\ DOMAIN stack' = 1..(n + 2) /\ DOMAIN stack = 1..n
  BY <1>1, <1>2, <1>3, EmptySeq
<1> HIDE DEF n
<1>5. Prefix(stack, stack')
  <2>1. Len(stack) = n
    BY DEF n
  <2> QED BY <1>3, <1>4, <2>1 DEF Prefix
<1>6. ASSUME Started(stack), NEW j \in DOMAIN stack', stack'[j].kind = "thread"
      PROVE  j > 1 /\ stack'[j - 1].kind = "tfork"
  <2>1. CASE j \in 1..n
    <3>1. j > 1 /\ stack[j - 1].kind = "tfork"
      BY <1>4, <1>6, <2>1 DEF Started
    <3> QED BY <1>4, <2>1, <3>1
  <2>2. CASE j = n + 2
    <3>1. j - 1 = n + 1 /\ j > 1
      BY <1>4, <2>2
    <3> QED BY <1>1, <1>4, <3>1
  <2>3. j # n + 1
    BY <1>1, <1>4, <1>6
  <2> QED BY <1>4, <2>1, <2>2, <2>3
<1>7. ASSUME Accounts PROVE Accounts'
  <2>1. Accounted(stack, n, sigpending, sigmask, sig_handler, owed) /\ Parents(stack) /\ Apart(stack)
    BY <1>3, <1>7 DEF Accounts, n
  <2>2. Sent(stack', n + 2) = {}
    <3>1. n + 1 \in Nat \ {0} /\ n + 2 \in Nat \ {0} /\ (n + 2) - 1 = n + 1
      BY <1>4
    <3>2. Sent(stack', n + 1) = {}
      BY <1>1, <1>4, <3>1, SentChild
    <3>3. stack'[n + 2].kind \notin {"tfork", "checksigs"}
      BY <1>2, <1>4
    <3>4. Sent(stack', n + 2) = Sent(stack', (n + 2) - 1) \cup {}
      BY <3>1, <3>3, SentCall
    <3> QED BY <3>1, <3>2, <3>4
  <2>3. \A sig \in Sigs : owed'[sig] = 0
    BY <1>3
  <2>4. Accounted(stack', Len(stack'), sigpending', sigmask', sig_handler', owed')
    <3>1. Sent(stack', Len(stack')) = {}
      BY <1>4, <2>2
    <3>2. \A sig \in Sigs : owed'[sig] \in 0..1 /\ ~(owed'[sig] > 0)
      BY <2>3
    <3> QED BY <1>3, <3>1, <3>2 DEF Accounted
  <2>5. ASSUME NEW j \in DOMAIN stack', stack'[j].kind = "tfork"
        PROVE  Accounted(stack', j - 1, stack'[j].pending, stack'[j].mask, stack'[j].handler,
                         stack'[j].owed)
    <3>1. CASE j \in 1..n
      <4>1. Accounted(stack, j - 1, stack'[j].pending, stack'[j].mask, stack'[j].handler,
                      stack'[j].owed)
        BY <1>4, <2>1, <2>5, <3>1 DEF Parents
      <4>2. j - 1 \in Int /\ \A i \in 1..(j - 1) : stack[i] = stack'[i]
        BY <1>4, <3>1
      <4> QED BY <4>1, <4>2, AccountedSame
    <3>2. CASE j = n + 1
      <4>1. Accounted(stack', n, sigpending, sigmask, sig_handler, owed)
        <5>1. n \in Int /\ \A i \in 1..n : stack[i] = stack'[i]
          BY <1>4
        <5> QED BY <2>1, <5>1, AccountedSame
      <4>2. j - 1 = n /\ stack'[j] = f
        BY <1>4, <3>2
      <4> QED BY <1>1, <4>1, <4>2
    <3>3. j # n + 2
      BY <1>2, <1>4, <2>5
    <3> QED BY <1>4, <3>1, <3>2, <3>3
  <2>6. Apart(stack')
    <3>1. \A i \in DOMAIN stack' : stack'[i].kind = "checksigs" =>
            i \in DOMAIN stack /\ stack'[i] = stack[i]
      <4> SUFFICES ASSUME NEW i \in DOMAIN stack', stack'[i].kind = "checksigs"
                   PROVE  i \in DOMAIN stack /\ stack'[i] = stack[i]
        OBVIOUS
      <4>1. i # n + 1 /\ i # n + 2
        BY <1>1, <1>2, <1>4
      <4> QED BY <1>4, <4>1
    <3> QED BY <2>1, <3>1 DEF Apart
  <2>7. DeliveredOnce'
    BY <2>3 DEF DeliveredOnce
  <2> QED BY <2>4, <2>5, <2>6, <2>7 DEF Accounts, Parents
<1>8. f = Saved /\ g = Function("thread") /\ n = Len(stack)
  BY DEF f, g, n
<1> QED BY <1>4, <1>5, <1>6, <1>7, <1>8 DEF Started

\* siglongjmp leaves the call of main.
LEMMA JumpKeeps ==
  ASSUME TypeOK, NEW e, Siglongjmp(e)
  PROVE  /\ stack' \in Seq(Frame) /\ Len(stack') = 1 /\ stack' # << >> /\ Prefix(stack', stack)
         /\ Started(stack) => Started(stack')
<1>1. stack \in Seq(Frame) /\ stack # << >> /\ stack' = SubSeq(stack, 1, 1)
  BY DEF TypeOK, Siglongjmp, Program
<1>2. Len(stack) \in Nat \ {0}
  BY <1>1, EmptySeq
<1>3. \A i \in 1..1 : stack[i] \in Frame
  BY <1>1, <1>2
<1>4. /\ stack' \in Seq(Frame) /\ Len(stack') = IF 1 <= 1 THEN 1 - 1 + 1 ELSE 0
      /\ \A i \in 1..(1 - 1 + 1) : stack'[i] = stack[1 + i - 1]
  BY <1>1, <1>3, SubSeqProperties
<1>5. Len(stack') = 1 /\ stack'[1] = stack[1]
  BY <1>4
<1>6. Prefix(stack', stack)
  BY <1>1, <1>2, <1>4, <1>5 DEF Prefix
<1>7. stack' # << >>
  BY <1>5, EmptySeq
<1> QED BY <1>4, <1>5, <1>6, <1>7, PrefixKeeps

-----------------------------------------------------------------------------
(* The types, with the threads that tfork started.                         *)

LEMMA TypesKept ==
  ASSUME TypeOK, Started(stack), [Next]_vars
  PROVE  TypeOK' /\ Started(stack)'
<1>0. /\ stack \in Seq(Frame) /\ sigpending \in SUBSET Sigs /\ sigmask \in SUBSET Sigs
      /\ num_at_exit \in Nat /\ raises \in Nat /\ wills \in Seq(Nat) /\ ran \in Seq(Nat)
      /\ env \in SUBSET [savesigs : BOOLEAN, mask : SUBSET Sigs]
  BY DEF TypeOK
<1>1. ASSUME NEW sig \in Sigs, Raise(sig) PROVE TypeOK' /\ Started(stack)'
  <2>1. Kill(sig, stack, 1) /\ raises' \in Nat /\ 1 \in {0, 1}
    BY <1>0, <1>1 DEF Raise
  <2> QED BY <1>0, <2>1, KillTypes, KillCalls
<1>2. ASSUME NEW sig \in Sigs, NEW func \in Funcs, Signal(sig, func)
      PROVE  TypeOK' /\ Started(stack)'
  BY <1>2 DEF TypeOK, Signal, exits, counters
<1>3. ASSUME NEW mask \in SUBSET Sigs, Sigsetmask(mask) PROVE TypeOK' /\ Started(stack)'
  <2>1. /\ sigmask' = mask /\ UNCHANGED <<sigpending, sig_handler, owed, exits, counters>>
        /\ stack' = stack \/ stack' = Append(stack, Checksigs(sigpending \ mask))
    BY <1>3 DEF Sigsetmask, Call
  <2>2. sigpending \ mask \in SUBSET Sigs
    BY <1>0
  <2>3. stack' \in Seq(Frame) /\ Started(stack')
    BY <1>0, <2>1, <2>2, ChecksigsKeeps
  <2> QED BY <2>1, <2>3 DEF TypeOK, exits, counters
<1>4. ASSUME NEW mask \in SUBSET Sigs, Sigblock(mask) PROVE TypeOK' /\ Started(stack)'
  BY <1>4 DEF TypeOK, Sigblock, exits, counters
<1>5. ASSUME NEW e \in env, Siglongjmp(e) PROVE TypeOK' /\ Started(stack)'
  <2>1. stack' \in Seq(Frame) /\ Started(stack')
    BY <1>5, JumpKeeps
  <2>2. Restored(e) \in SUBSET Sigs
    BY <1>0 DEF Restored
  <2>3. owed' \in [Sigs -> Int]
    BY <1>5 DEF TypeOK, Siglongjmp
  <2> QED BY <1>5, <2>1, <2>2, <2>3 DEF TypeOK, Siglongjmp, exits, counters
<1>6. ASSUME NEW savesigs \in BOOLEAN, Sigsetjmp(savesigs) PROVE TypeOK' /\ Started(stack)'
  <2>1. env' \in SUBSET [savesigs : BOOLEAN, mask : SUBSET Sigs]
    <3>1. env' = {[savesigs |-> savesigs, mask |-> IF savesigs THEN sigmask ELSE {}]}
      BY <1>6 DEF Sigsetjmp
    <3>2. (IF savesigs THEN sigmask ELSE {}) \in SUBSET Sigs
      BY <1>0
    <3> QED BY <3>1, <3>2
  <2> QED BY <1>6, <2>1 DEF TypeOK, Sigsetjmp, signals, exits
<1>7. CASE Return
  <2>1. Below \in Seq(Frame) /\ Started(Below)
    BY <1>0, <1>7, ReturnKeeps DEF Return, Below
  <2> QED BY <1>7, <2>1 DEF TypeOK, Return, signals, exits, counters
<1>8. CASE ChecksigsLoop
  <2>1. stack # << >> /\ Top.kind = "checksigs" /\ Len(stack) \in Nat \ {0}
    BY <1>0, <1>8, EmptySeq DEF ChecksigsLoop
  <2>2. Top \in Frame
    BY <1>0, <2>1 DEF Top
  <2>3. Top.send \in SUBSET Sigs
    BY <2>1, <2>2, FrameTypes
  <2>4. Below \in Seq(Frame) /\ Started(Below)
    BY <1>0, <2>1, ReturnKeeps DEF Below
  <2>5. CASE Top.send = {}
    BY <1>8, <2>4, <2>5 DEF TypeOK, ChecksigsLoop, signals, exits, counters
  <2>6. CASE Top.send # {}
    <3> DEFINE sig == NextSig(Top.send)
    <3> DEFINE calls == Append(Below, Checksigs(Top.send \ {sig}))
    <3>1. Kill(sig, calls, 0) /\ raises' \in Nat /\ 0 \in {0, 1}
      BY <1>0, <1>8, <2>6 DEF ChecksigsLoop
    <3>2. sig \in Sigs /\ Top.send \ {sig} \in SUBSET Sigs
      BY <2>3, <2>6, NextSigSent
    <3> HIDE DEF sig
    <3>3. calls \in Seq(Frame) /\ Started(calls)
      BY <2>4, <3>2, ChecksigsKeeps
    <3> HIDE DEF calls
    <3> QED BY <3>1, <3>2, <3>3, KillTypes, KillCalls
  <2> QED BY <2>5, <2>6
<1>9. CASE RaiseChild
  <2>1. stack # << >> /\ Kill(SIGCHLD, Below, 1) /\ raises' \in Nat /\ 1 \in {0, 1}
    BY <1>0, <1>9 DEF RaiseChild
  <2>2. SIGCHLD \in Sigs
    BY SignalAssumption
  <2>3. Below \in Seq(Frame) /\ Started(Below)
    BY <1>0, <2>1, ReturnKeeps DEF Below
  <2> QED BY <2>1, <2>2, <2>3, KillTypes, KillCalls
<1>10. CASE Tfork
  <2>1. stack' \in Seq(Frame) /\ Started(stack')
    BY <1>10, TforkKeeps
  <2>2. raises' \in Nat /\ owed' \in [Sigs -> Int]
    BY <1>0, <1>10 DEF Tfork
  <2> QED BY <1>10, <2>1, <2>2 DEF TypeOK, Tfork, exits
<1>11. CASE ThreadReturns
  <2>1. Waiting(Below) /\ ThreadEnds(Below)
    BY <1>11, ThreadReturnsFrom
  <2>2. /\ sigpending' \in SUBSET Sigs /\ sigmask' \in SUBSET Sigs
        /\ sig_handler' \in [Sigs -> Funcs] /\ owed' \in [Sigs -> Int] /\ stack' \in Seq(Frame)
        /\ Started(stack')
    BY <2>1, ThreadEndsKeeps
  <2> QED BY <1>11, <2>2 DEF TypeOK, ThreadReturns, exits, counters
<1>12. CASE Atexit
  BY <1>0, <1>12 DEF TypeOK, Atexit, signals, counters
<1>13. CASE CallExit
  <2>1. Exit(num_at_exit) \in Frame /\ Exit(num_at_exit).kind = "exit"
    BY <1>0, FrameKinds
  <2>2. stack' = Append(stack, Exit(num_at_exit)) /\ wills' = Append(wills, num_at_exit)
    BY <1>13 DEF CallExit, Call
  <2>3. stack' \in Seq(Frame) /\ Started(stack') /\ wills' \in Seq(Nat)
    <3> DEFINE f == Exit(num_at_exit)
    <3>1. f \in Frame /\ f.kind = "exit" /\ stack' = Append(stack, f)
      BY <2>1, <2>2
    <3> HIDE DEF f
    <3>2. stack' \in Seq(Frame) /\ Started(stack')
      BY <1>0, <3>1, CallKeeps
    <3>3. wills' \in Seq(Nat)
      BY <1>0, <2>2
    <3> QED BY <3>2, <3>3
  <2> QED BY <1>13, <2>3 DEF TypeOK, CallExit, signals, counters
<1>14. CASE ExitLoop
  <2>1. /\ stack # << >> /\ Top.kind = "exit" /\ Len(stack) \in Nat \ {0}
        /\ UNCHANGED <<num_at_exit, wills, counters>>
    BY <1>0, <1>14, EmptySeq DEF ExitLoop
  <2>2. Top \in Frame
    BY <1>0, <2>1 DEF Top
  <2>3. Top.i \in Nat
    BY <2>1, <2>2, FrameTypes
  <2>4. CASE Top.i = 0
    <3>1. Terminate /\ UNCHANGED ran
      BY <1>14, <2>4 DEF ExitLoop, NoFunction
    <3>2. CASE stack' = << >> /\ UNCHANGED signals
      BY <2>1, <3>1, <3>2 DEF TypeOK, Started, signals, counters
    <3>3. CASE \E calls : Waiting(calls) /\ ThreadEnds(calls)
      <4>1. PICK calls : Waiting(calls) /\ ThreadEnds(calls)
        BY <3>3
      <4>2. /\ sigpending' \in SUBSET Sigs /\ sigmask' \in SUBSET Sigs
            /\ sig_handler' \in [Sigs -> Funcs] /\ owed' \in [Sigs -> Int] /\ stack' \in Seq(Frame)
            /\ Started(stack')
        BY <4>1, ThreadEndsKeeps
      <4> QED BY <2>1, <3>1, <4>2 DEF TypeOK, counters
    <3> QED BY <3>1, <3>2, <3>3, TerminateFrom
  <2>5. CASE Top.i # 0
    <3>1. /\ stack' = Below \o <<Exit(Top.i - 1), Function("at_exit")>>
          /\ ran' = Append(ran, Top.i) /\ UNCHANGED signals
      BY <1>14, <2>5 DEF ExitLoop, NoFunction
    <3>2. Below \in Seq(Frame) /\ Started(Below)
      BY <1>0, <2>1, ReturnKeeps DEF Below
    <3>3. stack' \in Seq(Frame) /\ Started(stack')
      BY <2>3, <2>5, <3>1, <3>2, LoopCalls
    <3> QED BY <1>0, <2>1, <2>3, <3>1, <3>3 DEF TypeOK, signals, counters
  <2> QED BY <2>4, <2>5
<1>15. CASE Ended \/ UNCHANGED vars
  BY <1>15 DEF TypeOK, Ended, vars
<1> QED BY <1>1, <1>2, <1>3, <1>4, <1>5, <1>6, <1>7, <1>8, <1>9, <1>10, <1>11, <1>12, <1>13, <1>14,
           <1>15 DEF Next

-----------------------------------------------------------------------------
(* The accounts, step by step.                                             *)

\* A step that changes only the calls, and not what the thread is to send.
LEMMA CallsAccounted ==
  ASSUME Accounts, stack # << >>, UNCHANGED signals,
         Parents(stack'), Apart(stack'),
         stack' # << >> => Sent(stack', Len(stack')) = Sent(stack, Len(stack))
  PROVE  Accounts'
<1>1. UNCHANGED <<sigpending, sigmask, sig_handler, owed>>
  BY DEF signals
<1>2. Accounted(stack, Len(stack), sigpending, sigmask, sig_handler, owed) /\ DeliveredOnce
  BY DEF Accounts
<1>3. stack' # << >> => Accounted(stack', Len(stack'), sigpending', sigmask', sig_handler', owed')
  BY <1>1, <1>2 DEF Accounted
<1> QED BY <1>1, <1>2, <1>3 DEF Accounts, DeliveredOnce

LEMMA SetmaskAccounts ==
  ASSUME Careless = {}, TypeOK, Accounts, NEW mask \in SUBSET Sigs, Sigsetmask(mask)
  PROVE  Accounts'
<1> DEFINE send == sigpending \ mask
<1>1. /\ stack \in Seq(Frame) /\ stack # << >> /\ send \in SUBSET Sigs
      /\ UNCHANGED <<sigpending, sig_handler, owed>> /\ sigmask' = mask
      /\ \A i \in Frames("checksigs") : stack[i].send \cap send = {}
      /\ stack' = IF sigpending \subseteq mask THEN stack ELSE Append(stack, Checksigs(send))
  BY DEF TypeOK, Sigsetmask, Room, Program, Call
<1>2. /\ Accounted(stack, Len(stack), sigpending, sigmask, sig_handler, owed)
      /\ Parents(stack) /\ Apart(stack) /\ DeliveredOnce
  BY <1>1 DEF Accounts
<1>3. /\ Parents(stack') /\ Apart(stack')
      /\ Sent(stack', Len(stack')) = Sent(stack, Len(stack)) \cup send
  <2>1. CASE sigpending \subseteq mask
    BY <1>1, <1>2, <2>1
  <2>2. CASE ~(sigpending \subseteq mask)
    <3>1. \A i \in DOMAIN stack : stack[i].kind = "checksigs" => stack[i].send \cap send = {}
      BY <1>1 DEF Frames
    <3> HIDE DEF send
    <3> QED BY <1>1, <1>2, <2>2, <3>1, ChecksigsKeeps
  <2> QED BY <2>1, <2>2
<1>4. Accounted(stack', Len(stack'), sigpending', sigmask', sig_handler', owed')
  BY <1>1, <1>2, <1>3 DEF Accounted
<1> QED BY <1>1, <1>2, <1>3, <1>4 DEF Accounts, DeliveredOnce

LEMMA JumpAccounts ==
  ASSUME Careless = {}, TypeOK, Accounts, stack[1].kind = "main", NEW e, Siglongjmp(e)
  PROVE  Accounts'
<1>1. /\ stack # << >> /\ UNCHANGED <<sigpending, sig_handler>> /\ sigmask' = Restored(e)
      /\ sigpending \subseteq Restored(e) /\ sigpending \in SUBSET Sigs
      /\ owed' = [sig \in Sigs |-> IF sig \in sigpending THEN owed[sig] ELSE 0]
  BY DEF Siglongjmp, Program, TypeOK
<1>2. /\ Accounted(stack, Len(stack), sigpending, sigmask, sig_handler, owed)
      /\ Parents(stack) /\ Apart(stack) /\ DeliveredOnce
  BY <1>1 DEF Accounts
<1>3. /\ Len(stack') = 1 /\ Prefix(stack', stack) /\ Parents(stack') /\ Apart(stack')
  BY <1>2, JumpKeeps, PrefixKeeps
<1>4. Sent(stack', Len(stack')) = {}
  <2> SUFFICES ASSUME NEW sig \in Sent(stack', Len(stack')) PROVE FALSE
    OBVIOUS
  <2>1. stack'[1].kind = "checksigs"
    BY <1>3 DEF Sent
  <2>2. stack'[1] = stack[1]
    BY <1>3 DEF Prefix
  <2> QED BY <2>1, <2>2
<1>5. \A sig \in Sigs : owed'[sig] \in 0..1 /\ (owed'[sig] > 0 => sig \in sigpending)
  BY <1>1, <1>2 DEF Accounted
<1>6. \A sig \in sigpending : owed'[sig] >= 1
  BY <1>1, <1>2 DEF Accounted
<1>7. Accounted(stack', Len(stack'), sigpending', sigmask', sig_handler', owed')
  BY <1>1, <1>2, <1>4, <1>5, <1>6 DEF Accounted
<1>8. DeliveredOnce'
  BY <1>5 DEF DeliveredOnce
<1> QED BY <1>3, <1>7, <1>8 DEF Accounts

LEMMA ExitLoopAccounts ==
  ASSUME TypeOK, Accounts, ExitLoop
  PROVE  Accounts'
<1>1. /\ stack \in Seq(Frame) /\ stack # << >> /\ Top.kind = "exit"
  BY DEF TypeOK, ExitLoop
<1>2. Top \in Frame /\ Len(stack) \in Nat \ {0}
  BY <1>1, EmptySeq DEF Top
<1>3. Top.i \in Nat
  BY <1>1, <1>2, FrameTypes
<1>4. /\ Below \in Seq(Frame) /\ Parents(Below) /\ Apart(Below)
      /\ Sent(stack, Len(stack)) = Sent(Below, Len(Below))
  BY <1>1, ReturnKeeps DEF Accounts, Below, Top
<1>5. CASE Top.i = 0
  <2>1. Terminate
    BY <1>5 DEF ExitLoop, NoFunction
  <2>2. CASE stack' = << >> /\ UNCHANGED signals
    BY <1>1, <2>2, CallsAccounted DEF Parents, Apart
  <2>3. CASE \E calls : Waiting(calls) /\ ThreadEnds(calls)
    BY <2>3, ThreadEndsKeeps
  <2> QED BY <2>1, <2>2, <2>3, TerminateFrom
<1>6. CASE Top.i # 0
  <2>1. stack' = Below \o <<Exit(Top.i - 1), Function("at_exit")>> /\ UNCHANGED signals
    BY <1>6 DEF ExitLoop, NoFunction
  <2>2. /\ Sent(stack', Len(stack')) = Sent(Below, Len(Below))
        /\ Parents(stack') /\ Apart(stack')
    BY <1>3, <1>4, <1>6, <2>1, LoopCalls
  <2> QED BY <1>1, <1>4, <2>1, <2>2, CallsAccounted
<1> QED BY <1>5, <1>6

LEMMA AccountsKept ==
  ASSUME Careless = {}, TypeOK, Started(stack), stack # << >> => stack[1].kind = "main",
         Accounts, [Next]_vars
  PROVE  Accounts'
<1>0. stack \in Seq(Frame)
  BY DEF TypeOK
<1>1. ASSUME NEW sig \in Sigs, Raise(sig) PROVE Accounts'
  BY <1>1, RaiseAccounts
<1>2. ASSUME NEW sig \in Sigs, NEW func \in Funcs, Signal(sig, func) PROVE Accounts'
  <2>1. /\ stack # << >> /\ UNCHANGED <<sigmask, sigpending, owed, stack>>
        /\ func = "SIG_IGN" => sig \notin sigpending
        /\ sig_handler' = [sig_handler EXCEPT ![sig] = func]
    BY <1>2 DEF Signal, Program
  <2>2. Accounted(stack, Len(stack), sigpending, sigmask, sig_handler, owed)
    BY <2>1 DEF Accounts
  <2>3. \A x \in sigpending : sig_handler'[x] # "SIG_IGN"
    <3>1. \A x \in sigpending : x \in Sigs /\ sig_handler[x] # "SIG_IGN"
      BY <2>2 DEF Accounted, TypeOK
    <3>2. sig_handler \in [Sigs -> Funcs]
      BY DEF TypeOK
    <3> QED BY <2>1, <3>1, <3>2
  <2>4. Accounted(stack', Len(stack'), sigpending', sigmask', sig_handler', owed')
    BY <2>1, <2>2, <2>3 DEF Accounted
  <2> QED BY <2>1, <2>4 DEF Accounts, DeliveredOnce
<1>3. ASSUME NEW mask \in SUBSET Sigs, Sigsetmask(mask) PROVE Accounts'
  BY <1>3, SetmaskAccounts
<1>4. ASSUME NEW mask \in SUBSET Sigs, Sigblock(mask) PROVE Accounts'
  <2>1. /\ stack # << >> /\ UNCHANGED <<sigpending, sig_handler, owed, stack>>
        /\ sigmask' = sigmask \cup mask
    BY <1>4 DEF Sigblock, Program
  <2>2. Accounted(stack', Len(stack'), sigpending', sigmask', sig_handler', owed')
    BY <2>1 DEF Accounts, Accounted
  <2> QED BY <2>1, <2>2 DEF Accounts, DeliveredOnce
<1>5. ASSUME NEW e \in env, Siglongjmp(e) PROVE Accounts'
  BY <1>5, JumpAccounts DEF Siglongjmp, Program
<1>6. ASSUME NEW savesigs \in BOOLEAN, Sigsetjmp(savesigs) PROVE Accounts'
  BY <1>6, CallsAccounted DEF Sigsetjmp, Program, Accounts
<1>7. CASE Return
  <2>1. stack # << >> /\ Top.kind \in {"handler", "at_exit"} /\ stack' = Below /\ UNCHANGED signals
    BY <1>7 DEF Return
  <2>2. /\ Parents(Below) /\ Apart(Below)
        /\ Sent(stack, Len(stack)) = Sent(Below, Len(Below))
    BY <1>0, <2>1, ReturnKeeps DEF Accounts, Below, Top
  <2> QED BY <2>1, <2>2, CallsAccounted
<1>8. CASE ChecksigsLoop
  BY <1>8, ChecksigsAccounts
<1>9. CASE RaiseChild
  BY <1>9, RaiseChildAccounts
<1>10. CASE Tfork
  BY <1>10, TforkKeeps
<1>11. CASE ThreadReturns
  BY <1>11, ThreadReturnsFrom, ThreadEndsKeeps
<1>12. CASE Atexit
  BY <1>12, CallsAccounted DEF Atexit, Program, Accounts
<1>13. CASE CallExit
  <2> DEFINE f == Exit(num_at_exit)
  <2>1. f \in Frame /\ f.kind = "exit"
    BY FrameKinds DEF TypeOK
  <2>2. stack # << >> /\ stack' = Append(stack, f) /\ UNCHANGED signals
    BY <1>13 DEF CallExit, Call, Room, Program
  <2> HIDE DEF f
  <2>3. /\ Sent(stack', Len(stack')) = Sent(stack, Len(stack))
        /\ Parents(stack') /\ Apart(stack')
    BY <1>0, <2>1, <2>2, CallKeeps DEF Accounts
  <2> QED BY <2>2, <2>3, CallsAccounted
<1>14. CASE ExitLoop
  BY <1>14, ExitLoopAccounts
<1>15. CASE Ended \/ UNCHANGED vars
  <2>1. UNCHANGED vars
    BY <1>15 DEF Ended
  <2> QED BY <2>1 DEF vars, Accounts, Accounted, Parents, Apart, Sent, DeliveredOnce
<1> QED BY <1>1, <1>2, <1>3, <1>4, <1>5, <1>6, <1>7, <1>8, <1>9, <1>10, <1>11, <1>12, <1>13, <1>14,
           <1>15 DEF Next

-----------------------------------------------------------------------------
(* exit comes down to each function once.                                  *)

LEMMA CountdownStarts ==
  ASSUME NEW n \in Nat
  PROVE  Countdown(n, n) = << >>
<1>1. n - n = 0 /\ 1..0 = {}
  OBVIOUS
<1> QED BY <1>1 DEF Countdown

LEMMA CountdownStep ==
  ASSUME NEW w \in Nat, NEW i \in 1..w
  PROVE  Append(Countdown(w, i), i) = Countdown(w, i - 1)
<1> DEFINE c == Countdown(w, i)
<1>1. w - i \in Nat /\ (w - i) + 1 = w - (i - 1)
  OBVIOUS
<1>2. c = [k \in 1..(w - i) |-> w + 1 - k]
  BY DEF Countdown
<1>3. c \in Seq(Int) /\ Len(c) = w - i /\ \A k \in 1..(w - i) : c[k] = w + 1 - k
  BY <1>1, <1>2
<1> HIDE DEF c
<1>4. /\ Append(c, i) \in Seq(Int) /\ Len(Append(c, i)) = w - (i - 1)
      /\ \A k \in 1..(w - (i - 1)) : Append(c, i)[k] = w + 1 - k
  BY <1>1, <1>3
<1>5. Append(c, i) = [k \in 1..(w - (i - 1)) |-> w + 1 - k]
  <2> DEFINE d == [k \in 1..(w - (i - 1)) |-> w + 1 - k]
  <2>1. /\ d \in Seq(Int) /\ Len(d) = w - (i - 1)
        /\ \A k \in 1..(w - (i - 1)) : d[k] = w + 1 - k
    BY <1>1
  <2> DEFINE e == Append(c, i)
  <2> HIDE DEF d, e
  <2>2. e \in Seq(Int) /\ Len(e) = Len(d) /\ \A k \in 1..Len(e) : e[k] = d[k]
    BY <1>4, <2>1 DEF e
  <2>3. e = d
    BY <2>1, <2>2, SeqEqual
  <2> QED BY <2>3 DEF d, e
<1> QED BY <1>5 DEF Countdown, c

\* Calls that begin with main, with no call of exit but those there were.
Follows(t) ==
  /\ t \in Seq(Frame) /\ t # << >> /\ t[1].kind = "main" /\ Started(t)
  /\ \A j \in DOMAIN t : t[j].kind = "exit" => j \in DOMAIN stack /\ t[j] = stack[j]

LEMMA PrefixFollows ==
  ASSUME OneExit, NEW t, Prefix(t, stack), t # << >>
  PROVE  Follows(t)
<1>1. /\ t \in Seq(Frame) /\ stack \in Seq(Frame) /\ Len(t) <= Len(stack) /\ Started(t)
      /\ \A i \in 1..Len(t) : t[i] = stack[i]
  BY PrefixKeeps DEF Prefix, OneExit
<1>2. Len(t) \in Nat \ {0} /\ DOMAIN t = 1..Len(t) /\ DOMAIN stack = 1..Len(stack) /\ Len(stack) \in Nat
  BY <1>1, EmptySeq
<1>3. 1 \in 1..Len(t) /\ stack # << >>
  BY <1>1, <1>2, EmptySeq
<1>4. t[1].kind = "main"
  BY <1>1, <1>3 DEF OneExit
<1> QED BY <1>1, <1>2, <1>4 DEF Follows

LEMMA BelowFollows ==
  ASSUME TypeOK, OneExit, stack # << >>, Top.kind # "main"
  PROVE  Follows(Below)
<1>1. stack \in Seq(Frame) /\ Len(stack) \in Nat \ {0}
  BY EmptySeq DEF TypeOK
<1>2. Len(stack) # 1
  BY DEF OneExit, Top
<1>3. Below \in Seq(Frame) /\ Len(Below) = Len(stack) - 1 /\ Prefix(Below, stack)
  BY <1>1, ReturnKeeps DEF Below
<1>4. Below # << >>
  BY <1>1, <1>2, <1>3
<1> QED BY <1>3, <1>4, PrefixFollows

\* A call on top, of anything but exit and tfork.
LEMMA CallFollows ==
  ASSUME NEW t, Follows(t), NEW f \in Frame, f.kind \notin {"tfork", "thread", "exit"}
  PROVE  Follows(Append(t, f))
<1> DEFINE s == Append(t, f)
<1>1. /\ t \in Seq(Frame) /\ t # << >> /\ t[1].kind = "main" /\ Started(t)
      /\ \A j \in DOMAIN t : t[j].kind = "exit" => j \in DOMAIN stack /\ t[j] = stack[j]
  BY DEF Follows
<1>2. Started(s)
  <2>1. CASE f.kind = "checksigs"
    <3>1. f.send \in SUBSET Sigs /\ f = Checksigs(f.send)
      BY <2>1, FrameTypes
    <3> QED BY <1>1, <3>1, ChecksigsKeeps
  <2>2. CASE f.kind # "checksigs"
    BY <1>1, <2>2, CallKeeps
  <2> QED BY <2>1, <2>2
<1>3. /\ s \in Seq(Frame) /\ Len(s) = Len(t) + 1 /\ DOMAIN s = 1..(Len(t) + 1)
      /\ DOMAIN t = 1..Len(t) /\ Len(t) \in Nat \ {0}
      /\ \A j \in 1..Len(t) : s[j] = t[j]
      /\ s[Len(t) + 1] = f
  BY <1>1, EmptySeq
<1> HIDE DEF s
<1>4. s # << >> /\ s[1].kind = "main"
  BY <1>1, <1>3, EmptySeq
<1>5. \A j \in DOMAIN s : s[j].kind = "exit" => j \in DOMAIN stack /\ s[j] = stack[j]
  <2> SUFFICES ASSUME NEW j \in DOMAIN s, s[j].kind = "exit"
               PROVE  j \in DOMAIN stack /\ s[j] = stack[j]
    OBVIOUS
  <2>1. j # Len(t) + 1
    BY <1>3
  <2>2. j \in 1..Len(t)
    BY <1>3, <2>1
  <2> QED BY <1>1, <1>3, <2>2
<1>6. Follows(s)
  BY <1>2, <1>3, <1>4, <1>5 DEF Follows
<1> QED BY <1>6 DEF s

\* A step that concerns no call of exit, though it may have cut one off.
LEMMA OneExitKept ==
  ASSUME TypeOK, OneExit, UNCHANGED <<ran, wills>>,
         NEW t, Follows(t), stack' = t
  PROVE  OneExit'
<1>1. /\ stack' \in Seq(Frame) /\ stack' # << >> /\ stack'[1].kind = "main" /\ Started(stack')
      /\ \A j \in DOMAIN stack' : stack'[j].kind = "exit" => j \in DOMAIN stack /\ stack'[j] = stack[j]
  BY DEF Follows
<1>2. wills' = << >> => ran' = << >> /\ stack' # << >>
  BY <1>1 DEF OneExit
<1>3. ASSUME Len(wills') <= 1, NEW j \in DOMAIN stack', stack'[j].kind = "exit"
      PROVE  /\ wills' # << >>
             /\ \A k \in DOMAIN stack' : stack'[k].kind = "exit" => k = j
             /\ stack'[j].i <= wills'[1] /\ ran' = Countdown(wills'[1], stack'[j].i)
  <2>1. j \in DOMAIN stack /\ stack'[j] = stack[j] /\ stack[j].kind = "exit" /\ Len(wills) <= 1
    BY <1>1, <1>3
  <2>2. /\ wills # << >>
        /\ \A k \in DOMAIN stack : stack[k].kind = "exit" => k = j
        /\ stack[j].i <= wills[1] /\ ran = Countdown(wills[1], stack[j].i)
    BY <2>1 DEF OneExit
  <2>3. ASSUME NEW k \in DOMAIN stack', stack'[k].kind = "exit" PROVE k = j
    BY <1>1, <2>2, <2>3
  <2> QED BY <2>1, <2>2, <2>3
<1> QED BY <1>1, <1>2, <1>3 DEF OneExit, ExitRunsAll

\* A call of exit on top of some of the calls.
LEMMA OneExitCalled ==
  ASSUME TypeOK, OneExit, NEW t, Follows(t), stack' = Append(t, Exit(num_at_exit)),
         wills' = Append(wills, num_at_exit), UNCHANGED ran
  PROVE  OneExit'
<1> DEFINE n == num_at_exit
<1> DEFINE f == Exit(n)
<1>1. n \in Nat /\ f \in Frame /\ f.kind = "exit" /\ f.i = n
  BY FrameKinds DEF TypeOK
<1>2. /\ wills \in Seq(Nat) /\ wills' = Append(wills, n) /\ stack' = Append(t, f)
      /\ t \in Seq(Frame) /\ t # << >> /\ t[1].kind = "main" /\ Started(t)
      /\ \A j \in DOMAIN t : t[j].kind = "exit" => j \in DOMAIN stack /\ t[j] = stack[j]
  BY DEF TypeOK, Follows
<1> HIDE DEF n, f
<1>3. Started(stack') /\ stack' \in Seq(Frame) /\ Len(stack') = Len(t) + 1
  BY <1>1, <1>2, CallKeeps
<1>4. /\ DOMAIN stack' = 1..(Len(t) + 1) /\ DOMAIN t = 1..Len(t) /\ Len(t) \in Nat \ {0}
      /\ \A j \in 1..Len(t) : stack'[j] = t[j]
      /\ stack'[Len(t) + 1] = f
  BY <1>1, <1>2, EmptySeq
<1>5. stack' # << >> /\ stack'[1].kind = "main"
  BY <1>2, <1>3, <1>4, EmptySeq
<1>6. wills' # << >> /\ (Len(wills') <= 1 => wills = << >> /\ wills'[1] = n)
  BY <1>1, <1>2, EmptySeq
<1>7. ASSUME Len(wills') <= 1, NEW j \in DOMAIN stack', stack'[j].kind = "exit"
      PROVE  j = Len(t) + 1
  <2>1. wills = << >> /\ Len(wills) <= 1
    BY <1>6, <1>7
  <2>2. CASE j \in 1..Len(t)
    <3>1. j \in DOMAIN stack /\ stack[j].kind = "exit"
      BY <1>2, <1>4, <1>7, <2>2
    <3> QED BY <2>1, <3>1 DEF OneExit
  <2> QED BY <1>4, <2>2
<1>8. Len(wills') <= 1 => ran' = Countdown(n, n)
  BY <1>1, <1>6, CountdownStarts DEF OneExit
<1>9. n <= n
  BY <1>1
<1>10. ASSUME Len(wills') <= 1, NEW j \in DOMAIN stack', stack'[j].kind = "exit"
       PROVE  /\ \A k \in DOMAIN stack' : stack'[k].kind = "exit" => k = j
              /\ stack'[j].i <= wills'[1] /\ ran' = Countdown(wills'[1], stack'[j].i)
  BY <1>1, <1>4, <1>6, <1>7, <1>8, <1>9, <1>10
<1> QED BY <1>3, <1>5, <1>6, <1>10 DEF OneExit, ExitRunsAll

\* A signal: its handler is called, or exit.
LEMMA OneExitKill ==
  ASSUME TypeOK, OneExit, NEW sig \in Sigs, NEW calls, Follows(calls), NEW raised \in {0, 1},
         Kill(sig, calls, raised)
  PROVE  OneExit'
<1>1. calls \in Seq(Frame) /\ UNCHANGED ran
  BY DEF Follows, Kill
<1>2. \/ stack' = calls /\ wills' = wills
      \/ stack' = Append(calls, Function("handler")) /\ wills' = wills
      \/ stack' = Append(calls, Exit(num_at_exit)) /\ wills' = Append(wills, num_at_exit)
  BY <1>1, KillCalls
<1>3. CASE stack' = calls /\ wills' = wills
  BY <1>1, <1>3, OneExitKept
<1>4. CASE stack' = Append(calls, Function("handler")) /\ wills' = wills
  <2>1. Function("handler") \in Frame /\ Function("handler").kind = "handler"
    BY FrameKinds DEF Kinds
  <2>2. Follows(Append(calls, Function("handler")))
    BY <2>1, CallFollows
  <2> QED BY <1>1, <1>4, <2>2, OneExitKept
<1>5. CASE stack' = Append(calls, Exit(num_at_exit)) /\ wills' = Append(wills, num_at_exit)
  BY <1>1, <1>5, OneExitCalled
<1> QED BY <1>2, <1>3, <1>4, <1>5

\* The end of a thread cuts off what it did, its calls of exit too.
LEMMA OneExitThread ==
  ASSUME TypeOK, OneExit, NEW calls, Waiting(calls), ThreadEnds(calls), UNCHANGED <<ran, wills>>
  PROVE  OneExit'
<1>1. PICK t : Prefix(t, stack) /\ Len(t) = Len(calls) - 1 /\ stack' = Append(t, Function("raise"))
  BY ThreadEndsKeeps
<1>2. /\ calls \in Seq(Frame) /\ calls # << >> /\ calls[Len(calls)].kind = "tfork"
      /\ stack \in Seq(Frame) /\ Len(calls) <= Len(stack)
      /\ \A i \in 1..Len(calls) : calls[i] = stack[i]
  BY DEF Waiting, Prefix
<1>3. Len(calls) \in Nat \ {0} /\ Len(stack) \in Nat
  BY <1>2, EmptySeq
<1>4. Len(calls) # 1
  <2> SUFFICES ASSUME Len(calls) = 1 PROVE FALSE
    OBVIOUS
  <2>1. 1 \in 1..Len(calls) /\ stack # << >>
    BY <1>2, <1>3, EmptySeq
  <2>2. calls[1].kind = "main"
    BY <1>2, <2>1 DEF OneExit
  <2> QED BY <1>2, <2>2
<1>5. t # << >>
  BY <1>1, <1>3, <1>4, EmptySeq
<1>6. Follows(t)
  BY <1>1, <1>5, PrefixFollows
<1>7. Function("raise") \in Frame /\ Function("raise").kind = "raise"
  BY FrameKinds
<1>8. Follows(Append(t, Function("raise")))
  BY <1>6, <1>7, CallFollows
<1> QED BY <1>1, <1>8, OneExitKept

\* exit calls the next function, or is through.
LEMMA OneExitLoop ==
  ASSUME TypeOK, OneExit, ExitLoop
  PROVE  OneExit'
<1> DEFINE n == Len(stack)
<1> DEFINE i == Top.i
<1>1. /\ stack \in Seq(Frame) /\ stack # << >> /\ Top.kind = "exit" /\ UNCHANGED wills
      /\ wills \in Seq(Nat)
  BY DEF TypeOK, ExitLoop
<1>2. n \in Nat \ {0} /\ Top = stack[n] /\ Top \in Frame /\ DOMAIN stack = 1..n
  BY <1>1, EmptySeq DEF Top
<1>3. i \in Nat
  BY <1>1, <1>2, FrameTypes
<1>4. Len(wills) <= 1 =>
        /\ wills # << >> /\ \A k \in DOMAIN stack : stack[k].kind = "exit" => k = n
        /\ i <= wills[1] /\ ran = Countdown(wills[1], i)
  <2>1. n \in DOMAIN stack /\ stack[n].kind = "exit" /\ stack[n].i = i
    BY <1>1, <1>2
  <2> QED BY <2>1 DEF OneExit
<1>5. wills # << >>
  BY <1>4, EmptySeq
<1>6. CASE i = 0
  <2>1. Terminate /\ UNCHANGED ran
    BY <1>6 DEF ExitLoop, NoFunction
  <2>2. CASE stack' = << >>
    <3>1. Len(wills) = 1 => ran' = [k \in 1..wills[1] |-> wills[1] + 1 - k]
      <4> SUFFICES ASSUME Len(wills) = 1 PROVE ran = [k \in 1..wills[1] |-> wills[1] + 1 - k]
        BY <2>1
      <4>1. wills[1] \in Nat
        <5>1. Len(wills) \in Nat \ {0} /\ wills \in Seq(Nat)
          BY <1>1
        <5> HIDE DEF n, i
        <5> QED BY <5>1
      <4>2. wills[1] - 0 = wills[1]
        BY <4>1
      <4> QED BY <1>4, <1>6, <4>2 DEF Countdown
    <3>2. DOMAIN stack' = {}
      BY <2>2
    <3> QED BY <1>1, <1>5, <2>2, <3>1, <3>2 DEF OneExit, Started, ExitRunsAll
  <2>3. CASE \E calls : Waiting(calls) /\ ThreadEnds(calls)
    BY <1>1, <2>1, <2>3, OneExitThread
  <2> QED BY <2>1, <2>2, <2>3, TerminateFrom
<1>7. CASE i # 0
  <2> DEFINE f == Exit(i - 1)
  <2> DEFINE g == Function("at_exit")
  <2>1. stack' = Below \o <<f, g>> /\ ran' = Append(ran, i)
    BY <1>7 DEF ExitLoop, NoFunction
  <2>2. Follows(Below)
    BY <1>1, BelowFollows
  <2>3. Below \in Seq(Frame) /\ Below # << >> /\ Below[1].kind = "main" /\ Started(Below)
        /\ \A j \in DOMAIN Below : Below[j].kind = "exit" => j \in DOMAIN stack /\ Below[j] = stack[j]
    BY <2>2 DEF Follows
  <2>4. Len(Below) = n - 1
    BY <1>1, ReturnKeeps DEF Below
  <2>5. i \in Nat \ {0} /\ i - 1 \in Nat
    BY <1>3, <1>7
  <2>6. f.kind = "exit" /\ f.i = i - 1 /\ g.kind = "at_exit"
    BY <2>5, FrameKinds DEF Kinds
  <2>7. /\ stack' \in Seq(Frame) /\ Len(stack') = Len(Below) + 2 /\ Started(stack')
        /\ stack'[Len(Below) + 1] = f /\ stack'[Len(Below) + 2] = g /\ Prefix(Below, stack')
    BY <2>1, <2>3, <2>5, LoopCalls
  <2> HIDE DEF f, g, n
  <2>8. /\ Len(stack') = n + 1 /\ stack'[n] = f /\ stack'[n + 1] = g
        /\ \A k \in 1..(n - 1) : stack'[k] = Below[k]
        /\ DOMAIN stack' = 1..(n + 1) /\ DOMAIN Below = 1..(n - 1)
    <3>1. (n - 1) + 1 = n /\ (n - 1) + 2 = n + 1
      BY <1>2
    <3> QED BY <2>3, <2>4, <2>7, <3>1 DEF Prefix
  <2>9. stack' # << >> /\ stack'[1].kind = "main"
    <3>1. 1 \in 1..(n - 1)
      BY <1>2, <2>3, <2>4, EmptySeq
    <3> QED BY <1>2, <2>3, <2>8, <3>1, EmptySeq
  <2>10. ASSUME Len(wills) <= 1, NEW j \in DOMAIN stack', stack'[j].kind = "exit"
         PROVE  j = n
    <3>1. j # n + 1
      BY <2>6, <2>8, <2>10
    <3>2. CASE j \in 1..(n - 1)
      <4>1. j \in DOMAIN stack /\ stack[j].kind = "exit"
        BY <2>3, <2>8, <2>10, <3>2
      <4>2. j = n
        BY <1>4, <2>10, <4>1
      <4> QED BY <1>2, <3>2, <4>2
    <3> QED BY <1>2, <2>8, <3>1, <3>2
  <2>11. Len(wills) <= 1 => i - 1 <= wills[1] /\ ran' = Countdown(wills[1], i - 1)
    <3> SUFFICES ASSUME Len(wills) <= 1
                 PROVE  i - 1 <= wills[1] /\ ran' = Countdown(wills[1], i - 1)
      OBVIOUS
    <3>1. wills[1] \in Nat
      <4>1. Len(wills) \in Nat \ {0}
        BY <1>1, <1>5, EmptySeq
      <4> QED BY <1>1, <4>1
    <3>2. i \in 1..wills[1] /\ ran = Countdown(wills[1], i)
      BY <1>4, <2>5, <3>1
    <3> HIDE DEF i
    <3>3. Append(Countdown(wills[1], i), i) = Countdown(wills[1], i - 1)
      BY <3>1, <3>2, CountdownStep
    <3>4. i - 1 <= wills[1]
      BY <3>1, <3>2
    <3> QED BY <2>1, <3>2, <3>3, <3>4
  <2>12. ASSUME Len(wills') <= 1, NEW j \in DOMAIN stack', stack'[j].kind = "exit"
         PROVE  /\ \A k \in DOMAIN stack' : stack'[k].kind = "exit" => k = j
                /\ stack'[j].i <= wills'[1] /\ ran' = Countdown(wills'[1], stack'[j].i)
    <3>1. Len(wills) <= 1
      BY <1>1, <2>12
    <3>2. stack'[j].i = i - 1
      BY <2>6, <2>8, <2>10, <2>12, <3>1
    <3>3. \A k \in DOMAIN stack' : stack'[k].kind = "exit" => k = j
      BY <2>10, <2>12, <3>1
    <3> HIDE DEF i
    <3> QED BY <1>1, <2>11, <3>1, <3>2, <3>3
  <2> QED BY <1>1, <1>5, <2>7, <2>9, <2>12 DEF OneExit, ExitRunsAll
<1> QED BY <1>6, <1>7

LEMMA OneExitStep ==
  ASSUME TypeOK, OneExit, [Next]_vars
  PROVE  OneExit'
<1>0. stack \in Seq(Frame) /\ (stack # << >> => Follows(stack)) /\ Started(stack)
  <2>1. stack \in Seq(Frame)
    BY DEF TypeOK
  <2>2. Prefix(stack, stack)
    BY <2>1 DEF Prefix
  <2> QED BY <2>1, <2>2, PrefixFollows DEF OneExit
<1>1. ASSUME NEW sig \in Sigs, Raise(sig) PROVE OneExit'
  <2>1. stack # << >> /\ Kill(sig, stack, 1) /\ 1 \in {0, 1}
    BY <1>1 DEF Raise, Room, Program
  <2> QED BY <1>0, <2>1, OneExitKill
<1>2. ASSUME NEW sig \in Sigs, NEW func \in Funcs, Signal(sig, func) PROVE OneExit'
  BY <1>0, <1>2, OneExitKept DEF Signal, Program, exits
<1>3. ASSUME NEW mask \in SUBSET Sigs, Sigsetmask(mask) PROVE OneExit'
  <2>1. /\ stack # << >> /\ UNCHANGED <<ran, wills>>
        /\ stack' = stack \/ stack' = Append(stack, Checksigs(sigpending \ mask))
    BY <1>3 DEF Sigsetmask, Call, Room, Program, exits
  <2>2. Checksigs(sigpending \ mask) \in Frame /\ Checksigs(sigpending \ mask).kind = "checksigs"
    <3>1. sigpending \ mask \in SUBSET Sigs
      BY DEF TypeOK
    <3> QED BY <3>1, FrameKinds
  <2>3. Follows(Append(stack, Checksigs(sigpending \ mask)))
    BY <1>0, <2>1, <2>2, CallFollows
  <2> QED BY <1>0, <2>1, <2>3, OneExitKept
<1>4. ASSUME NEW mask \in SUBSET Sigs, Sigblock(mask) PROVE OneExit'
  BY <1>0, <1>4, OneExitKept DEF Sigblock, Program, exits
<1>5. ASSUME NEW e \in env, Siglongjmp(e) PROVE OneExit'
  <2>1. stack' # << >> /\ Prefix(stack', stack) /\ UNCHANGED <<ran, wills>>
    BY <1>5, JumpKeeps DEF Siglongjmp, exits
  <2>2. \A t : t = stack' => Follows(t)
    BY <2>1, PrefixFollows
  <2> QED BY <2>1, <2>2, OneExitKept
<1>6. ASSUME NEW savesigs \in BOOLEAN, Sigsetjmp(savesigs) PROVE OneExit'
  BY <1>0, <1>6, OneExitKept DEF Sigsetjmp, Program, exits
<1>7. CASE Return
  <2>1. stack # << >> /\ Top.kind # "main" /\ stack' = Below /\ UNCHANGED <<ran, wills>>
    BY <1>7 DEF Return, exits
  <2> QED BY <2>1, BelowFollows, OneExitKept
<1>8. CASE ChecksigsLoop
  <2>1. stack # << >> /\ Top.kind = "checksigs" /\ Len(stack) \in Nat \ {0}
    BY <1>0, <1>8, EmptySeq DEF ChecksigsLoop
  <2>2. Top \in Frame
    BY <1>0, <2>1 DEF Top
  <2>3. Top.send \in SUBSET Sigs
    BY <2>1, <2>2, FrameTypes
  <2>4. Follows(Below)
    BY <2>1, BelowFollows
  <2>5. CASE Top.send = {}
    BY <1>8, <2>4, <2>5, OneExitKept DEF ChecksigsLoop, exits
  <2>6. CASE Top.send # {}
    <3> DEFINE sig == NextSig(Top.send)
    <3> DEFINE f == Checksigs(Top.send \ {sig})
    <3>1. Kill(sig, Append(Below, f), 0) /\ 0 \in {0, 1}
      BY <1>8, <2>6 DEF ChecksigsLoop
    <3>2. sig \in Sigs /\ Top.send \ {sig} \in SUBSET Sigs
      BY <2>3, <2>6, NextSigSent
    <3>3. f \in Frame /\ f.kind = "checksigs"
      BY <3>2, FrameKinds
    <3> HIDE DEF sig, f
    <3>4. Follows(Append(Below, f))
      BY <2>4, <3>3, CallFollows
    <3> QED BY <3>1, <3>2, <3>4, OneExitKill
  <2> QED BY <2>5, <2>6
<1>9. CASE RaiseChild
  <2>1. stack # << >> /\ Top.kind = "raise" /\ Kill(SIGCHLD, Below, 1) /\ 1 \in {0, 1}
    BY <1>9 DEF RaiseChild
  <2>2. SIGCHLD \in Sigs
    BY SignalAssumption
  <2> QED BY <2>1, <2>2, BelowFollows, OneExitKill
<1>10. CASE Tfork
  <2> DEFINE n == Len(stack)
  <2>1. /\ stack' \in Seq(Frame) /\ Len(stack') = n + 2
        /\ stack'[n + 1] = Saved /\ stack'[n + 2] = Function("thread")
        /\ Prefix(stack, stack') /\ Started(stack')
    BY <1>0, <1>10, TforkKeeps
  <2>2. Saved.kind = "tfork" /\ Function("thread").kind = "thread"
    BY DEF Saved, Function
  <2>3. stack # << >> /\ UNCHANGED <<ran, wills>> /\ n \in Nat \ {0} /\ stack[1].kind = "main"
    BY <1>0, <1>10, EmptySeq DEF Tfork, Room, Program, exits, OneExit
  <2> HIDE DEF n
  <2>4. /\ DOMAIN stack' = 1..(n + 2) /\ DOMAIN stack = 1..n
        /\ \A j \in 1..n : stack'[j] = stack[j]
    <3>1. n = Len(stack)
      BY DEF n
    <3> QED BY <1>0, <2>1, <3>1 DEF Prefix
  <2>5. stack' # << >> /\ stack'[1].kind = "main"
    BY <2>1, <2>3, <2>4, EmptySeq
  <2>6. ASSUME NEW j \in DOMAIN stack', stack'[j].kind = "exit"
        PROVE  j \in DOMAIN stack /\ stack'[j] = stack[j]
    <3>1. j # n + 1 /\ j # n + 2
      BY <2>1, <2>2, <2>6
    <3> QED BY <2>3, <2>4, <2>6, <3>1
  <2>7. \A t : t = stack' => Follows(t)
    BY <2>1, <2>5, <2>6 DEF Follows
  <2> QED BY <2>3, <2>7, OneExitKept
<1>11. CASE ThreadReturns
  <2>1. Waiting(Below) /\ ThreadEnds(Below)
    BY <1>0, <1>11, ThreadReturnsFrom
  <2> QED BY <1>11, <2>1, OneExitThread DEF ThreadReturns, exits
<1>12. CASE Atexit
  BY <1>0, <1>12, OneExitKept DEF Atexit, Program
<1>13. CASE CallExit
  BY <1>0, <1>13, OneExitCalled DEF CallExit, Call, Room, Program
<1>14. CASE ExitLoop
  BY <1>14, OneExitLoop
<1>15. CASE Ended \/ UNCHANGED vars
  <2>1. UNCHANGED vars
    BY <1>15 DEF Ended
  <2> QED BY <2>1 DEF vars, OneExit, Started, ExitRunsAll
<1> QED BY <1>1, <1>2, <1>3, <1>4, <1>5, <1>6, <1>7, <1>8, <1>9, <1>10, <1>11, <1>12, <1>13, <1>14,
           <1>15 DEF Next

-----------------------------------------------------------------------------
(* The theorems.                                                           *)

LEMMA InitSound == Init => TypeOK /\ OneExit /\ Accounts
<1> SUFFICES ASSUME Init PROVE TypeOK /\ OneExit /\ Accounts
  OBVIOUS
<1>1. /\ stack = <<Function("main")>> /\ sigmask = {} /\ sigpending = {}
      /\ owed = [sig \in Sigs |-> 0] /\ ran = << >> /\ wills = << >>
  BY DEF Init
<1>2. Function("main") \in Frame /\ Function("main").kind = "main"
  BY FrameKinds DEF Kinds
<1>3. TypeOK
  <2>1. << >> \in Seq(Nat)
    BY EmptySeq
  <2>2. stack \in Seq(Frame)
    BY <1>1, <1>2
  <2>3. sig_handler \in [Sigs -> Funcs] /\ owed \in [Sigs -> Int]
    BY DEF Init, Funcs
  <2> QED BY <2>1, <2>2, <2>3 DEF TypeOK, Init
<1>4. stack # << >> /\ DOMAIN stack = {1} /\ stack[1].kind = "main" /\ Len(stack) = 1
  BY <1>1, <1>2
<1>5. OneExit
  BY <1>1, <1>4 DEF OneExit, Started, ExitRunsAll
<1>6. Sent(stack, Len(stack)) = {}
  <2>1. \A i \in 1..1 : stack[i].kind # "checksigs"
    BY <1>4
  <2> QED BY <1>4, <2>1 DEF Sent
<1>7. \A sig \in Sigs : owed[sig] \in 0..1 /\ owed[sig] >= 0 /\ ~(owed[sig] > 0)
  BY <1>1
<1>8. Accounted(stack, Len(stack), sigpending, sigmask, sig_handler, owed)
  BY <1>1, <1>6, <1>7 DEF Accounted
<1>9. Accounts
  BY <1>4, <1>7, <1>8 DEF Accounts, Parents, Apart, DeliveredOnce
<1> QED BY <1>3, <1>5, <1>9

\* Whatever the program does, every variable has its type, main is the first
\* call and every function of tfork stands on the tfork that called it; and as
\* long as exit was called once, by the program or through a fatal signal, only
\* one call of it is on the stack, and the functions it has run are those from
\* the number registered when it was called down to its index, in that order.
\* Of a process whose functions of atexit call exit again it says nothing more.
THEOREM ExitCountsDown == Spec => [](TypeOK /\ OneExit)
<1>1. Init => TypeOK /\ OneExit
  BY InitSound
<1>2. TypeOK /\ OneExit /\ [Next]_vars => (TypeOK /\ OneExit)'
  BY TypesKept, OneExitStep DEF OneExit
<1> QED BY <1>1, <1>2, PTL DEF Spec

\* exit (mintlib/main.c and stdlib/exit.c) called once, by the program or through
\* a fatal signal, in any function and with any functions of atexit that
\* register more, runs what was registered, each once, the last first.
THEOREM ExitRunsAllOnce == Spec => []ExitRunsAll
<1>1. OneExit => ExitRunsAll
  BY DEF OneExit
<1> QED BY <1>1, ExitCountsDown, PTL

\* With no handler that unmasks what a checksigs below it is about to send, no
\* pending signal set to SIG_IGN and no jump that leaves a signal behind, each
\* thread's signals are accounted for: just those pending and those checksigs
\* (unix/sigblock.c) took have an action to their credit, and each has one.
THEOREM SignalsAccounted == ASSUME Careless = {} PROVE Spec => []Accounts
<1>1. Init => Accounts
  BY InitSound
<1>2. TypeOK /\ OneExit /\ Accounts /\ [Next]_vars => Accounts'
  BY AccountsKept DEF OneExit
<1> QED BY <1>1, <1>2, ExitCountsDown, PTL DEF Spec

\* No signal acts more often than it was raised.
THEOREM NoSignalTwice == ASSUME Careless = {} PROVE Spec => []DeliveredOnce
<1>1. Accounts => DeliveredOnce
  BY DEF Accounts
<1> QED BY <1>1, SignalsAccounted, PTL

\* No signal is lost: whatever was raised and has not acted since is pending or
\* about to be sent by the thread that runs, through kill (unix/kill.c), the
\* masks, jumps and the signals tfork (mintlib/thread.c) puts aside.
THEOREM NoSignalLost == ASSUME Careless = {} PROVE Spec => []NothingLost
<1>1. Accounts => NothingLost
  BY DEF Accounts, Accounted, NothingLost
<1> QED BY <1>1, SignalsAccounted, PTL

\* When the program runs and no checksigs is below it, every pending signal is
\* blocked.
THEOREM NoSignalLeft == ASSUME Careless = {} PROVE Spec => []NothingLeft
<1>1. Accounts => NothingLeft
  <2> SUFFICES ASSUME Accounts, stack # << >>, Frames("checksigs") = {}, NEW sig \in sigpending \ sigmask
               PROVE  FALSE
    BY DEF NothingLeft, Program
  <2>1. sig \in Sent(stack, Len(stack))
    BY DEF Accounts, Accounted
  <2>2. PICK i \in 1..Len(stack) : stack[i].kind = "checksigs"
    BY <2>1 DEF Sent
  <2> QED BY <2>2 DEF Frames
<1> QED BY <1>1, SignalsAccounted, PTL
=============================================================================
