------------------------------ MODULE SemTimed ------------------------------
(***************************************************************************)
(* The other semaphores, with their clocks: POSIX semaphores (platform/    *)
(* posix/src/nsync_semaphore_sem_t.c), Windows' (platform/win32/src/       *)
(* nsync_semaphore_win32.c), dispatch semaphores (platform/macos/src/      *)
(* nsync_semaphore_gcd.c), and flags with a mutex and condition variable   *)
(* of pthreads (platform/posix/src/nsync_semaphore_mutex.c) and of C++11   *)
(* (platform/c++11/src/nsync_semaphore_mutex.cc).                          *)
(*                                                                         *)
(* They differ in how they convert a deadline, whether waits end early, and*)
(* whether nsync looks at the clock again.  Time is in nanoseconds; the    *)
(* waits themselves are the operating system's.                            *)
(***************************************************************************)
EXTENDS TimeRep, FiniteSets

CONSTANTS
  Callers,     \* the threads that call P; any thread may call V
  Settings,    \* for each platform "sem_t", "win32", "gcd", "pthread" or "c++11",
               \* the callers used, how much too early a wait may time out, and
               \* the resolution of std::chrono::system_clock
  Deadlines,   \* bound: the deadlines of calls
  MaxTime,     \* bound: the last moment, which stands for all later ones
  CapS, CapMs, \* 1000*1000 both: the longest wait asked of Windows
  MaxCount     \* bound: the count, for counting semaphores

TimedPlatforms == {"sem_t", "win32", "gcd", "pthread", "c++11"}

ASSUME DeadlinesPass ==
  /\ MaxTime \in Nat \ {0} /\ MaxCount \in Nat \ {0} /\ CapS \in Nat /\ CapMs \in Nat
  /\ \A d \in Deadlines : d \in Nat /\ d < MaxTime

\* A dispatch semaphore does not time out early; nsync does not check that it does.
ASSUME SettingsAssumption ==
  /\ \A p \in TimedPlatforms : Settings[p].early \in Nat /\ Settings[p].tick \in Nat \ {0}
  /\ Settings["gcd"].early = 0

VARIABLES
  platform,
  count,
  now,
  th,          \* the locals of a call: place, deadline, clock reading, end of wait
  outcome      \* how each thread called P last, and how that call ended

timedVars == <<platform, count, now, th, outcome>>

Never == MaxTime * MaxTime
Time(n) == nsync_time_s_ns(n \div NSYNC_NS_IN_S_, n % NSYNC_NS_IN_S_)

NoCall == [at |-> "idle", dl |-> Never, read |-> Time(0), until |-> Never]

\* nsync_mu_semaphore_init
TimedInit ==
  /\ count = 0 /\ now = 0
  /\ th = [t \in Callers |-> NoCall]
  /\ outcome = [t \in Callers |-> "acquired"]

\* Whether the semaphore is a flag with a mutex and condition variable.
HasFlag == platform \in {"pthread", "c++11"}

\* Windows' clock has a resolution of a millisecond.
clock_gettime_win32 ==
  nsync_time_s_ns(now \div NSYNC_NS_IN_S_, ((now % NSYNC_NS_IN_S_) \div NsPerMs) * NsPerMs)

nsync_time_now == IF platform = "win32" THEN clock_gettime_win32 ELSE Time(now)

----------------------------------------------------------------------------
(* When the system's wait ends, for a deadline.                            *)

UntilSemT(x) == x.dl

UntilGcd(x) == x.dl

UntilPthread(x) == x.dl

UntilCpp11(x) == nsync_to_time_point_(Time(x.dl), Settings[platform].tick)

Milliseconds(delay) == delay.sec * MsPerS + (delay.nsec + NsPerMs - 1) \div NsPerMs

\* The wait is for a number of milliseconds from now, not later than the clock
\* read earlier makes them; long waits are cut short.
UntilWin32(x) ==
  LET delay == nsync_time_sub(Time(x.dl), x.read) IN
  CASE nsync_time_cmp(Time(x.dl), x.read) <= 0 -> now
    [] nsync_time_cmp(Time(x.dl), x.read) > 0 /\ delay.sec > CapS -> now + CapMs * NsPerMs
    [] OTHER -> now + Milliseconds(delay) * NsPerMs

Until(x) ==
  CASE x.dl = Never -> Never
    [] x.dl # Never /\ platform = "sem_t" -> UntilSemT(x)
    [] x.dl # Never /\ platform = "gcd" -> UntilGcd(x)
    [] x.dl # Never /\ platform = "pthread" -> UntilPthread(x)
    [] x.dl # Never /\ platform = "c++11" -> UntilCpp11(x)
    [] OTHER -> UntilWin32(x)

----------------------------------------------------------------------------

\* nsync_mu_semaphore_p, or nsync_mu_semaphore_p_with_deadline; Windows' reads the
\* clock first.
TimedP(t, d) ==
  /\ th[t].at = "idle" /\ t \in Settings[platform].callers
  /\ th' = [th EXCEPT ![t].at = IF platform = "win32" /\ d # Never THEN "clock" ELSE "wait",
                      ![t].dl = d]
  /\ outcome' = [outcome EXCEPT ![t] = IF d = Never THEN "p" ELSE "p_with_deadline"]
  /\ UNCHANGED <<platform, count, now>>

ReadClock(t) ==
  /\ th[t].at = "clock"
  /\ th' = [th EXCEPT ![t].at = "wait", ![t].read = nsync_time_now]
  /\ UNCHANGED <<platform, count, now, outcome>>

Return(t, result) == th' = [th EXCEPT ![t] = NoCall] /\ outcome' = [outcome EXCEPT ![t] = result]

\* Mutant: the flag stays set.
TakeFlagNot(t) == UNCHANGED count /\ Return(t, "acquired")

TakeFlag(t) == count' = 0 /\ Return(t, "acquired")

Sleep(t) ==
  /\ th' = [th EXCEPT ![t].at = "asleep", ![t].until = Until(th[t])]
  /\ UNCHANGED <<count, outcome>>

\* The wait begins.
Wait(t) ==
  /\ th[t].at = "wait" /\ ~HasFlag /\ Sleep(t)
  /\ UNCHANGED <<platform, now>>

\* The loop test, with the mutex held.
FlagWait(t) ==
  /\ th[t].at = "wait" /\ HasFlag
  /\ IF count # 0 THEN TakeFlag(t) ELSE Sleep(t)
  /\ UNCHANGED <<platform, now>>

\* The system takes a count for the thread.
Acquire(t) ==
  /\ th[t].at = "asleep" /\ ~HasFlag /\ count > 0
  /\ count' = count - 1 /\ Return(t, "acquired")
  /\ UNCHANGED <<platform, now>>

\* EINTR, or a spurious wakeup of the condition variable.
Interrupt(t) ==
  /\ platform = "sem_t" \/ HasFlag
  /\ th[t].at = "asleep" /\ now < th[t].until
  /\ th' = [th EXCEPT ![t].at = "wait"]
  /\ UNCHANGED <<platform, count, now, outcome>>

\* The system's wait times out.
TimeOut(t) ==
  /\ th[t].at = "asleep" /\ th[t].until # Never
  /\ now >= th[t].until - Settings[platform].early \/ now = MaxTime
  /\ th' = [th EXCEPT ![t].at = "timedout"]
  /\ UNCHANGED <<platform, count, now, outcome>>

\* Mutant: on Windows, waits again whatever the clock says.
RetryAlways(t) ==
  platform = "win32" \/ (platform # "gcd" /\ nsync_time_cmp(Time(th[t].dl), nsync_time_now) > 0)

\* Whether the call waits again after a timeout, because the clock says that the
\* deadline has not come.  Dispatch semaphores are trusted.
Retry(t) == platform # "gcd" /\ nsync_time_cmp(Time(th[t].dl), nsync_time_now) > 0

WaitAgain(t) ==
  /\ th' = [th EXCEPT ![t].at = "wait", ![t].until = Never, ![t].read = nsync_time_now]
  /\ UNCHANGED <<count, outcome>>

AfterTimeOut(t) ==
  /\ th[t].at = "timedout" /\ ~HasFlag
  /\ IF Retry(t) THEN WaitAgain(t) ELSE UNCHANGED count /\ Return(t, "expired")
  /\ UNCHANGED <<platform, now>>

\* Mutant: a post that came with the timeout is left in the flag.
FlagIsIgnored == FALSE

FlagIsSet == count # 0

\* The flag is looked at once more.
FlagTimeOut(t) ==
  /\ th[t].at = "timedout" /\ HasFlag
  /\ IF Retry(t) THEN WaitAgain(t)
     ELSE IF FlagIsSet THEN TakeFlag(t) ELSE UNCHANGED count /\ Return(t, "expired")
  /\ UNCHANGED <<platform, now>>

PostedSemT == count + 1

PostedGcd == count + 1

\* CreateSemaphore was given 1 as the maximum; beyond it ReleaseSemaphore fails.
PostedWin32 == IF count = 1 THEN count ELSE count + 1

\* notify_all, or pthread_cond_broadcast
NotifyAll == [t \in Callers |-> IF th[t].at = "asleep" THEN [th[t] EXCEPT !.at = "wait"] ELSE th[t]]

PostFlag == count' = 1 /\ th' = NotifyAll

\* nsync_mu_semaphore_v
TimedV ==
  /\ count < MaxCount
  /\ CASE platform = "sem_t" -> count' = PostedSemT /\ UNCHANGED th
       [] platform = "gcd" -> count' = PostedGcd /\ UNCHANGED th
       [] platform = "win32" -> count' = PostedWin32 /\ UNCHANGED th
       [] OTHER -> PostFlag
  /\ UNCHANGED <<platform, now, outcome>>

Tick == now < MaxTime /\ now' = now + 1 /\ UNCHANGED <<platform, count, th, outcome>>

TimedStep(t) ==
  \/ ReadClock(t) \/ Wait(t) \/ FlagWait(t) \/ Acquire(t) \/ TimeOut(t)
  \/ AfterTimeOut(t) \/ FlagTimeOut(t)

TimedNext ==
  \/ \E t \in Callers : \/ \E d \in Deadlines \union {Never} : TimedP(t, d)
                        \/ TimedStep(t) \/ Interrupt(t)
  \/ TimedV \/ Tick

TimedSpec == TimedInit /\ platform \in TimedPlatforms /\ [][TimedNext]_timedVars

\* Threads run, waits end at their time, and time passes.
TimedFairness ==
  WF_timedVars(Settings[platform].callers # {} /\ Tick) /\ \A t \in Callers : WF_timedVars(TimedStep(t))

----------------------------------------------------------------------------
(* Properties                                                              *)

\* Type correctness; the count of a binary semaphore stays below 2.
TimedTypeOK ==
  /\ count \in 0..(IF platform = "win32" \/ HasFlag THEN 1 ELSE MaxCount)
  /\ now \in 0..MaxTime
  /\ \A t \in Callers :
       /\ th[t].at \in {"idle", "clock", "wait", "asleep", "timedout"}
       /\ th[t].read.nsec \in 0..NSYNC_NS_IN_S_ - 1 /\ th[t].until \in Nat
       /\ th[t].at = "idle" <=> outcome[t] \in {"acquired", "expired"}

\* nsync_mu_semaphore_p_with_deadline does not report a timeout before the
\* deadline, though waits may end early and deadlines are converted to the
\* system's units.
NoEarlyTimeout ==
  \A t \in Callers : outcome[t] # "expired" /\ outcome'[t] = "expired" => now >= th[t].dl

TimedAbstract == INSTANCE Semaphore WITH Threads <- Callers, call <- outcome

\* All are semaphores as internal/sem.h describes them.
TimedImplementsSemaphore == TimedAbstract!Spec

\* A post that finds the thread in the wait for a flag, or just timed out, is
\* taken: the call does not report a timeout while the flag is set.
NoTimeoutWithCount ==
  \A t \in Callers :
    HasFlag /\ outcome[t] # "expired" /\ outcome'[t] = "expired" => count = 0

\* A call with a deadline returns.
TimedCallReturns ==
  \A t \in Callers : outcome[t] = "p_with_deadline" ~> outcome[t] \in {"acquired", "expired"}

\* A call without one returns once there is a count, if it has no competitor.
UncontestedCallReturns ==
  \A t \in Callers :
    Settings[platform].callers = {t} /\ outcome[t] = "p" /\ count > 0 ~> outcome[t] = "acquired"

\* A timeout is reported only when it is due: not before the deadline, and, by the
\* semaphores made of a flag, not while the flag is set.
TimeoutIsTrue ==
  TimedTypeOK /\ [][TimedTypeOK' /\ NoEarlyTimeout /\ NoTimeoutWithCount]_timedVars
=============================================================================
