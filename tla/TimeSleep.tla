----------------------------- MODULE TimeSleep -----------------------------
(***************************************************************************)
(* nsync_time_sleep, called again with what it returns until that is zero. *)
(*                                                                         *)
(* With struct timespec and with 32-bit integers it calls nanosleep, which *)
(* a signal may interrupt; platform/win32/src/nanosleep.c provides one that*)
(* sleeps in pieces.  platform/c++11/src/time_rep_timespec.cc reads the    *)
(* clock before and after.                                                 *)
(***************************************************************************)
EXTENDS TimeRep

CONSTANTS
  SleepPlatforms,   \* of "timespec", "int32", "win32" and "c++11"
  Delays,      \* bound: the delays asked for, in nanoseconds
  MaxTime,     \* bound: the last moment
  LastStart,   \* bound: the last moment for a first call
  MaxSleeps,    \* bound: calls for one delay
  ClockTick,   \* the resolution of std::chrono::system_clock
  PieceS       \* 1000: the seconds of one Sleep

\* The delays fit a 32-bit nsync_time.
ASSUME SleepAssumption == \A n \in Delays : n \in 0 .. MaxInt32 * NsPerMs

VARIABLES
  platform,
  now,
  sleeper,          \* "idle", "called", "asleep" or "woken"
  delay,       \* the argument of the call, as a timespec
  start,       \* the clock reading at its beginning
  left,           \* the seconds that nsync_nanosleep has left
  wake,        \* when the system's sleep ends; afterwards, what it left
  remain,      \* the result of the last call
  sleeps,
  lost,        \* by how much Windows' Sleep has ended early, so far
  first,       \* when the first call was made
  asked        \* and for what delay

loop == <<platform, sleeps, first, asked>>
sleepVars == <<now, sleeper, delay, start, left, wake, remain, lost, loop>>

TimeOf(n) == nsync_time_s_ns(n \div NSYNC_NS_IN_S_, n % NSYNC_NS_IN_S_)
ValueOf(t) == t.sec * NSYNC_NS_IN_S_ + t.nsec

\* What a delay or a result is once it has been an nsync_time.
AsNsyncTime(t) ==
  IF platform = "int32"
  THEN LET n == NumS_ns(4, t.sec, t.nsec)
       IN  nsync_time_s_ns(NSYNC_TIME_SEC(4, n), NSYNC_TIME_NSEC(4, n))
  ELSE t

SleepInit ==
  /\ platform \in SleepPlatforms /\ now = 0 /\ sleeper = "idle" /\ left = 0 /\ wake = 0 /\ sleeps = 0 /\ lost = 0
  /\ delay = nsync_time_zero /\ start = nsync_time_zero /\ remain = nsync_time_zero
  /\ first = 0 /\ asked = 0

Clock == nsync_from_time_point_((now \div ClockTick) * ClockTick)

\* The call, up to the C++ code's reading of the clock.
nsync_time_sleep(t) ==
  /\ sleeper = "idle" /\ sleeps < MaxSleeps
  /\ sleeper' = "called" /\ delay' = t /\ start' = Clock /\ left' = t.sec /\ sleeps' = sleeps + 1
  /\ UNCHANGED <<platform, now, wake, remain, lost>>

FirstCall(n) ==
  /\ sleeps = 0 /\ now <= LastStart /\ nsync_time_sleep(AsNsyncTime(TimeOf(n)))
  /\ first' = now /\ asked' = n

AgainForTheRest ==
  /\ sleeps > 0 /\ nsync_time_cmp(remain, nsync_time_zero) > 0 /\ nsync_time_sleep(remain)
  /\ UNCHANGED <<first, asked>>

\* Mutant: the milliseconds are rounded down.
SleepRoundedDown(seconds, nsec) == (seconds * MsPerS + nsec \div NsPerMs) * NsPerMs

Sleep(seconds, nsec) == (seconds * MsPerS + (nsec + NsPerMs - 1) \div NsPerMs) * NsPerMs

\* One Sleep of nsync_nanosleep: a whole piece, or all that is left.
NanosleepWin32 ==
  IF left > PieceS
  THEN left' = left - PieceS /\ wake' = now + Sleep(PieceS, 0)
  ELSE left' = -1 /\ wake' = now + Sleep(left, delay.nsec)

FallAsleep ==
  /\ sleeper = "called" /\ sleeper' = "asleep"
  /\ IF platform = "win32" THEN NanosleepWin32 ELSE wake' = now + ValueOf(delay) /\ UNCHANGED left
  /\ UNCHANGED <<now, delay, start, remain, lost, loop>>

\* What follows the end of the system's sleep: nsync_nanosleep may have more of them to
\* make, and does not look at how long this one was.
Awake == IF platform = "win32" /\ left >= 0 THEN "called" ELSE "woken"

Wake ==
  /\ sleeper = "asleep" /\ now >= wake
  /\ sleeper' = Awake /\ wake' = 0
  /\ UNCHANGED <<now, delay, start, left, remain, lost, loop>>

\* A signal interrupts nanosleep, sleep_for returns early, or Windows' Sleep does,
\* which tells nobody.
WakeEarly ==
  /\ sleeper = "asleep" /\ now < wake
  /\ sleeper' = Awake
  /\ IF platform = "win32" THEN wake' = 0 /\ lost' = lost + (wake - now)
                           ELSE wake' = wake - now /\ UNCHANGED lost
  /\ UNCHANGED <<now, delay, start, left, remain, loop>>

RemainingCpp11 ==
  LET expected_end == nsync_time_add(start, delay) IN
  IF nsync_time_cmp(Clock, expected_end) < 0
  THEN nsync_time_sub(expected_end, Clock) ELSE nsync_time_zero

\* nanosleep fills in the rest when it was interrupted.
RemainingTimespec == IF wake > 0 THEN TimeOf(wake) ELSE nsync_time_zero

RemainingInt32 == AsNsyncTime(IF wake > 0 THEN TimeOf(wake) ELSE nsync_time_zero)

ReturnRemaining ==
  /\ sleeper = "woken" /\ sleeper' = "idle"
  /\ remain' = CASE platform = "c++11" -> RemainingCpp11
                 [] platform = "int32" -> RemainingInt32
                 [] OTHER -> RemainingTimespec
  /\ left' = 0 /\ wake' = 0 /\ delay' = nsync_time_zero /\ start' = nsync_time_zero
  /\ UNCHANGED <<now, lost, loop>>

Tick == now < MaxTime /\ now' = now + 1 /\ UNCHANGED <<sleeper, delay, start, left, wake, remain, lost, loop>>

SleepNext ==
  \/ \E n \in Delays : FirstCall(n)
  \/ AgainForTheRest \/ FallAsleep \/ Wake \/ WakeEarly \/ ReturnRemaining \/ Tick

SleepSpec == SleepInit /\ [][SleepNext]_sleepVars

----------------------------------------------------------------------------

\* What each call may lose to rounding: a 32-bit nsync_time has milliseconds, and
\* the C++ clock a tick.
Loss == CASE platform = "int32" -> NsPerMs [] platform = "c++11" -> ClockTick [] OTHER -> 0

\* A caller that repeats nsync_time_sleep for what it returns until that is zero
\* has slept as long as it wanted, but for the rounding of each call and the time by
\* which Windows' Sleep itself ended early: no interruption, early return, rounding or
\* piece of nsync_nanosleep loses any more.
SleptEnough ==
  sleeper = "idle" /\ sleeps > 0 /\ remain = nsync_time_zero
    => now - first + lost + (sleeps + 1) * Loss >= asked
=============================================================================
