------------------------------ MODULE TimeCalc ------------------------------
(***************************************************************************)
(* Calculations with times in all representations at once, next to an exact*)
(* count of nanoseconds: an absolute time to which delays are added and    *)
(* from which they are subtracted.                                         *)
(***************************************************************************)
EXTENDS TimeRep

CONSTANTS
  MaxNs,    \* bound: the absolute times considered, in nanoseconds
  MaxMs,    \* bound: delays in milliseconds and microseconds
  MaxSteps  \* bound: operations made one after the other

ASSUME CalcAssumption ==
  /\ MaxNs \in Nat /\ MaxMs \in Nat /\ MaxSteps \in Nat
  /\ MaxNs < (MaxSec + 1) * NSYNC_NS_IN_S_

VARIABLES
  ts, debug, num8, num4,   \* the time in the four representations
  exact,                   \* in nanoseconds
  steps

calcVars == <<ts, debug, num8, num4, exact, steps>>

\* Pairs of seconds and nanoseconds, from which delays are made.
Parts == {nsync_time_ms(n) : n \in 0..MaxMs} \union {nsync_time_us(n) : n \in 0..MaxMs}

CalcInit ==
  \E n \in 0..MaxNs :
    LET s == n \div NSYNC_NS_IN_S_
        ns == n % NSYNC_NS_IN_S_
    IN  /\ ts = nsync_time_s_ns(s, ns) /\ debug = nsync_time_s_ns(s, ns)
        /\ num8 = NumS_ns(8, s, ns) /\ num4 = NumS_ns(4, s, ns)
        /\ exact = n /\ steps = 0

ExactOf(p) == p[1] * NSYNC_NS_IN_S_ + p[2]

Add(p) ==
  /\ steps < MaxSteps /\ exact + ExactOf(p) <= MaxNs
  /\ ts' = nsync_time_add(ts, nsync_time_s_ns(p[1], p[2]))
  /\ debug' = DebugAdd(debug, nsync_time_s_ns(p[1], p[2]))
  /\ num8' = NumAdd(8, num8, NumS_ns(8, p[1], p[2]))
  /\ num4' = NumAdd(4, num4, NumS_ns(4, p[1], p[2]))
  /\ exact' = exact + ExactOf(p) /\ steps' = steps + 1

Subtract(p) ==
  /\ steps < MaxSteps /\ exact >= ExactOf(p)
  /\ ts' = nsync_time_sub(ts, nsync_time_s_ns(p[1], p[2]))
  /\ debug' = DebugSub(debug, nsync_time_s_ns(p[1], p[2]))
  /\ num8' = NumSub(8, num8, NumS_ns(8, p[1], p[2]))
  /\ num4' = NumSub(4, num4, NumS_ns(4, p[1], p[2]))
  /\ exact' = exact - ExactOf(p) /\ steps' = steps + 1

CalcDone == steps = MaxSteps /\ UNCHANGED calcVars

CalcNext == (\E p \in Parts : Add(p) \/ Subtract(p)) \/ CalcDone

CalcSpec == CalcInit /\ [][CalcNext]_calcVars

----------------------------------------------------------------------------

Normal(t) == t.nsec \in 0..NSYNC_NS_IN_S_ - 1
ValueOf(t) == t.sec * NSYNC_NS_IN_S_ + t.nsec

\* nsync_time_add and nsync_time_sub of struct timespec stay normalised and are
\* exact through any series of operations.
TimespecIsExact == Normal(ts) /\ ValueOf(ts) = exact

\* The debug representation computes the same in unsigned arithmetic, although
\* intermediate results go up to the largest that fits.
DebugAgrees == debug = ts

\* Whether a time fits 64 bits; with the margin of the conversions made, 32 bits.
Fits64(n) == n <= MaxInt64
Fits32(n) == n + (steps + 1) * NsPerMs <= MaxInt32 * NsPerMs

\* 64-bit integers are exact whenever the time fits, also after it once did not, and
\* the SEC and NSEC macros then take them apart into the fields of the timespec.
Int64Agrees ==
  Fits64(exact) =>
    /\ num8 = exact
    /\ NSYNC_TIME_SEC(8, num8) = ts.sec /\ NSYNC_TIME_NSEC(8, num8) = ts.nsec

\* 32-bit integers are off by at most a millisecond for every conversion made,
\* whenever the time fits.
Int32IsClose ==
  Fits32(exact) =>
    num4 * NsPerMs - exact \in -(steps + 1) * NsPerMs..(steps + 1) * NsPerMs

\* nsync_time_cmp orders times as their exact values are ordered, in every
\* representation that they fit, and nothing is later than nsync_time_no_deadline.
CmpIsTheOrder ==
  /\ \A n \in 0..MaxNs :
       LET t == nsync_time_s_ns(n \div NSYNC_NS_IN_S_, n % NSYNC_NS_IN_S_) IN
       /\ nsync_time_cmp(ts, t) = Sign(exact, n)
       /\ DebugCmp(debug, t) = Sign(exact, n)
       /\ Fits64(exact) /\ Fits64(n) =>
            NumCmp(num8, NumS_ns(8, t.sec, t.nsec)) = Sign(exact, n)
  /\ nsync_time_cmp(ts, nsync_time_no_deadline) <= 0
  /\ nsync_time_cmp(nsync_time_zero, ts) <= 0

\* Converting a time point, of any sign, to nsync_time keeps the order of time
\* points and loses nothing; converting back never gives a later time and is at
\* most a tick early.
TimePointsConvert ==
  \A n \in -MaxNs..MaxNs :
    LET t == nsync_from_time_point_(n) IN
    /\ ValueOf(t) = n
    /\ nsync_time_cmp(t, nsync_from_time_point_(exact)) = Sign(n, exact)
    /\ \A tick \in 1..NsPerMs :
         LET back == nsync_to_time_point_(t, tick)
         IN  n >= 0 => back <= n /\ n - back < tick

\* All representations of nsync_time calculate, compare and convert as the exact
\* numbers do, within a millisecond per conversion for the 32-bit one and a tick
\* of the clock for time points; the integers, where the time fits them.
TimesAreExact ==
  /\ TimespecIsExact /\ DebugAgrees /\ Int64Agrees /\ Int32IsClose
  /\ CmpIsTheOrder /\ TimePointsConvert
=============================================================================
