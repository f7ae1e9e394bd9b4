------------------------------ MODULE TimeRep ------------------------------
(***************************************************************************)
(* The representations of nsync_time: struct timespec (platform/posix/src/ *)
(* time_rep.c), the struct with unsigned nanoseconds that debug builds use *)
(* (time_rep_debug.c), and integers of 64 and of 32 bits (platform/        *)
(* num_time/src/time_rep.c), of which the latter count milliseconds.       *)
(* Integers have their width: what does not fit wraps.                     *)
(*                                                                         *)
(* The numbers of nanoseconds in a second and so on are parameters, so that*)
(* small numbers reach every carry and every truncation.                   *)
(***************************************************************************)
EXTENDS Integers

CONSTANTS
  NsPerUs, UsPerMs, MsPerS,  \* 1000 each
  MaxSec,                    \* MAX_INT_TYPE (time_t)
  MaxInt64, MaxInt32,        \* MAX_INT_TYPE (nsync_time), for integers of 8 and 4 bytes
  UintModulus                \* 2^32

ASSUME UnitsAssumption ==
  /\ NsPerUs \in Nat \ {0} /\ UsPerMs \in Nat \ {0} /\ MsPerS \in Nat \ {0}
  /\ MaxSec \in Nat /\ MaxInt64 \in Nat /\ MaxInt32 \in Nat

NsPerMs == NsPerUs * UsPerMs
NSYNC_NS_IN_S_ == NsPerMs * MsPerS

\* An unsigned holds the sum of two numbers of nanoseconds below a second.
ASSUME UintAssumption == UintModulus \in Nat /\ UintModulus >= 2 * NSYNC_NS_IN_S_ - 1

----------------------------------------------------------------------------
(* struct timespec                                                         *)

nsync_time_s_ns(s, ns) == [sec |-> s, nsec |-> ns]

nsync_time_no_deadline == nsync_time_s_ns(MaxSec, NSYNC_NS_IN_S_ - 1)
nsync_time_zero == nsync_time_s_ns(0, 0)

\* Mutant: does not carry when the nanoseconds make exactly a second.
AddCarriesLate(a, b) ==
  IF a.nsec + b.nsec > NSYNC_NS_IN_S_
  THEN nsync_time_s_ns(a.sec + b.sec + 1, a.nsec + b.nsec - NSYNC_NS_IN_S_)
  ELSE nsync_time_s_ns(a.sec + b.sec, a.nsec + b.nsec)

nsync_time_add(a, b) ==
  IF a.nsec + b.nsec >= NSYNC_NS_IN_S_
  THEN nsync_time_s_ns(a.sec + b.sec + 1, a.nsec + b.nsec - NSYNC_NS_IN_S_)
  ELSE nsync_time_s_ns(a.sec + b.sec, a.nsec + b.nsec)

nsync_time_sub(a, b) ==
  IF a.nsec < b.nsec
  THEN nsync_time_s_ns(a.sec - b.sec - 1, a.nsec + NSYNC_NS_IN_S_ - b.nsec)
  ELSE nsync_time_s_ns(a.sec - b.sec, a.nsec - b.nsec)

\* (x > y) - (x < y)
Sign(x, y) == IF x > y THEN 1 ELSE IF x < y THEN -1 ELSE 0

nsync_time_cmp(a, b) ==
  LET cmp == Sign(a.sec, b.sec) IN IF cmp = 0 THEN Sign(a.nsec, b.nsec) ELSE cmp

\* The parts of a number of milliseconds or microseconds.
nsync_time_ms(ms) == <<ms \div MsPerS, NsPerMs * (ms % MsPerS)>>
nsync_time_us(us) == <<us \div (UsPerMs * MsPerS), NsPerUs * (us % (UsPerMs * MsPerS))>>

----------------------------------------------------------------------------
(* The debug representation, with unsigned nanoseconds.                    *)

DebugAdd(a, b) ==
  LET nsec == (a.nsec + b.nsec) % UintModulus IN
  IF nsec >= NSYNC_NS_IN_S_
  THEN nsync_time_s_ns(a.sec + b.sec + 1, nsec - NSYNC_NS_IN_S_)
  ELSE nsync_time_s_ns(a.sec + b.sec, nsec)

DebugSub(a, b) ==
  IF a.nsec < b.nsec
  THEN nsync_time_s_ns(a.sec - b.sec - 1,
                       (((a.nsec + NSYNC_NS_IN_S_) % UintModulus) - b.nsec) % UintModulus)
  ELSE nsync_time_s_ns(a.sec - b.sec, (a.nsec - b.nsec) % UintModulus)

DebugCmp(a, b) ==
  LET cmp == Sign(a.sec, b.sec) IN IF cmp = 0 THEN Sign(a.nsec, b.nsec) ELSE cmp

----------------------------------------------------------------------------
(* Integers of 8 or of 4 bytes.                                            *)

\* C's division, which truncates, and its remainder.
Quotient(x, y) == IF x >= 0 THEN x \div y ELSE -((-x) \div y)
Remainder(x, y) == x - Quotient(x, y) * y

MAX_INT_TYPE(size) == IF size >= 8 THEN MaxInt64 ELSE MaxInt32

\* The signed integer of that size that x, calculated in two's complement, becomes.
Wrapped(size, x) ==
  LET h == MAX_INT_TYPE(size) + 1 IN ((x + h) % (2 * h)) - h

NumS_ns(size, s, ns) ==
  Wrapped(size, IF size >= 8 THEN s * NSYNC_NS_IN_S_ + ns ELSE s * MsPerS + ns \div NsPerMs)

NSYNC_TIME_SEC(size, t) == Quotient(t, IF size >= 8 THEN NSYNC_NS_IN_S_ ELSE MsPerS)

NSYNC_TIME_NSEC(size, t) ==
  IF size >= 8 THEN Remainder(t, NSYNC_NS_IN_S_) ELSE Remainder(t, MsPerS) * NsPerMs

NumAdd(size, a, b) == Wrapped(size, a + b)
NumSub(size, a, b) == Wrapped(size, a - b)
NumCmp(a, b) == Sign(a, b)

----------------------------------------------------------------------------
(* C++11 time points, platform/c++11/src/time_rep_timespec.cc: integers of *)
(* nanoseconds, of which the clock keeps multiples of its tick.            *)

nsync_from_time_point_(tp) ==
  LET sec == Quotient(tp, NSYNC_NS_IN_S_)
  IN  nsync_time_s_ns(sec, tp - sec * NSYNC_NS_IN_S_)

nsync_to_time_point_(t, tick) ==
  LET ns == t.nsec + NSYNC_NS_IN_S_ * t.sec IN Quotient(ns, tick) * tick
=============================================================================
