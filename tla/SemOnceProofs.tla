--------------------------- MODULE SemOnceProofs ---------------------------
(***************************************************************************)
(* Every semaphore of nsync implements the semaphore of internal/sem.h:    *)
(* the futex one, which also misses no post, for any number of callers of  *)
(* P and of V, and those of the other platforms, which also never report a *)
(* timeout before its deadline.  The times they use are exact in every     *)
(* representation of nsync_time.                                           *)
(*                                                                         *)
(* nsync_once runs the function of a once at most once, and no call returns*)
(* before the function has, for any number of onces and callers.           *)
(***************************************************************************)
EXTENDS SemFutex, SemTimed, TimeCalc, Once, FiniteSetTheorems, SequenceTheorems, TLAPS

-----------------------------------------------------------------------------
(* The futex semaphore.                                                    *)

\* The inductive invariant: how many callers are awake or about to wake one is
\* meaningful only with what each of them knows of the count.
IInv == TypeOK /\ NoMissedPost

\* Types survive every step: a caller of P that is about to swap has seen a
\* positive count, and one about to sleep has seen zero.
LEMMA TypeStep == TypeOK /\ [Next]_vars => TypeOK'
<1> SUFFICES ASSUME TypeOK, [Next]_vars PROVE TypeOK'
  BY Zenon
<1> USE SemAssumption DEF Goto, Calling
<1>1. ASSUME NEW t \in Threads, NEW how \in {"p", "p_with_deadline"}, P(t, how)
      PROVE  TypeOK'
  BY Zenon, <1>1 DEF P, TypeOK
<1>2. ASSUME NEW t \in Threads, Load(t) PROVE TypeOK'
  BY <1>2 DEF Load, AfterLoad, TypeOK
<1>3. ASSUME NEW t \in Threads, FutexWait(t) PROVE TypeOK'
  BY Zenon, <1>3 DEF FutexWait, FutexOutcome, TypeOK
<1>4. ASSUME NEW t \in Threads, TimedOut(t) PROVE TypeOK'
  BY Zenon, <1>4 DEF TimedOut, TypeOK
<1>5. ASSUME NEW t \in Threads, Cas(t) PROVE TypeOK'
  BY <1>5 DEF Cas, CasSucceeds, TypeOK
<1>6. ASSUME NEW t \in Threads, Interrupted(t) PROVE TypeOK'
  BY Zenon, <1>6 DEF Interrupted, TypeOK
<1>7. ASSUME NEW u \in Posters, V(u) PROVE TypeOK'
  BY <1>7 DEF V, TypeOK
<1>8. ASSUME NEW u \in Posters, Wake(u) PROVE TypeOK'
  BY <1>8 DEF Wake, FutexWake, Sleepers, TypeOK
<1>9. CASE UNCHANGED vars
  BY Zenon, <1>9 DEF vars, TypeOK
<1> QED
  BY Zenon, <1>1, <1>2, <1>3, <1>4, <1>5, <1>6, <1>7, <1>8, <1>9 DEF Next, Step

\* The sets that NoMissedPost counts are finite, and one more or one less member
\* changes their sizes by one.
LEMMA Counting ==
  /\ IsFiniteSet(Awake) /\ IsFiniteSet(Waking)
  /\ Cardinality(Awake) \in Nat /\ Cardinality(Waking) \in Nat
  /\ \A t : t \notin Awake => Cardinality(Awake \cup {t}) = Cardinality(Awake) + 1
  /\ \A t \in Awake : Cardinality(Awake \ {t}) = Cardinality(Awake) - 1
  /\ \A u : u \notin Waking => Cardinality(Waking \cup {u}) = Cardinality(Waking) + 1
  /\ \A u \in Waking : Cardinality(Waking \ {u}) = Cardinality(Waking) - 1
<1>1. Awake \subseteq Threads /\ Waking \subseteq Posters
  BY Zenon DEF Awake, Waking
<1>2. IsFiniteSet(Awake) /\ IsFiniteSet(Waking)
  BY Zenon, <1>1, SemAssumption, FS_Subset
<1> QED
  BY Zenon, <1>2, FS_CardinalityType, FS_AddElement, FS_RemoveElement

\* No step leaves a sleeper with a count that nobody is on the way to: a count is
\* added together with a duty to wake, and a caller goes to sleep on zero only.
LEMMA PostStep == IInv /\ [Next]_vars => NoMissedPost'
<1> SUFFICES ASSUME TypeOK, NoMissedPost, [Next]_vars PROVE NoMissedPost'
  BY Zenon DEF IInv
<1> USE SemAssumption DEF Goto, NoMissedPost
<1>0. i \in Nat
  BY Zenon DEF TypeOK
<1>1. ASSUME NEW t \in Threads, NEW how \in {"p", "p_with_deadline"}, P(t, how)
      PROVE  NoMissedPost'
  <2>1. /\ Sleepers' = Sleepers /\ Waking' = Waking /\ i' = i
        /\ Awake' = Awake \cup {t} /\ t \notin Awake
    BY Zenon, <1>1 DEF P, TypeOK, Sleepers, Waking, Awake
  <2> QED
    BY <2>1, <1>0, Counting
<1>2. ASSUME NEW t \in Threads, Load(t) PROVE NoMissedPost'
  <2>1. Sleepers' = Sleepers /\ Waking' = Waking /\ i' = i /\ Awake' = Awake
    BY Zenon, <1>2 DEF Load, AfterLoad, TypeOK, Sleepers, Waking, Awake
  <2> QED
    BY Zenon, <2>1
<1>3. ASSUME NEW t \in Threads, FutexWait(t) PROVE NoMissedPost'
  <2>1. Waking' = Waking /\ i' = i
    BY Zenon, <1>3 DEF FutexWait, TypeOK, Waking
  <2>2. CASE i = seen[t]
    <3>1. i' = 0
      BY Zenon, <1>3, <2>1, <2>2 DEF FutexWait, TypeOK
    <3>2. Cardinality(Awake') \in Nat /\ Cardinality(Waking') \in Nat
      <4>1. Awake' \subseteq Threads /\ Waking' \subseteq Posters
        BY Zenon DEF Awake, Waking
      <4> QED
        BY Zenon, <4>1, FS_Subset, FS_CardinalityType
    <3> QED
      BY <3>1, <3>2
  <2>3. CASE i # seen[t]
    <3>1. Sleepers' = Sleepers /\ Awake' = Awake
      BY Zenon, <1>3, <2>3 DEF FutexWait, FutexOutcome, TypeOK, Sleepers, Awake
    <3> QED
      BY Zenon, <3>1, <2>1
  <2> QED
    BY Zenon, <2>2, <2>3
<1>4. ASSUME NEW t \in Threads, TimedOut(t) PROVE NoMissedPost'
  <2>1. /\ Sleepers # {} /\ Waking' = Waking /\ i' = i /\ Awake' = Awake
    BY Zenon, <1>4 DEF TimedOut, TypeOK, Sleepers, Waking, Awake
  <2> QED
    BY Zenon, <2>1
<1>5. ASSUME NEW t \in Threads, Cas(t) PROVE NoMissedPost'
  <2>1. Sleepers' = Sleepers /\ Waking' = Waking
    BY Zenon, <1>5 DEF Cas, TypeOK, Sleepers, Waking
  <2>2. CASE i = seen[t]
    <3>1. i' = i - 1 /\ t \in Awake /\ Awake' = Awake \ {t}
      BY Zenon, <1>5, <2>2 DEF Cas, CasSucceeds, TypeOK, Awake
    <3> QED
      BY <2>1, <3>1, <1>0, Counting
  <2>3. CASE i # seen[t]
    <3>1. i' = i /\ Awake' = Awake
      BY Zenon, <1>5, <2>3 DEF Cas, CasSucceeds, TypeOK, Awake
    <3> QED
      BY Zenon, <2>1, <3>1
  <2> QED
    BY Zenon, <2>2, <2>3
<1>6. ASSUME NEW t \in Threads, Interrupted(t) PROVE NoMissedPost'
  <2>1. /\ Sleepers # {} /\ Waking' = Waking /\ i' = i
        /\ Awake' = Awake \cup {t} /\ t \notin Awake
    BY Zenon, <1>6 DEF Interrupted, TypeOK, Sleepers, Waking, Awake
  <2> QED
    BY <2>1, <1>0, Counting
<1>7. ASSUME NEW u \in Posters, V(u) PROVE NoMissedPost'
  <2>1. /\ Sleepers' = Sleepers /\ Awake' = Awake /\ i' = i + 1
        /\ Waking' = Waking \cup {u} /\ u \notin Waking
    BY Zenon, <1>7 DEF V, TypeOK, Sleepers, Waking, Awake
  <2> QED
    BY <2>1, <1>0, Counting
<1>8. ASSUME NEW u \in Posters, Wake(u) PROVE NoMissedPost'
  <2>1. u \in Waking /\ i' = i
    BY Zenon, <1>8 DEF Wake, Waking
  <2>2. CASE Sleepers = {}
    <3>1. Sleepers' = {}
      BY Zenon, <1>8, <2>2 DEF Wake, FutexWake, TypeOK, Sleepers
    <3> QED
      BY Zenon, <3>1
  <2>3. CASE Sleepers # {}
    <3>1. PICK t \in Sleepers : pc' = [pc EXCEPT ![t] = "load", ![u] = "idle"]
      BY Zenon, <1>8, <2>3 DEF Wake, FutexWake
    <3>2. Awake' = Awake \cup {t} /\ t \notin Awake /\ Waking' = Waking \ {u}
      BY Zenon, <3>1 DEF TypeOK, Sleepers, Awake, Waking
    <3> QED
      BY <2>1, <2>3, <3>2, <1>0, Counting
  <2> QED
    BY Zenon, <2>2, <2>3
<1>9. CASE UNCHANGED vars
  BY Zenon, <1>9 DEF vars, Sleepers, Awake, Waking
<1> QED
  BY Zenon, <1>1, <1>2, <1>3, <1>4, <1>5, <1>6, <1>7, <1>8, <1>9 DEF Next, Step

\* The semaphore starts with a count of zero and no callers.
LEMMA InitIInv == Init => IInv
  BY SemAssumption DEF Init, IInv, TypeOK, NoMissedPost, Sleepers, Calling

\* The inductive invariant of the futex semaphore.
THEOREM Invariance == Spec => []IInv
<1>1. IInv /\ [Next]_vars => IInv'
  BY Zenon, TypeStep, PostStep DEF IInv
<1> QED
  BY InitIInv, <1>1, PTL DEF Spec

\* No post is missed (nsync_mu_semaphore_v against FUTEX_WAIT in
\* nsync_mu_semaphore_p), for any number of threads.
THEOREM NoPostIsMissed == Spec => []NoMissedPost
<1>1. IInv => NoMissedPost
  BY Zenon DEF IInv
<1> QED
  BY Invariance, <1>1, PTL

\* The futex semaphore implements the semaphore that internal/sem.h describes.
THEOREM Refinement == Spec => ImplementsSemaphore
<1> USE SemAssumption DEF Goto
<1>1. Init => Abstract!Init
  BY Zenon DEF Init, Abstract!Init
<1>2. ASSUME IInv, [Next]_vars
      PROVE  [Abstract!Next]_<<i, call>>
  <2>0. TypeOK
    BY Zenon, <1>2 DEF IInv
  <2>1. ASSUME NEW t \in Threads, NEW how \in {"p", "p_with_deadline"}, P(t, how)
        PROVE  Abstract!Ask(t, how)
    BY Zenon, <2>0, <2>1 DEF P, TypeOK, Calling, Abstract!Ask, Abstract!InP
  <2>2. ASSUME NEW t \in Threads, TimedOut(t) PROVE Abstract!Expire(t)
    BY Zenon, <2>0, <2>2 DEF TimedOut, TypeOK, Abstract!Expire
  <2>3. ASSUME NEW t \in Threads, Cas(t)
        PROVE  Abstract!Acquire(t) \/ UNCHANGED <<i, call>>
    BY Zenon, <2>0, <2>3
       DEF Cas, CasSucceeds, TypeOK, Calling, Abstract!Acquire, Abstract!InP
  <2>4. ASSUME NEW u \in Posters, V(u) PROVE Abstract!Post
    BY <2>0, <2>4 DEF V, TypeOK, Abstract!Post
  <2>5. ASSUME NEW t \in Threads, Load(t) \/ FutexWait(t) \/ Interrupted(t)
        PROVE  UNCHANGED <<i, call>>
    BY Zenon, <2>5 DEF Load, FutexWait, Interrupted
  <2>6. ASSUME NEW u \in Posters, Wake(u) PROVE UNCHANGED <<i, call>>
    BY Zenon, <2>6 DEF Wake
  <2>7. CASE UNCHANGED vars
    BY Zenon, <2>7 DEF vars
  <2> QED
    BY Zenon, <1>2, <2>1, <2>2, <2>3, <2>4, <2>5, <2>6, <2>7
       DEF Next, Step, Abstract!Next, Abstract!InP
<1> QED
  BY <1>1, <1>2, Invariance, PTL DEF Spec, ImplementsSemaphore, Abstract!Spec

-----------------------------------------------------------------------------
(* Semaphores with clocks.                                                  *)

\* A number of nanoseconds has some whole seconds and a rest below a second.
LEMMA DivMod ==
  ASSUME NEW a \in Int, NEW K \in Nat \ {0}
  PROVE  /\ a \div K \in Int /\ a % K \in 0..K - 1
         /\ a = (a \div K) * K + (a % K)
         /\ a >= 0 => a \div K \in Nat
  OBVIOUS

\* Units are positive.
LEMMA Units ==
  /\ NsPerMs \in Nat \ {0} /\ NSYNC_NS_IN_S_ \in Nat \ {0}
  /\ NSYNC_NS_IN_S_ = NsPerMs * MsPerS /\ MsPerS \in Nat \ {0}
<1>1. \A a, b \in Nat \ {0} : a * b \in Nat \ {0}
  OBVIOUS
<1>2. NsPerMs \in Nat \ {0}
  BY Zenon, <1>1, UnitsAssumption DEF NsPerMs
<1>3. NSYNC_NS_IN_S_ \in Nat \ {0}
  BY Zenon, <1>1, <1>2, UnitsAssumption DEF NSYNC_NS_IN_S_
<1> QED
  BY Zenon, <1>2, <1>3, UnitsAssumption DEF NSYNC_NS_IN_S_

\* A second more outweighs any difference of the rests.
LEMMA PairOrder ==
  ASSUME NEW K \in Nat \ {0}, NEW s \in Int, NEW u \in Int, NEW x \in Int, NEW y \in Int,
         x - y < K, s < u
  PROVE  s * K + x < u * K + y
<1>1. u = s + 1 + (u - s - 1) /\ u - s - 1 \in Nat
  OBVIOUS
<1> QED
  BY <1>1

\* nsync_time_cmp compares the values of times.
LEMMA CmpOrder ==
  ASSUME NEW K \in Nat \ {0}, NEW s \in Int, NEW u \in Int, NEW x \in Int, NEW y \in Int,
         s < u => x - y < K, u < s => y - x < K
  PROVE  nsync_time_cmp(nsync_time_s_ns(s, x), nsync_time_s_ns(u, y))
           = Sign(s * K + x, u * K + y)
<1>1. s < u => s * K + x < u * K + y
  BY Zenon, PairOrder
<1>2. u < s => u * K + y < s * K + x
  BY Zenon, PairOrder
<1>3. s * K \in Int /\ u * K \in Int
  OBVIOUS
<1> QED
  BY <1>1, <1>2, <1>3 DEF nsync_time_cmp, nsync_time_s_ns, Sign

\* The seconds and the rest of a number of nanoseconds are determined by it.
LEMMA DivModUnique ==
  ASSUME NEW K \in Nat \ {0}, NEW s \in Int, NEW x \in 0..K - 1
  PROVE  (s * K + x) \div K = s /\ (s * K + x) % K = x
<1>1. s * K + x \in Int
  OBVIOUS
<1>2. PICK q \in Int, r \in 0..K - 1 :
        /\ q = (s * K + x) \div K /\ r = (s * K + x) % K
        /\ q * K + r = s * K + x
  BY Zenon, <1>1, DivMod
<1>3. ~(q < s)
  <2>1. q < s => q * K + r < s * K + x
    BY PairOrder
  <2> QED
    BY <1>1, <1>2, <2>1
<1>4. ~(s < q)
  <2>1. s < q => s * K + x < q * K + r
    BY PairOrder
  <2> QED
    BY <1>1, <1>2, <2>1
<1>5. q = s
  BY <1>3, <1>4
<1>6. r = x
  BY <1>2, <1>5
<1> QED
  BY Zenon, <1>2, <1>5, <1>6

-----------------------------------------------------------------------------
(* The semaphores with clocks.                                             *)

\* A time that was made from a number of nanoseconds, compared with the clock.
TimeType == [sec : Int, nsec : 0..NSYNC_NS_IN_S_ - 1]

\* The locals of a call.
CallType == [at : {"idle", "clock", "wait", "asleep", "timedout"},
             dl : Deadlines \union {Never}, read : TimeType, until : Nat]

\* What a call with locals x and outcome o knows: a timeout happens only in a call
\* with a deadline, and a dispatch semaphore, whose timeouts are not checked, was
\* asked to wait until the deadline itself.
CallKnows(x, o) ==
  /\ x.at = "idle" <=> o \in {"acquired", "expired"}
  /\ x.at # "idle" => (o = "p" <=> x.dl = Never)
  /\ x.at = "asleep" /\ x.dl = Never => x.until = Never
  /\ x.at = "timedout" => x.dl # Never
  /\ platform = "gcd" /\ x.at = "asleep" => x.until = x.dl
  /\ platform = "gcd" /\ x.at = "timedout" => now >= x.dl

Outcomes == {"p", "p_with_deadline", "acquired", "expired"}

\* The most that the semaphore counts to.
Most == IF platform = "win32" \/ HasFlag THEN 1 ELSE MaxCount

\* The inductive invariant of the semaphores with clocks.
TimedInv ==
  /\ platform \in TimedPlatforms /\ count \in 0..Most /\ now \in 0..MaxTime
  /\ th \in [Callers -> CallType] /\ outcome \in [Callers -> Outcomes]
  /\ \A t \in Callers : CallKnows(th[t], outcome[t])

\* Deadlines come before the last moment, which is before no deadline.
LEMMA NeverIsLate ==
  /\ Never \in Nat /\ MaxTime <= Never /\ Deadlines \union {Never} \subseteq Nat
  /\ \A d \in Deadlines : d < MaxTime /\ d # Never
<1>1. \A m \in Nat \ {0} : m * m \in Nat /\ m <= m * m
  OBVIOUS
<1> QED
  BY <1>1, DeadlinesPass DEF Never

\* Time makes a normal timespec of its argument's value.
LEMMA TimeFacts ==
  ASSUME NEW n \in Nat
  PROVE  /\ Time(n) \in TimeType
         /\ Time(n).sec \in Nat /\ Time(n).nsec \in 0..NSYNC_NS_IN_S_ - 1
         /\ Time(n).sec * NSYNC_NS_IN_S_ + Time(n).nsec = n
         /\ Time(n) = nsync_time_s_ns(Time(n).sec, Time(n).nsec)
<1>1. PICK q \in Nat, r \in 0..NSYNC_NS_IN_S_ - 1 :
        /\ q = n \div NSYNC_NS_IN_S_ /\ r = n % NSYNC_NS_IN_S_
        /\ q * NSYNC_NS_IN_S_ + r = n
  BY Units, DivMod
<1>2. Time(n) = nsync_time_s_ns(q, r)
  BY Zenon, <1>1 DEF Time
<1>3. Time(n) = [sec |-> q, nsec |-> r]
  BY Zenon, <1>2 DEF nsync_time_s_ns
<1>4. Time(n).sec = q /\ Time(n).nsec = r
  BY <1>3
<1> QED
  BY <1>1, <1>2, <1>3, <1>4 DEF TimeType

\* The clock is a normal timespec, and none of the clocks is fast.
LEMMA ClockFacts ==
  ASSUME now \in Nat
  PROVE  /\ nsync_time_now \in TimeType
         /\ nsync_time_now = nsync_time_s_ns(nsync_time_now.sec, nsync_time_now.nsec)
         /\ nsync_time_now.sec * NSYNC_NS_IN_S_ + nsync_time_now.nsec <= now
<1>1. CASE platform # "win32"
  BY <1>1, TimeFacts, Units DEF nsync_time_now
<1>2. CASE platform = "win32"
  <2>1. PICK q \in Nat, r \in 0..NSYNC_NS_IN_S_ - 1 :
          /\ q = now \div NSYNC_NS_IN_S_ /\ r = now % NSYNC_NS_IN_S_
          /\ q * NSYNC_NS_IN_S_ + r = now
    BY Units, DivMod
  <2>2. PICK m \in Nat, k \in Nat : m = r \div NsPerMs /\ r = m * NsPerMs + k
    BY Units, DivMod
  <2>3. m * NsPerMs \in Nat /\ m * NsPerMs <= r
    BY <2>2, Units
  <2>4. nsync_time_now = nsync_time_s_ns(q, m * NsPerMs)
    BY Zenon, <1>2, <2>1, <2>2 DEF nsync_time_now, clock_gettime_win32
  <2>5. nsync_time_now = [sec |-> q, nsec |-> m * NsPerMs]
    BY Zenon, <2>4 DEF nsync_time_s_ns
  <2>6. nsync_time_now.sec = q /\ nsync_time_now.nsec = m * NsPerMs
    BY Zenon, <2>5
  <2> QED
    BY <2>1, <2>3, <2>4, <2>5, <2>6, Units DEF TimeType
<1> QED
  BY Zenon, <1>1, <1>2

\* A call that does not wait again after a timeout is past its deadline.
LEMMA NoRetryIsLate ==
  ASSUME TimedInv, NEW t \in Callers, th[t].at = "timedout", ~Retry(t)
  PROVE  now >= th[t].dl
<1>1. now \in Nat /\ th[t].dl \in Nat
  BY NeverIsLate DEF TimedInv, CallType
<1>2. CASE platform = "gcd"
  BY Zenon, <1>2 DEF TimedInv, CallKnows
<1>3. CASE platform # "gcd"
  <2>1. PICK s \in Int, x \in 0..NSYNC_NS_IN_S_ - 1 :
          Time(th[t].dl) = nsync_time_s_ns(s, x) /\ s * NSYNC_NS_IN_S_ + x = th[t].dl
    BY <1>1, TimeFacts
  <2>2. PICK u \in Int, y \in 0..NSYNC_NS_IN_S_ - 1 :
          nsync_time_now = nsync_time_s_ns(u, y) /\ u * NSYNC_NS_IN_S_ + y <= now
    BY Zenon, <1>1, ClockFacts DEF TimeType
  <2>3. nsync_time_cmp(Time(th[t].dl), nsync_time_now)
          = Sign(s * NSYNC_NS_IN_S_ + x, u * NSYNC_NS_IN_S_ + y)
    <3>1. x - y < NSYNC_NS_IN_S_ /\ y - x < NSYNC_NS_IN_S_ /\ x \in Int /\ y \in Int
      BY Units
    <3> QED
      BY <2>1, <2>2, <3>1, CmpOrder, Units
  <2>4. ~(Sign(s * NSYNC_NS_IN_S_ + x, u * NSYNC_NS_IN_S_ + y) > 0)
    BY Zenon, <1>3, <2>3 DEF Retry
  <2>5. u * NSYNC_NS_IN_S_ + y \in Int
    BY Units
  <2> QED
    BY <1>1, <2>1, <2>2, <2>4, <2>5 DEF Sign
<1> QED
  BY Zenon, <1>2, <1>3

\* The system is asked to wait until some moment: never without a deadline, and
\* until the deadline itself with a dispatch semaphore.
LEMMA UntilFacts ==
  ASSUME TimedInv, NEW t \in Callers
  PROVE  /\ Until(th[t]) \in Nat
         /\ th[t].dl = Never => Until(th[t]) = Never
         /\ platform = "gcd" => Until(th[t]) = th[t].dl
<1> DEFINE x == th[t]
<1>1. /\ now \in Nat /\ x.dl \in Nat /\ x.read \in TimeType /\ Never \in Nat
      /\ platform \in TimedPlatforms
  BY NeverIsLate DEF TimedInv, CallType
<1>2. platform = "c++11" => UntilCpp11(x) \in Nat
  <2>1. PICK n \in Nat : n = Time(x.dl).nsec + NSYNC_NS_IN_S_ * Time(x.dl).sec
    BY <1>1, TimeFacts, Units
  <2>2. ASSUME platform = "c++11", NEW tick \in Nat \ {0}, tick = Settings[platform].tick
        PROVE  UntilCpp11(x) \in Nat
    <3>1. n \div tick \in Nat
      BY DivMod
    <3>2. UntilCpp11(x) = (n \div tick) * tick
      BY <2>1, <2>2 DEF UntilCpp11, nsync_to_time_point_, Quotient
    <3> QED
      BY <3>1, <3>2
  <2> QED
    BY Zenon, <2>2, SettingsAssumption DEF TimedPlatforms
<1>3. UntilWin32(x) \in Nat
  <2>1. PICK s \in Int, ns \in 0..NSYNC_NS_IN_S_ - 1, u \in Int, rs \in 0..NSYNC_NS_IN_S_ - 1 :
          Time(x.dl) = nsync_time_s_ns(s, ns) /\ x.read = nsync_time_s_ns(u, rs)
    BY <1>1, TimeFacts, Zenon DEF TimeType, nsync_time_s_ns
  <2>2. CapMs * NsPerMs \in Nat
    BY DeadlinesPass, Units
  <2>3. ASSUME nsync_time_cmp(Time(x.dl), x.read) > 0
        PROVE  Milliseconds(nsync_time_sub(Time(x.dl), x.read)) * NsPerMs \in Nat
    <3>1. s > u \/ (s = u /\ ns > rs)
      BY <2>1, <2>3 DEF nsync_time_cmp, nsync_time_s_ns, Sign
    <3>2. PICK ds \in Nat, dn \in Nat :
            nsync_time_sub(Time(x.dl), x.read) = [sec |-> ds, nsec |-> dn]
      <4>0. /\ Time(x.dl).sec = s /\ Time(x.dl).nsec = ns
            /\ x.read.sec = u /\ x.read.nsec = rs
        <5>1. \A a, b : nsync_time_s_ns(a, b).sec = a /\ nsync_time_s_ns(a, b).nsec = b
          BY DEF nsync_time_s_ns
        <5> QED
          BY Zenon, <2>1, <5>1
      <4>1. CASE ns < rs
        <5>1. s - u - 1 \in Nat /\ ns + NSYNC_NS_IN_S_ - rs \in Nat
          BY <3>1, <4>1, Units
        <5>2. nsync_time_sub(Time(x.dl), x.read)
                = [sec |-> s - u - 1, nsec |-> ns + NSYNC_NS_IN_S_ - rs]
          BY Zenon, <4>0, <4>1 DEF nsync_time_sub, nsync_time_s_ns
        <5> QED
          BY Zenon, <5>1, <5>2
      <4>2. CASE ~(ns < rs)
        <5>1. s - u \in Nat /\ ns - rs \in Nat
          BY <3>1, <4>2, Units
        <5>2. nsync_time_sub(Time(x.dl), x.read) = [sec |-> s - u, nsec |-> ns - rs]
          BY Zenon, <4>0, <4>2 DEF nsync_time_sub, nsync_time_s_ns
        <5> QED
          BY Zenon, <5>1, <5>2
      <4> QED
        BY Zenon, <4>1, <4>2
    <3>3. (dn + NsPerMs - 1) \div NsPerMs \in Nat /\ ds * MsPerS \in Nat
      <4>1. dn + NsPerMs - 1 \in Nat
        BY Units
      <4> QED
        BY <4>1, Units, DivMod
    <3>4. Milliseconds(nsync_time_sub(Time(x.dl), x.read)) \in Nat
      BY <3>2, <3>3 DEF Milliseconds
    <3> QED
      BY <3>4, Units
  <2> QED
    <3>1. nsync_time_cmp(Time(x.dl), x.read) \in {-1, 0, 1}
      BY Zenon DEF nsync_time_cmp, Sign
    <3> QED
      BY <1>1, <2>2, <2>3, <3>1 DEF UntilWin32
<1> QED
  BY Zenon, <1>1, <1>2, <1>3 DEF Until, UntilSemT, UntilGcd, UntilPthread, TimedPlatforms

\* A thread that is not in a call.
LEMMA NoCallFacts == NoCall \in CallType /\ NoCall.at = "idle"
BY Zenon, TimeFacts, NeverIsLate DEF NoCall, CallType

\* A step of one caller is about that caller.
LEMMA CallerStep ==
  ASSUME TimedInv, NEW t \in Callers, NEW x \in CallType, NEW o \in Outcomes,
         th' = [th EXCEPT ![t] = x], outcome' = [outcome EXCEPT ![t] = o],
         CallKnows(x, o), count' \in 0..Most, UNCHANGED <<platform, now>>
  PROVE  TimedInv'
<1>1. platform' = platform /\ now' = now /\ Most' = Most
  BY Zenon DEF Most, HasFlag
<1>2. th' \in [Callers -> CallType] /\ outcome' \in [Callers -> Outcomes]
  BY Zenon DEF TimedInv
<1>3. ASSUME NEW u \in Callers PROVE CallKnows(th[u], outcome[u])'
  BY Zenon, <1>1 DEF TimedInv, CallKnows
<1> QED
  BY Zenon, <1>1, <1>2, <1>3 DEF TimedInv

\* The locals of a call, one by one.
LEMMA CallFacts ==
  ASSUME TimedInv, NEW t \in Callers
  PROVE  /\ th[t] \in CallType /\ th[t].dl \in Deadlines \union {Never}
         /\ th[t].read \in TimeType /\ th[t].until \in Nat
         /\ outcome[t] \in Outcomes /\ CallKnows(th[t], outcome[t])
         /\ outcome = [outcome EXCEPT ![t] = outcome[t]]
BY Zenon DEF TimedInv, CallType

\* Types, and what the calls know, survive every step.
LEMMA TimedStepInv == TimedInv /\ [TimedNext]_timedVars => TimedInv'
<1> SUFFICES ASSUME TimedInv, [TimedNext]_timedVars PROVE TimedInv'
  BY Zenon
<1>0. /\ count \in 0..Most /\ now \in Nat /\ platform \in TimedPlatforms
      /\ Never \in Nat /\ Never \notin Deadlines
  BY NeverIsLate DEF TimedInv
<1>1. ASSUME NEW t \in Callers, NEW d \in Deadlines \union {Never}, TimedP(t, d)
      PROVE  TimedInv'
  <2>1. PICK x \in CallType, o \in Outcomes :
          /\ th' = [th EXCEPT ![t] = x] /\ outcome' = [outcome EXCEPT ![t] = o]
          /\ x.at \in {"clock", "wait"} /\ x.dl = d
          /\ o = IF d = Never THEN "p" ELSE "p_with_deadline"
    <3> DEFINE l == IF platform = "win32" /\ d # Never THEN "clock" ELSE "wait"
               x == [th[t] EXCEPT !.at = l, !.dl = d]
    <3>1. x \in CallType /\ x.at \in {"clock", "wait"} /\ x.dl = d
      BY CallFacts, Zenon DEF CallType
    <3>2. th' = [th EXCEPT ![t] = x]
      BY <1>1, Zenon DEF TimedP, TimedInv, CallType
    <3> HIDE DEF x
    <3> QED
      BY <1>1, <3>1, <3>2, Zenon DEF TimedP, Outcomes
  <2>2. CallKnows(x, o)
    BY Zenon, <2>1 DEF CallKnows
  <2> QED
    BY <1>0, <1>1, <2>1, <2>2, CallerStep, Zenon DEF TimedP
<1>2. ASSUME NEW t \in Callers, ReadClock(t) PROVE TimedInv'
  <2>1. PICK x \in CallType :
          th' = [th EXCEPT ![t] = x] /\ x.at = "wait" /\ x.dl = th[t].dl /\ th[t].at = "clock"
    <3> DEFINE x == [th[t] EXCEPT !.at = "wait", !.read = nsync_time_now]
    <3>1. x \in CallType /\ x.at = "wait" /\ x.dl = th[t].dl
      BY <1>0, CallFacts, ClockFacts, Zenon DEF CallType
    <3>2. th' = [th EXCEPT ![t] = x] /\ th[t].at = "clock"
      BY <1>2, Zenon DEF ReadClock, TimedInv, CallType
    <3> HIDE DEF x
    <3> QED
      BY <3>1, <3>2, Zenon
  <2>2. CallKnows(x, outcome[t])
    BY Zenon, <2>1, CallFacts DEF CallKnows
  <2> QED
    BY <1>0, <1>2, <2>1, <2>2, CallFacts, CallerStep, Zenon DEF ReadClock
<1>3. ASSUME NEW t \in Callers, th[t].at = "wait", Sleep(t), UNCHANGED <<platform, now>>
      PROVE  TimedInv'
  <2>1. PICK x \in CallType :
          /\ th' = [th EXCEPT ![t] = x] /\ x.at = "asleep" /\ x.dl = th[t].dl
          /\ x.until = Until(th[t])
    <3> DEFINE x == [th[t] EXCEPT !.at = "asleep", !.until = Until(th[t])]
    <3>1. x \in CallType /\ x.at = "asleep" /\ x.dl = th[t].dl /\ x.until = Until(th[t])
      BY CallFacts, UntilFacts, Zenon DEF CallType
    <3>2. th' = [th EXCEPT ![t] = x]
      BY <1>3, Zenon DEF Sleep, TimedInv, CallType
    <3> HIDE DEF x
    <3> QED
      BY <3>1, <3>2, Zenon
  <2>2. CallKnows(x, outcome[t])
    BY Zenon, <1>3, <2>1, CallFacts, UntilFacts DEF CallKnows
  <2> QED
    BY <1>0, <1>3, <2>1, <2>2, CallFacts, CallerStep, Zenon DEF Sleep
<1>4. ASSUME NEW t \in Callers, NEW o \in {"acquired", "expired"}, Return(t, o),
             count' \in 0..Most, UNCHANGED <<platform, now>>
      PROVE  TimedInv'
  <2>1. CallKnows(NoCall, o)
    BY Zenon, NoCallFacts DEF CallKnows
  <2> QED
    BY <1>4, <2>1, NoCallFacts, CallerStep, Zenon DEF Return, Outcomes
<1>5. ASSUME NEW t \in Callers, Acquire(t) PROVE TimedInv'
  <2>1. count' \in 0..Most
    BY <1>0, <1>5, DeadlinesPass DEF Acquire, Most
  <2> QED
    BY Zenon, <1>4, <1>5, <2>1 DEF Acquire
<1>6. ASSUME NEW t \in Callers, NEW l \in {"wait", "timedout"}, th[t].at = "asleep",
             th' = [th EXCEPT ![t].at = l], UNCHANGED <<platform, count, now, outcome>>,
             l = "timedout" => th[t].dl # Never /\ (platform = "gcd" => now >= th[t].dl)
      PROVE  TimedInv'
  <2>1. PICK x \in CallType : th' = [th EXCEPT ![t] = x] /\ x.at = l /\ x.dl = th[t].dl
    <3> DEFINE x == [th[t] EXCEPT !.at = l]
    <3>1. x \in CallType /\ x.at = l /\ x.dl = th[t].dl
      BY Zenon, CallFacts DEF CallType
    <3>2. th' = [th EXCEPT ![t] = x]
      BY Zenon, <1>6 DEF TimedInv, CallType
    <3> HIDE DEF x
    <3> QED
      BY <3>1, <3>2, Zenon
  <2>2. CallKnows(x, outcome[t])
    BY Zenon, <1>6, <2>1, CallFacts DEF CallKnows
  <2> QED
    BY <1>0, <1>6, <2>1, <2>2, CallFacts, CallerStep, Zenon
<1>7. ASSUME NEW t \in Callers, TimeOut(t) PROVE TimedInv'
  <2>1. th[t].dl # Never
    BY Zenon, <1>7, CallFacts DEF TimeOut, CallKnows
  <2>2. platform = "gcd" => now >= th[t].dl
    <3>1. platform = "gcd" => th[t].until = th[t].dl
      BY Zenon, <1>7, CallFacts DEF TimeOut, CallKnows
    <3> QED
      BY <1>0, <1>7, <2>1, <3>1, CallFacts, NeverIsLate, DeadlinesPass, SettingsAssumption
         DEF TimeOut
  <2> QED
    BY <1>6, <1>7, <2>1, <2>2, Zenon DEF TimeOut
<1>8. ASSUME NEW t \in Callers, th[t].at = "timedout", WaitAgain(t), UNCHANGED <<platform, now>>
      PROVE  TimedInv'
  <2>1. PICK x \in CallType :
          th' = [th EXCEPT ![t] = x] /\ x.at = "wait" /\ x.dl = th[t].dl
    <3> DEFINE x == [th[t] EXCEPT !.at = "wait", !.until = Never, !.read = nsync_time_now]
    <3>1. x \in CallType /\ x.at = "wait" /\ x.dl = th[t].dl
      BY <1>0, CallFacts, ClockFacts, Zenon DEF CallType
    <3>2. th' = [th EXCEPT ![t] = x]
      BY <1>8, Zenon DEF WaitAgain, TimedInv, CallType
    <3> HIDE DEF x
    <3> QED
      BY <3>1, <3>2, Zenon
  <2>2. CallKnows(x, outcome[t])
    BY Zenon, <1>8, <2>1, CallFacts DEF CallKnows
  <2> QED
    BY <1>0, <1>8, <2>1, <2>2, CallFacts, CallerStep, Zenon DEF WaitAgain
<1>9. ASSUME NEW t \in Callers, AfterTimeOut(t) \/ FlagTimeOut(t) PROVE TimedInv'
  <2>1. CASE Retry(t)
    BY Zenon, <1>8, <1>9, <2>1 DEF AfterTimeOut, FlagTimeOut
  <2>2. CASE ~Retry(t)
    <3>1. 0 \in 0..Most
      BY <1>0, DeadlinesPass DEF Most
    <3>2. /\ Return(t, "acquired") \/ Return(t, "expired")
          /\ count' \in {0, count} /\ UNCHANGED <<platform, now>>
      BY Zenon, <1>9, <2>2 DEF AfterTimeOut, FlagTimeOut, TakeFlag
    <3> QED
      BY Zenon, <1>0, <1>4, <3>1, <3>2
  <2> QED
    BY Zenon, <2>1, <2>2
<1>10. CASE TimedV
  <2>1. CASE HasFlag
    <3>1. count' = 1 /\ th' = NotifyAll /\ UNCHANGED <<platform, now, outcome>>
      BY Zenon, <1>10, <2>1 DEF TimedV, PostFlag, HasFlag
    <3>2. ASSUME NEW t \in Callers
          PROVE  /\ th'[t] \in CallType /\ th'[t].dl = th[t].dl
                 /\ th'[t].at = th[t].at \/ (th[t].at = "asleep" /\ th'[t].at = "wait")
                 /\ th'[t].until = th[t].until
      BY Zenon, <3>1, CallFacts DEF NotifyAll, CallType
    <3>3. th' \in [Callers -> CallType]
      BY Zenon, <3>1, <3>2 DEF NotifyAll
    <3>4. ASSUME NEW t \in Callers PROVE CallKnows(th[t], outcome[t])'
      BY <3>1, <3>2, CallFacts DEF CallKnows
    <3>5. Most' = Most /\ Most = 1
      BY Zenon, <3>1, <2>1 DEF Most, HasFlag
    <3> QED
      BY <1>0, <3>1, <3>3, <3>4, <3>5 DEF TimedInv
  <2>2. CASE ~HasFlag
    <3>1. /\ count' \in 0..Most /\ Most' = Most
          /\ UNCHANGED <<th, platform, now, outcome>>
      BY <1>0, <1>10, <2>2, DeadlinesPass
         DEF TimedV, PostedSemT, PostedGcd, PostedWin32, HasFlag, TimedPlatforms, Most
    <3> QED
      BY Zenon, <3>1 DEF TimedInv, CallKnows
  <2> QED
    BY Zenon, <2>1, <2>2
<1>11. CASE Tick
  <2>1. /\ now' \in 0..MaxTime /\ now' >= now /\ Most' = Most
        /\ UNCHANGED <<platform, count, th, outcome>>
    BY <1>0, <1>11, DeadlinesPass DEF Tick, TimedInv, Most, HasFlag
  <2>2. ASSUME NEW t \in Callers PROVE CallKnows(th[t], outcome[t])'
    <3>1. CallKnows(th[t], outcome[t]) /\ th[t].dl \in Nat
      BY Zenon, CallFacts, NeverIsLate
    <3> QED
      BY <1>0, <2>1, <3>1, DeadlinesPass DEF CallKnows
  <2> QED
    BY Zenon, <2>1, <2>2 DEF TimedInv
<1>12. CASE UNCHANGED timedVars
  BY Zenon, <1>12 DEF timedVars, TimedInv, CallKnows, Most, HasFlag
<1>13. ASSUME NEW t \in Callers, Wait(t) \/ FlagWait(t) PROVE TimedInv'
  <2>1. 0 \in 0..Most
    BY DeadlinesPass DEF Most
  <2>2. /\ th[t].at = "wait" /\ UNCHANGED <<platform, now>>
        /\ Sleep(t) \/ (Return(t, "acquired") /\ count' = 0)
    BY Zenon, <1>13 DEF Wait, FlagWait, TakeFlag
  <2> QED
    BY Zenon, <1>3, <1>4, <2>1, <2>2
<1>14. ASSUME NEW t \in Callers, Interrupt(t) PROVE TimedInv'
  BY <1>6, <1>14, Zenon DEF Interrupt
<1> QED
  BY SMTT(30), <1>1, <1>2, <1>5, <1>7, <1>9, <1>10, <1>11, <1>12, <1>13, <1>14
     DEF TimedNext, TimedStep

\* All the semaphores start with a count of zero and no calls.
LEMMA TimedInitInv == TimedInit /\ platform \in TimedPlatforms => TimedInv
<1> SUFFICES ASSUME TimedInit, platform \in TimedPlatforms PROVE TimedInv
  BY Zenon
<1>1. CallKnows(NoCall, "acquired")
  BY Zenon, NoCallFacts DEF CallKnows
<1>2. 0 \in 0..Most /\ 0 \in 0..MaxTime
  BY DeadlinesPass DEF Most
<1> QED
  BY Zenon, <1>1, <1>2, NoCallFacts DEF TimedInit, TimedInv, Outcomes

\* What the calls of the five semaphores know, always.
THEOREM TimedInvariance == TimedSpec => []TimedInv
  BY TimedInitInv, TimedStepInv, PTL DEF TimedSpec

\* nsync_mu_semaphore_p_with_deadline of POSIX semaphores, Windows, dispatch
\* semaphores, pthreads and C++11 reports a timeout only when it is due, whatever
\* the deadlines, the resolution of the clocks and the early ends of waits.
THEOREM TimeoutsAreTrue == TimedSpec => TimeoutIsTrue
<1>1. TimedInv => TimedTypeOK
  BY Zenon DEF TimedInv, TimedTypeOK, CallType, CallKnows, TimeType, Most
<1>2. ASSUME TimedInv, TimedNext PROVE NoEarlyTimeout /\ NoTimeoutWithCount
  <2> SUFFICES ASSUME NEW t \in Callers, outcome[t] # "expired", outcome'[t] = "expired"
               PROVE  now >= th[t].dl /\ (HasFlag => count = 0)
    BY Zenon DEF NoEarlyTimeout, NoTimeoutWithCount
  <2>1. AfterTimeOut(t) \/ FlagTimeOut(t)
    BY <1>2, ZenonT(30) DEF TimedNext, TimedStep, TimedP, ReadClock, Wait, FlagWait, Acquire,
       Interrupt,
                TimeOut, AfterTimeOut, FlagTimeOut, TimedV, PostFlag, Tick, TakeFlag, Return,
                Sleep, WaitAgain, TimedInv, Outcomes
  <2>2. th[t].at = "timedout" /\ ~Retry(t)
    BY Zenon, <2>1 DEF AfterTimeOut, FlagTimeOut, WaitAgain
  <2>3. now >= th[t].dl
    BY Zenon, <1>2, <2>2, NoRetryIsLate
  <2>4. HasFlag => count = 0
    BY Zenon, <1>2, <2>1, <2>2 DEF AfterTimeOut, FlagTimeOut, FlagIsSet, TakeFlag, Return,
       TimedInv, Outcomes
  <2> QED
    BY Zenon, <2>3, <2>4
<1>3. TimedInv /\ TimedInv' /\ [TimedNext]_timedVars
        => [TimedTypeOK' /\ NoEarlyTimeout /\ NoTimeoutWithCount]_timedVars
  <2>1. TimedInv' => TimedTypeOK'
    BY <1>1, PTL
  <2> QED
    BY Zenon, <1>2, <2>1
<1> QED
  BY <1>1, <1>3, TimedInvariance, PTL DEF TimedSpec, TimeoutIsTrue

\* Each of them implements the semaphore that internal/sem.h describes.
THEOREM TimedRefinement == TimedSpec => TimedImplementsSemaphore
<1>1. TimedInit => TimedAbstract!Init
  BY Zenon DEF TimedInit, TimedAbstract!Init
<1>2. ASSUME TimedInv, [TimedNext]_timedVars
      PROVE  [TimedAbstract!Next]_<<count, outcome>>
  <2> USE <1>2, NeverIsLate, DeadlinesPass DEF TimedInv, CallKnows, Most, Outcomes
  <2>1. ASSUME NEW t \in Callers, NEW d \in Deadlines \union {Never}, TimedP(t, d)
        PROVE  \E how \in TimedAbstract!InP : TimedAbstract!Ask(t, how)
    BY <2>1, Zenon DEF TimedP, TimedAbstract!Ask, TimedAbstract!InP
  <2>2. ASSUME NEW t \in Callers, FlagWait(t)
        PROVE  TimedAbstract!Acquire(t) \/ UNCHANGED <<count, outcome>>
    BY <2>2 DEF FlagWait, TakeFlag, Return, Sleep, HasFlag,
                TimedAbstract!Acquire, TimedAbstract!InP
  <2>3. ASSUME NEW t \in Callers, Acquire(t) PROVE TimedAbstract!Acquire(t)
    BY Zenon, <2>3 DEF Acquire, Return, TimedAbstract!Acquire, TimedAbstract!InP
  <2>4. ASSUME NEW t \in Callers, AfterTimeOut(t)
        PROVE  TimedAbstract!Expire(t) \/ UNCHANGED <<count, outcome>>
    BY Zenon, <2>4 DEF AfterTimeOut, Return, WaitAgain, TimedAbstract!Expire
  <2>5. ASSUME NEW t \in Callers, FlagTimeOut(t)
        PROVE  \/ TimedAbstract!Expire(t) \/ TimedAbstract!Acquire(t)
               \/ UNCHANGED <<count, outcome>>
    BY <2>5 DEF FlagTimeOut, FlagIsSet, TakeFlag, Return, WaitAgain, HasFlag,
                TimedAbstract!Expire, TimedAbstract!Acquire, TimedAbstract!InP
  <2>6. ASSUME TimedV PROVE TimedAbstract!Post
    BY <2>6 DEF TimedV, PostFlag, PostedSemT, PostedGcd, PostedWin32, HasFlag,
                TimedPlatforms, TimedAbstract!Post
  <2>7. ASSUME NEW t \in Callers, ReadClock(t) \/ Wait(t) \/ TimeOut(t) \/ Interrupt(t)
        PROVE  UNCHANGED <<count, outcome>>
    BY Zenon, <2>7 DEF ReadClock, Wait, Sleep, TimeOut, Interrupt
  <2>8. CASE Tick \/ UNCHANGED timedVars
    BY Zenon, <2>8 DEF Tick, timedVars
  <2> QED
    BY Zenon, <2>1, <2>2, <2>3, <2>4, <2>5, <2>6, <2>7, <2>8
       DEF TimedNext, TimedStep, TimedAbstract!Next
<1> QED
  BY <1>1, <1>2, TimedInvariance, PTL
     DEF TimedSpec, TimedImplementsSemaphore, TimedAbstract!Spec

-----------------------------------------------------------------------------
(* Calculations with times.                                                *)

\* A count of milliseconds is off by at most one for every conversion made.
Close(k, e, made) ==
  k * NsPerMs - e <= (made + 1) * NsPerMs /\ e - k * NsPerMs <= (made + 1) * NsPerMs

\* The structs have their exact values.  The integers have lost nothing but what does
\* not fit: they are what the exact number, and a close number of milliseconds, wrap to.
CalcInv ==
  /\ exact \in 0..MaxNs /\ steps \in Nat
  /\ ts = Time(exact) /\ debug = ts
  /\ num8 = Wrapped(8, exact)
  /\ \E k \in Int : num4 = Wrapped(4, k) /\ Close(k, exact, steps)

\* A number below the modulus is its own remainder.
LEMMA ModSmall ==
  ASSUME NEW m \in Nat \ {0}, NEW n \in 0..m - 1
  PROVE  n % m = n /\ n \div m = 0
<1>1. (0 * m + n) % m = n /\ (0 * m + n) \div m = 0
  BY DivModUnique
<1>2. 0 * m + n = n
  OBVIOUS
<1> QED
  BY Zenon, <1>1, <1>2

\* Time of a pair of seconds and a rest.
LEMMA TimeOfPair ==
  ASSUME NEW s \in Int, NEW x \in 0..NSYNC_NS_IN_S_ - 1
  PROVE  Time(s * NSYNC_NS_IN_S_ + x) = [sec |-> s, nsec |-> x]
BY Units, DivModUnique, Zenon DEF Time, nsync_time_s_ns

\* nsync_time_ms and nsync_time_us give whole seconds and a rest below a second.
LEMMA PartsFacts ==
  ASSUME NEW p \in Parts
  PROVE  p[1] \in Nat /\ p[2] \in 0..NSYNC_NS_IN_S_ - 1 /\ ExactOf(p) \in Nat
<1>1. ASSUME NEW n \in Nat, NEW a \in Nat \ {0}, NEW b \in Nat \ {0},
             a * b = NSYNC_NS_IN_S_
      PROVE  n \div b \in Nat /\ a * (n % b) \in 0..NSYNC_NS_IN_S_ - 1
  <2>1. PICK r \in 0..b - 1 : r = n % b
    BY DivMod
  <2>2. PICK c \in Nat : b - 1 = r + c
    BY <2>1
  <2>3. a * b = a * (r + c + 1) /\ a * (r + c + 1) = a * r + a * c + a
    BY <2>2
  <2>4. a * r \in Nat /\ a * c \in Nat
    OBVIOUS
  <2> QED
    <3>1. a * r \in 0..NSYNC_NS_IN_S_ - 1
      BY <1>1, <2>3, <2>4
    <3>2. n \div b \in Nat
      BY DivMod
    <3> QED
      BY Zenon, <2>1, <3>1, <3>2
<1>2. NsPerUs * (UsPerMs * MsPerS) = NSYNC_NS_IN_S_ /\ UsPerMs * MsPerS \in Nat \ {0}
  <2>1. \A x, y, z \in Nat \ {0} : x * (y * z) = (x * y) * z /\ y * z \in Nat \ {0}
    OBVIOUS
  <2> QED
    BY Zenon, <2>1, UnitsAssumption DEF NSYNC_NS_IN_S_, NsPerMs
<1>3. p[1] \in Nat /\ p[2] \in 0..NSYNC_NS_IN_S_ - 1
  <2>1. CASE p \in {nsync_time_ms(n) : n \in 0..MaxMs}
    <3>1. PICK n \in 0..MaxMs : p = nsync_time_ms(n)
      BY Zenon, <2>1
    <3>2. n \in Nat
      BY CalcAssumption
    <3> QED
      BY <1>1, <3>1, <3>2, Units, UnitsAssumption, Zenon DEF nsync_time_ms
  <2>2. CASE p \in {nsync_time_us(n) : n \in 0..MaxMs}
    <3>1. PICK n \in 0..MaxMs : p = nsync_time_us(n)
      BY Zenon, <2>2
    <3>2. n \in Nat
      BY CalcAssumption
    <3> QED
      BY <1>1, <1>2, <3>1, <3>2, UnitsAssumption, Zenon DEF nsync_time_us
  <2> QED
    BY Zenon, <2>1, <2>2 DEF Parts
<1> QED
  BY <1>3, Units DEF ExactOf

\* Wrapping at h = MAX_INT_TYPE + 1.
WrapAt(h, x) == ((x + h) % (2 * h)) - h

\* A number that differs from x by whole turns and fits is what x wraps to.
LEMMA WrapUnique ==
  ASSUME NEW h \in Nat \ {0}, NEW q \in Int, NEW v \in Int, -h <= v, v < h
  PROVE  WrapAt(h, v + q * (2 * h)) = v
<1>1. PICK M \in Nat \ {0} : M = 2 * h
  OBVIOUS
<1>2. PICK r \in 0..M - 1 : r = v + h
  BY <1>1
<1>3. (q * M + r) % M = r
  BY Zenon, DivModUnique
<1>4. v + q * M + h = q * M + r
  <2>1. q * M \in Int
    OBVIOUS
  <2> QED
    BY <1>2, <2>1
<1>5. r - h = v
  BY <1>2
<1>6. WrapAt(h, v + q * (2 * h)) = ((v + q * M + h) % M) - h
  BY Zenon, <1>1 DEF WrapAt
<1> QED
  BY Zenon, <1>3, <1>4, <1>5, <1>6

\* Wrapping takes off whole turns, and the result fits.
LEMMA WrapFacts ==
  ASSUME NEW h \in Nat \ {0}, NEW x \in Int
  PROVE  \E q \in Int, v \in Int :
           WrapAt(h, x) = v /\ x = v + q * (2 * h) /\ -h <= v /\ v < h
<1>1. PICK M \in Nat \ {0} : M = 2 * h
  OBVIOUS
<1>2. x + h \in Int
  OBVIOUS
<1>3. PICK q \in Int, r \in 0..M - 1 : r = (x + h) % M /\ x + h = q * M + r
  BY Zenon, <1>2, DivMod
<1>4. WrapAt(h, x) = r - h
  BY Zenon, <1>1, <1>3 DEF WrapAt
<1>5. r - h \in Int /\ -h <= r - h /\ r - h < h /\ x = (r - h) + q * M
  <2>1. q * M \in Int
    OBVIOUS
  <2> QED
    BY <1>1, <1>3, <2>1
<1> QED
  BY Zenon, <1>1, <1>4, <1>5

\* Adding and subtracting what numbers wrap to gives what the sum and the difference
\* wrap to.
LEMMA WrapSums ==
  ASSUME NEW h \in Nat \ {0}, NEW x \in Int, NEW y \in Int
  PROVE  /\ WrapAt(h, WrapAt(h, x) + WrapAt(h, y)) = WrapAt(h, x + y)
         /\ WrapAt(h, WrapAt(h, x) - WrapAt(h, y)) = WrapAt(h, x - y)
<1>1. PICK q \in Int, v \in Int : WrapAt(h, x) = v /\ x = v + q * (2 * h)
  BY Zenon, WrapFacts
<1>2. PICK p \in Int, w \in Int : WrapAt(h, y) = w /\ y = w + p * (2 * h)
  BY Zenon, WrapFacts
<1>3. WrapAt(h, v + w) = WrapAt(h, x + y)
  <2>1. x + y \in Int
    OBVIOUS
  <2>2. PICK o \in Int, u \in Int :
          WrapAt(h, x + y) = u /\ x + y = u + o * (2 * h) /\ -h <= u /\ u < h
    BY Zenon, <2>1, WrapFacts
  <2>3. v + w = u + (o - q - p) * (2 * h) /\ o - q - p \in Int
    <3>1. \A M \in Nat : (o - q - p) * M = o * M - q * M - p * M
      OBVIOUS
    <3> QED
      BY <1>1, <1>2, <2>2, <3>1
  <2> QED
    BY Zenon, <2>2, <2>3, WrapUnique
<1>4. WrapAt(h, v - w) = WrapAt(h, x - y)
  <2>1. x - y \in Int
    OBVIOUS
  <2>2. PICK o \in Int, u \in Int :
          WrapAt(h, x - y) = u /\ x - y = u + o * (2 * h) /\ -h <= u /\ u < h
    BY Zenon, <2>1, WrapFacts
  <2>3. v - w = u + (o - q + p) * (2 * h) /\ o - q + p \in Int
    <3>1. \A M \in Nat : (o - q + p) * M = o * M - q * M + p * M
      OBVIOUS
    <3> QED
      BY <1>1, <1>2, <2>2, <3>1
  <2> QED
    BY Zenon, <2>2, <2>3, WrapUnique
<1> QED
  BY Zenon, <1>1, <1>2, <1>3, <1>4

\* What fits does not change.
LEMMA WrapFits ==
  ASSUME NEW h \in Nat \ {0}, NEW x \in Int, -h <= x, x < h
  PROVE  WrapAt(h, x) = x
<1>1. x + 0 * (2 * h) = x /\ 0 \in Int
  OBVIOUS
<1>2. WrapAt(h, x + 0 * (2 * h)) = x
  BY Zenon, <1>1, WrapUnique
<1> QED
  BY Zenon, <1>1, <1>2

\* So it is for the integers of either size.
LEMMA WrappedSums ==
  ASSUME NEW size \in {4, 8}, NEW x \in Int, NEW y \in Int
  PROVE  /\ NumAdd(size, Wrapped(size, x), Wrapped(size, y)) = Wrapped(size, x + y)
         /\ NumSub(size, Wrapped(size, x), Wrapped(size, y)) = Wrapped(size, x - y)
<1>1. MAX_INT_TYPE(size) + 1 \in Nat \ {0}
  BY UnitsAssumption DEF MAX_INT_TYPE
<1> QED
  BY Zenon, <1>1, WrapSums DEF NumAdd, NumSub, Wrapped, WrapAt

\* A time that fits is not changed.
LEMMA WrappedFits ==
  ASSUME NEW size \in {4, 8}, NEW x \in Int, -MAX_INT_TYPE(size) <= x, x <= MAX_INT_TYPE(size)
  PROVE  Wrapped(size, x) = x
<1>1. PICK h \in Nat \ {0} : h = MAX_INT_TYPE(size) + 1 /\ -h <= x /\ x < h
  BY UnitsAssumption DEF MAX_INT_TYPE
<1>2. WrapAt(h, x) = x
  BY Zenon, <1>1, WrapFits
<1> QED
  BY Zenon, <1>1, <1>2 DEF Wrapped, WrapAt

\* What conversion to 64 bits, and to 32, makes of seconds and a rest.
LEMMA NumFacts ==
  ASSUME NEW s \in Nat, NEW x \in 0..NSYNC_NS_IN_S_ - 1
  PROVE  /\ NumS_ns(8, s, x) = Wrapped(8, s * NSYNC_NS_IN_S_ + x)
         /\ \E m \in Int : /\ NumS_ns(4, s, x) = Wrapped(4, m)
                           /\ m * NsPerMs <= s * NSYNC_NS_IN_S_ + x
                           /\ s * NSYNC_NS_IN_S_ + x <= m * NsPerMs + NsPerMs
<1>1. PICK q \in Nat, r \in 0..NsPerMs - 1 : q = x \div NsPerMs /\ x = q * NsPerMs + r
  BY Units, DivMod
<1>2. /\ NumS_ns(4, s, x) = Wrapped(4, s * MsPerS + q)
      /\ NumS_ns(8, s, x) = Wrapped(8, s * NSYNC_NS_IN_S_ + x)
  <2>1. 8 >= 8 /\ ~(4 >= 8)
    OBVIOUS
  <2> QED
    BY Zenon, <1>1, <2>1 DEF NumS_ns
<1>3. (s * MsPerS + q) * NsPerMs = s * NSYNC_NS_IN_S_ + q * NsPerMs
  BY Units
<1>4. s * NSYNC_NS_IN_S_ \in Nat /\ q * NsPerMs \in Nat /\ s * MsPerS \in Nat
  BY Units
<1>5. PICK m \in Int : m = s * MsPerS + q
  BY <1>4
<1>6. m * NsPerMs <= s * NSYNC_NS_IN_S_ + x /\ s * NSYNC_NS_IN_S_ + x <= m * NsPerMs + NsPerMs
  BY <1>1, <1>3, <1>4, <1>5, Units
<1> QED
  BY Zenon, <1>2, <1>5, <1>6

\* Adding a delay adds its value.
LEMMA AddFacts ==
  ASSUME NEW a \in Nat, NEW s \in Nat, NEW x \in 0..NSYNC_NS_IN_S_ - 1
  PROVE  /\ nsync_time_add(Time(a), nsync_time_s_ns(s, x)) = Time(a + (s * NSYNC_NS_IN_S_ + x))
         /\ DebugAdd(Time(a), nsync_time_s_ns(s, x)) = Time(a + (s * NSYNC_NS_IN_S_ + x))
<1>1. PICK q \in Nat, r \in 0..NSYNC_NS_IN_S_ - 1 :
        Time(a) = [sec |-> q, nsec |-> r] /\ a = q * NSYNC_NS_IN_S_ + r
  BY Zenon, TimeFacts DEF nsync_time_s_ns
<1>2. (r + x) % UintModulus = r + x
  BY ModSmall, UintAssumption, Units
<1>3. CASE r + x >= NSYNC_NS_IN_S_
  <2>1. a + (s * NSYNC_NS_IN_S_ + x) = (q + s + 1) * NSYNC_NS_IN_S_ + (r + x - NSYNC_NS_IN_S_)
    <3>1. \A K \in Nat : (q + s + 1) * K = q * K + s * K + K
      OBVIOUS
    <3> QED
      BY <1>1, <3>1, Units
  <2>2. r + x - NSYNC_NS_IN_S_ \in 0..NSYNC_NS_IN_S_ - 1 /\ q + s + 1 \in Int
    BY <1>3, Units
  <2>3. Time(a + (s * NSYNC_NS_IN_S_ + x)) = [sec |-> q + s + 1, nsec |-> r + x - NSYNC_NS_IN_S_]
    BY Zenon, <2>1, <2>2, TimeOfPair
  <2>5. nsync_time_add(Time(a), nsync_time_s_ns(s, x)) = Time(a + (s * NSYNC_NS_IN_S_ + x))
    BY <1>1, <1>3, <2>3 DEF nsync_time_add, nsync_time_s_ns
  <2>6. DebugAdd(Time(a), nsync_time_s_ns(s, x)) = Time(a + (s * NSYNC_NS_IN_S_ + x))
    <3>1. DebugAdd([sec |-> q, nsec |-> r], [sec |-> s, nsec |-> x])
            = IF r + x >= NSYNC_NS_IN_S_
              THEN [sec |-> q + s + 1, nsec |-> r + x - NSYNC_NS_IN_S_]
              ELSE [sec |-> q + s, nsec |-> r + x]
      BY <1>2, Units DEF DebugAdd, nsync_time_s_ns
    <3> QED
      BY Zenon, <1>1, <1>3, <2>3, <3>1 DEF nsync_time_s_ns
  <2> QED
    BY Zenon, <2>5, <2>6
<1>4. CASE ~(r + x >= NSYNC_NS_IN_S_)
  <2>1. a + (s * NSYNC_NS_IN_S_ + x) = (q + s) * NSYNC_NS_IN_S_ + (r + x)
    BY <1>1, Units
  <2>2. r + x \in 0..NSYNC_NS_IN_S_ - 1 /\ q + s \in Int
    BY <1>4, Units
  <2>3. Time(a + (s * NSYNC_NS_IN_S_ + x)) = [sec |-> q + s, nsec |-> r + x]
    BY Zenon, <2>1, <2>2, TimeOfPair
  <2>5. nsync_time_add(Time(a), nsync_time_s_ns(s, x)) = Time(a + (s * NSYNC_NS_IN_S_ + x))
    BY <1>1, <1>4, <2>3 DEF nsync_time_add, nsync_time_s_ns
  <2>6. DebugAdd(Time(a), nsync_time_s_ns(s, x)) = Time(a + (s * NSYNC_NS_IN_S_ + x))
    BY <1>1, <1>2, <1>4, <2>3 DEF DebugAdd, nsync_time_s_ns
  <2> QED
    BY Zenon, <2>5, <2>6
<1> QED
  BY Zenon, <1>3, <1>4

\* Subtracting a delay subtracts its value.
LEMMA SubFacts ==
  ASSUME NEW a \in Nat, NEW s \in Nat, NEW x \in 0..NSYNC_NS_IN_S_ - 1
  PROVE  /\ nsync_time_sub(Time(a), nsync_time_s_ns(s, x)) = Time(a - (s * NSYNC_NS_IN_S_ + x))
         /\ DebugSub(Time(a), nsync_time_s_ns(s, x)) = Time(a - (s * NSYNC_NS_IN_S_ + x))
<1>1. PICK q \in Nat, r \in 0..NSYNC_NS_IN_S_ - 1 :
        Time(a) = [sec |-> q, nsec |-> r] /\ a = q * NSYNC_NS_IN_S_ + r
  BY Zenon, TimeFacts DEF nsync_time_s_ns
<1>2. CASE r < x
  <2>1. a - (s * NSYNC_NS_IN_S_ + x) = (q - s - 1) * NSYNC_NS_IN_S_ + (r + NSYNC_NS_IN_S_ - x)
    <3>1. \A K \in Nat : (q - s - 1) * K = q * K - s * K - K
      OBVIOUS
    <3> QED
      BY <1>1, <3>1, Units
  <2>2. r + NSYNC_NS_IN_S_ - x \in 0..NSYNC_NS_IN_S_ - 1 /\ q - s - 1 \in Int
    BY <1>2, Units
  <2>3. Time(a - (s * NSYNC_NS_IN_S_ + x)) = [sec |-> q - s - 1, nsec |-> r + NSYNC_NS_IN_S_ - x]
    BY Zenon, <2>1, <2>2, TimeOfPair
  <2>4. /\ (r + NSYNC_NS_IN_S_) % UintModulus = r + NSYNC_NS_IN_S_
        /\ (r + NSYNC_NS_IN_S_ - x) % UintModulus = r + NSYNC_NS_IN_S_ - x
    BY <1>2, <2>2, ModSmall, UintAssumption, Units
  <2>5. nsync_time_sub(Time(a), nsync_time_s_ns(s, x)) = Time(a - (s * NSYNC_NS_IN_S_ + x))
    BY <1>1, <1>2, <2>3 DEF nsync_time_sub, nsync_time_s_ns
  <2>6. DebugSub(Time(a), nsync_time_s_ns(s, x)) = Time(a - (s * NSYNC_NS_IN_S_ + x))
    <3>1. DebugSub([sec |-> q, nsec |-> r], [sec |-> s, nsec |-> x])
            = [sec |-> q - s - 1, nsec |-> r + NSYNC_NS_IN_S_ - x]
      BY <1>2, <2>4, Units DEF DebugSub, nsync_time_s_ns
    <3> QED
      BY Zenon, <1>1, <2>3, <3>1 DEF nsync_time_s_ns
  <2> QED
    BY Zenon, <2>5, <2>6
<1>3. CASE ~(r < x)
  <2>1. a - (s * NSYNC_NS_IN_S_ + x) = (q - s) * NSYNC_NS_IN_S_ + (r - x)
    BY <1>1, Units
  <2>2. r - x \in 0..NSYNC_NS_IN_S_ - 1 /\ q - s \in Int
    BY <1>3, Units
  <2>3. Time(a - (s * NSYNC_NS_IN_S_ + x)) = [sec |-> q - s, nsec |-> r - x]
    BY Zenon, <2>1, <2>2, TimeOfPair
  <2>4. (r - x) % UintModulus = r - x
    BY <2>2, ModSmall, UintAssumption, Units
  <2>5. nsync_time_sub(Time(a), nsync_time_s_ns(s, x)) = Time(a - (s * NSYNC_NS_IN_S_ + x))
    BY <1>1, <1>3, <2>3 DEF nsync_time_sub, nsync_time_s_ns
  <2>6. DebugSub(Time(a), nsync_time_s_ns(s, x)) = Time(a - (s * NSYNC_NS_IN_S_ + x))
    BY <1>1, <1>3, <2>3, <2>4 DEF DebugSub, nsync_time_s_ns
  <2> QED
    BY Zenon, <2>5, <2>6
<1> QED
  BY Zenon, <1>2, <1>3

\* The 32-bit count of milliseconds drifts by at most one for every conversion.
LEMMA DriftFacts ==
  ASSUME NEW n4 \in Int, NEW m \in Int, NEW e \in Int, NEW d \in Int, NEW k \in Nat,
         n4 * NsPerMs - e <= (k + 1) * NsPerMs, e - n4 * NsPerMs <= (k + 1) * NsPerMs,
         m * NsPerMs <= d, d <= m * NsPerMs + NsPerMs
  PROVE  /\ (n4 + m) * NsPerMs - (e + d) <= (k + 1 + 1) * NsPerMs
         /\ (e + d) - (n4 + m) * NsPerMs <= (k + 1 + 1) * NsPerMs
         /\ (n4 - m) * NsPerMs - (e - d) <= (k + 1 + 1) * NsPerMs
         /\ (e - d) - (n4 - m) * NsPerMs <= (k + 1 + 1) * NsPerMs
<1>1. \A N \in Nat : /\ (n4 + m) * N = n4 * N + m * N /\ (n4 - m) * N = n4 * N - m * N
                     /\ (k + 1 + 1) * N = (k + 1) * N + N
                     /\ n4 * N \in Int /\ m * N \in Int /\ (k + 1) * N \in Int
  OBVIOUS
<1> QED
  BY <1>1, Units

\* CalcInv holds when the first time has been made.
LEMMA CalcInitInv ==
  CalcInit => CalcInv
<1> SUFFICES ASSUME CalcInit PROVE CalcInv
  BY Zenon
<1>1. PICK n \in 0..MaxNs :
        LET s == n \div NSYNC_NS_IN_S_
            ns == n % NSYNC_NS_IN_S_
        IN  /\ ts = nsync_time_s_ns(s, ns) /\ debug = nsync_time_s_ns(s, ns)
            /\ num8 = NumS_ns(8, s, ns) /\ num4 = NumS_ns(4, s, ns)
            /\ exact = n /\ steps = 0
  BY Zenon DEF CalcInit
<1>2. n \in Nat
  BY CalcAssumption
<1>3. PICK q \in Nat, r \in 0..NSYNC_NS_IN_S_ - 1 :
        /\ q = n \div NSYNC_NS_IN_S_ /\ r = n % NSYNC_NS_IN_S_
        /\ q * NSYNC_NS_IN_S_ + r = n
  <2>1. /\ n \in Int /\ n >= 0 /\ NSYNC_NS_IN_S_ \in Nat \ {0}
    BY <1>2, Units
  <2>2. /\ n \div NSYNC_NS_IN_S_ \in Nat /\ n % NSYNC_NS_IN_S_ \in 0..NSYNC_NS_IN_S_ - 1
        /\ n = (n \div NSYNC_NS_IN_S_) * NSYNC_NS_IN_S_ + (n % NSYNC_NS_IN_S_)
    BY <2>1, DivMod, Zenon
  <2> QED
    BY <2>2, Zenon
<1>4. /\ ts = nsync_time_s_ns(q, r) /\ debug = ts /\ num8 = NumS_ns(8, q, r)
      /\ num4 = NumS_ns(4, q, r) /\ exact = n /\ steps = 0
  BY Zenon, <1>1, <1>3
<1>5. ts = Time(n)
  BY Zenon, <1>3, <1>4 DEF Time
<1>6. num8 = Wrapped(8, n)
  BY Zenon, <1>3, <1>4, NumFacts
<1>7. PICK k \in Int : num4 = Wrapped(4, k) /\ k * NsPerMs <= n /\ n <= k * NsPerMs + NsPerMs
  BY Zenon, <1>3, <1>4, NumFacts
<1>8. Close(k, n, 0)
  <2>1. (0 + 1) * NsPerMs = NsPerMs /\ k * NsPerMs \in Int
    BY Units
  <2> QED
    BY <1>2, <1>7, <2>1, Units DEF Close
<1>9. exact \in 0..MaxNs /\ steps \in Nat
  BY <1>1
<1> QED
  BY Zenon, <1>4, <1>5, <1>6, <1>7, <1>8, <1>9 DEF CalcInv

\* Every calculation preserves CalcInv.
LEMMA CalcStepInv ==
  CalcInv /\ [CalcNext]_calcVars => CalcInv'
<1> SUFFICES ASSUME CalcInv, [CalcNext]_calcVars PROVE CalcInv'
  BY Zenon
<1>1. /\ exact \in Nat /\ exact <= MaxNs /\ MaxNs \in Nat /\ steps \in Nat
      /\ ts = Time(exact) /\ debug = ts /\ num8 = Wrapped(8, exact)
  BY CalcAssumption DEF CalcInv
<1>k. PICK k \in Int : num4 = Wrapped(4, k) /\ Close(k, exact, steps)
  BY Zenon DEF CalcInv
<1>2. ASSUME NEW p \in Parts, Add(p)
      PROVE  CalcInv'
  <2>1. PICK s \in Nat, x \in 0..NSYNC_NS_IN_S_ - 1 :
          s = p[1] /\ x = p[2] /\ ExactOf(p) = s * NSYNC_NS_IN_S_ + x /\ ExactOf(p) \in Nat
    BY Zenon, PartsFacts DEF ExactOf
  <2>2. /\ exact' = exact + ExactOf(p) /\ exact' <= MaxNs /\ steps' = steps + 1
        /\ ts' = nsync_time_add(ts, nsync_time_s_ns(s, x))
        /\ debug' = DebugAdd(debug, nsync_time_s_ns(s, x))
        /\ num8' = NumAdd(8, num8, NumS_ns(8, s, x))
        /\ num4' = NumAdd(4, num4, NumS_ns(4, s, x))
    BY Zenon, <1>2, <2>1 DEF Add, NumAdd
  <2>3. ts' = Time(exact') /\ debug' = Time(exact')
    BY <1>1, <2>1, <2>2, AddFacts
  <2>4. num8' = Wrapped(8, exact')
    <3>1. exact \in Int /\ ExactOf(p) \in Int
      BY <1>1, <2>1
    <3>2. NumS_ns(8, s, x) = Wrapped(8, ExactOf(p))
      BY Zenon, <2>1, NumFacts
    <3>3. NumAdd(8, Wrapped(8, exact), Wrapped(8, ExactOf(p))) = Wrapped(8, exact + ExactOf(p))
      BY Zenon, <3>1, WrappedSums
    <3> QED
      BY Zenon, <1>1, <2>2, <3>2, <3>3
  <2>5. PICK m \in Int : /\ NumS_ns(4, s, x) = Wrapped(4, m) /\ m * NsPerMs <= ExactOf(p)
                         /\ ExactOf(p) <= m * NsPerMs + NsPerMs
    BY Zenon, <2>1, NumFacts
  <2>6. /\ num4' = Wrapped(4, k + m) /\ k + m \in Int
        /\ Close(k + m, exact', steps')
    <3>1. Close(k + m, exact + ExactOf(p), steps + 1)
      <4>1. exact \in Int /\ ExactOf(p) \in Int
        BY <1>1, <2>1
      <4> QED
        BY <1>1, <1>k, <2>5, <4>1, DriftFacts, Zenon DEF Close
    <3>2. num4' = Wrapped(4, k + m)
      BY Zenon, <1>k, <2>2, <2>5, WrappedSums
    <3>3. k + m \in Int
      OBVIOUS
    <3> QED
      BY Zenon, <2>2, <3>1, <3>2, <3>3
  <2>7. exact' \in 0..MaxNs /\ steps' \in Nat
    BY <1>1, <2>1, <2>2
  <2>8. Time(exact)' = Time(exact') /\ Wrapped(8, exact)' = Wrapped(8, exact')
    BY Zenon DEF Time, nsync_time_s_ns, Wrapped, MAX_INT_TYPE
  <2>9. \E l \in Int : num4' = Wrapped(4, l) /\ Close(l, exact', steps')
    BY Zenon, <2>6
  <2> QED
    BY Zenon, <2>3, <2>4, <2>7, <2>8, <2>9 DEF CalcInv, Close, Wrapped, MAX_INT_TYPE
<1>3. ASSUME NEW p \in Parts, Subtract(p)
      PROVE  CalcInv'
  <2>1. PICK s \in Nat, x \in 0..NSYNC_NS_IN_S_ - 1 :
          s = p[1] /\ x = p[2] /\ ExactOf(p) = s * NSYNC_NS_IN_S_ + x /\ ExactOf(p) \in Nat
    BY Zenon, PartsFacts DEF ExactOf
  <2>2. /\ exact' = exact - ExactOf(p) /\ exact >= ExactOf(p) /\ steps' = steps + 1
        /\ ts' = nsync_time_sub(ts, nsync_time_s_ns(s, x))
        /\ debug' = DebugSub(debug, nsync_time_s_ns(s, x))
        /\ num8' = NumSub(8, num8, NumS_ns(8, s, x))
        /\ num4' = NumSub(4, num4, NumS_ns(4, s, x))
    BY Zenon, <1>3, <2>1 DEF Subtract, NumSub
  <2>3. ts' = Time(exact') /\ debug' = Time(exact')
    BY <1>1, <2>1, <2>2, SubFacts
  <2>4. num8' = Wrapped(8, exact')
    <3>1. exact \in Int /\ ExactOf(p) \in Int
      BY <1>1, <2>1
    <3>2. NumS_ns(8, s, x) = Wrapped(8, ExactOf(p))
      BY Zenon, <2>1, NumFacts
    <3>3. NumSub(8, Wrapped(8, exact), Wrapped(8, ExactOf(p))) = Wrapped(8, exact - ExactOf(p))
      BY Zenon, <3>1, WrappedSums
    <3> QED
      BY Zenon, <1>1, <2>2, <3>2, <3>3
  <2>5. PICK m \in Int : /\ NumS_ns(4, s, x) = Wrapped(4, m) /\ m * NsPerMs <= ExactOf(p)
                         /\ ExactOf(p) <= m * NsPerMs + NsPerMs
    BY Zenon, <2>1, NumFacts
  <2>6. /\ num4' = Wrapped(4, k - m) /\ k - m \in Int
        /\ Close(k - m, exact', steps')
    <3>1. Close(k - m, exact - ExactOf(p), steps + 1)
      <4>1. exact \in Int /\ ExactOf(p) \in Int
        BY <1>1, <2>1
      <4> QED
        BY <1>1, <1>k, <2>5, <4>1, DriftFacts, Zenon DEF Close
    <3>2. num4' = Wrapped(4, k - m)
      BY Zenon, <1>k, <2>2, <2>5, WrappedSums
    <3>3. k - m \in Int
      OBVIOUS
    <3> QED
      BY Zenon, <2>2, <3>1, <3>2, <3>3
  <2>7. exact' \in 0..MaxNs /\ steps' \in Nat
    BY <1>1, <2>1, <2>2
  <2>8. Time(exact)' = Time(exact') /\ Wrapped(8, exact)' = Wrapped(8, exact')
    BY Zenon DEF Time, nsync_time_s_ns, Wrapped, MAX_INT_TYPE
  <2>9. \E l \in Int : num4' = Wrapped(4, l) /\ Close(l, exact', steps')
    BY Zenon, <2>6
  <2> QED
    BY Zenon, <2>3, <2>4, <2>7, <2>8, <2>9 DEF CalcInv, Close, Wrapped, MAX_INT_TYPE
<1>4. CASE UNCHANGED calcVars
  BY Zenon, <1>4 DEF CalcInv, calcVars, Time, nsync_time_s_ns, Wrapped, MAX_INT_TYPE, Close
<1> QED
  BY Zenon, <1>2, <1>3, <1>4 DEF CalcNext, CalcDone

\* Times compare as the numbers of nanoseconds they stand for.
LEMMA TimeOrder ==
  ASSUME NEW a \in Nat, NEW b \in Nat
  PROVE  nsync_time_cmp(Time(a), Time(b)) = Sign(a, b)
<1>1. PICK s \in Nat, x \in 0..NSYNC_NS_IN_S_ - 1 :
        Time(a) = nsync_time_s_ns(s, x) /\ s * NSYNC_NS_IN_S_ + x = a
  BY Zenon, TimeFacts
<1>2. PICK u \in Nat, y \in 0..NSYNC_NS_IN_S_ - 1 :
        Time(b) = nsync_time_s_ns(u, y) /\ u * NSYNC_NS_IN_S_ + y = b
  BY Zenon, TimeFacts
<1>3. x - y < NSYNC_NS_IN_S_ /\ y - x < NSYNC_NS_IN_S_
  BY Units
<1>4. nsync_time_cmp(nsync_time_s_ns(s, x), nsync_time_s_ns(u, y))
        = Sign(s * NSYNC_NS_IN_S_ + x, u * NSYNC_NS_IN_S_ + y)
  BY <1>3, Units, CmpOrder
<1> QED
  BY Zenon, <1>1, <1>2, <1>4

\* No time that is considered is later than nsync_time_no_deadline, nor earlier than
\* nsync_time_zero.
LEMMA ExtremesFacts ==
  ASSUME NEW a \in 0..MaxNs
  PROVE  /\ nsync_time_cmp(Time(a), nsync_time_no_deadline) <= 0
         /\ nsync_time_cmp(nsync_time_zero, Time(a)) <= 0
<1>1. a \in Nat /\ a <= MaxNs /\ MaxNs \in Nat
  BY CalcAssumption
<1>2. PICK K \in Nat \ {0} : K = NSYNC_NS_IN_S_
  BY Zenon, Units
<1>3. MaxSec * K + (K - 1) \in Nat /\ a <= MaxSec * K + (K - 1)
  <2>1. (MaxSec + 1) * K = MaxSec * K + K /\ MaxSec * K \in Nat
    BY <1>2, UnitsAssumption
  <2> QED
    BY <1>1, <1>2, <2>1, CalcAssumption
<1>4. nsync_time_no_deadline = Time(MaxSec * K + (K - 1))
  <2>1. Time(MaxSec * NSYNC_NS_IN_S_ + (NSYNC_NS_IN_S_ - 1))
          = [sec |-> MaxSec, nsec |-> NSYNC_NS_IN_S_ - 1]
    <3>1. MaxSec \in Int /\ NSYNC_NS_IN_S_ - 1 \in 0..NSYNC_NS_IN_S_ - 1
      BY UnitsAssumption, Units
    <3> QED
      BY <3>1, TimeOfPair, Zenon
  <2> QED
    BY Zenon, <1>2, <2>1 DEF nsync_time_no_deadline, nsync_time_s_ns
<1>5. nsync_time_zero = Time(0)
  <2>1. 0 % NSYNC_NS_IN_S_ = 0 /\ 0 \div NSYNC_NS_IN_S_ = 0
    BY ModSmall, Units
  <2> QED
    BY Zenon, <2>1 DEF nsync_time_zero, Time
<1>6. /\ nsync_time_cmp(Time(a), nsync_time_no_deadline) = Sign(a, MaxSec * K + (K - 1))
      /\ nsync_time_cmp(nsync_time_zero, Time(a)) = Sign(0, a)
  BY Zenon, <1>1, <1>3, <1>4, <1>5, TimeOrder
<1> QED
  BY <1>1, <1>3, <1>6 DEF Sign

\* The seconds and the rest that C's division gives a time point of either sign.
LEMMA PointFacts ==
  ASSUME NEW n \in Int
  PROVE  \E s \in Int, x \in Int :
           /\ nsync_from_time_point_(n) = nsync_time_s_ns(s, x)
           /\ s * NSYNC_NS_IN_S_ + x = n
           /\ n >= 0 => s >= 0 /\ x \in 0..NSYNC_NS_IN_S_ - 1
           /\ n < 0 => s <= 0 /\ -x \in 0..NSYNC_NS_IN_S_ - 1
<1>1. CASE n >= 0
  <2>1. PICK q \in Nat, r \in 0..NSYNC_NS_IN_S_ - 1 :
          q = n \div NSYNC_NS_IN_S_ /\ q * NSYNC_NS_IN_S_ + r = n
    BY <1>1, Units, DivMod
  <2>2. q * NSYNC_NS_IN_S_ \in Int
    BY Units
  <2>3. nsync_from_time_point_(n) = nsync_time_s_ns(q, n - q * NSYNC_NS_IN_S_)
    BY Zenon, <1>1, <2>1 DEF nsync_from_time_point_, Quotient
  <2>4. n - q * NSYNC_NS_IN_S_ = r
    BY <2>1, <2>2, Units
  <2> QED
    BY <1>1, <2>1, <2>3, <2>4, Units
<1>2. CASE n < 0
  <2>1. PICK q \in Nat, r \in 0..NSYNC_NS_IN_S_ - 1 :
          q = (-n) \div NSYNC_NS_IN_S_ /\ q * NSYNC_NS_IN_S_ + r = -n
    <3>1. PICK m \in Nat : m = -n
      BY <1>2
    <3>2. PICK q \in Nat, r \in 0..NSYNC_NS_IN_S_ - 1 :
            q = m \div NSYNC_NS_IN_S_ /\ q * NSYNC_NS_IN_S_ + r = m
      BY Units, DivMod
    <3> QED
      BY Zenon, <3>1, <3>2
  <2>2. (-q) * NSYNC_NS_IN_S_ = -(q * NSYNC_NS_IN_S_) /\ q * NSYNC_NS_IN_S_ \in Int
    BY Units
  <2>3. nsync_from_time_point_(n) = nsync_time_s_ns(-q, n - (-q) * NSYNC_NS_IN_S_)
    BY <1>2, <2>1 DEF nsync_from_time_point_, Quotient
  <2>4. n - (-q) * NSYNC_NS_IN_S_ = -r
    BY <2>1, <2>2, Units
  <2>5. (-q) * NSYNC_NS_IN_S_ + (-r) = n
    BY <2>1, <2>2, Units
  <2> QED
    BY <1>2, <2>1, <2>3, <2>4, <2>5, Units
<1> QED
  BY <1>1, <1>2

\* Time points compare as the numbers they are, also across zero.
LEMMA PointOrder ==
  ASSUME NEW n \in Int, NEW e \in Nat
  PROVE  nsync_time_cmp(nsync_from_time_point_(n), nsync_from_time_point_(e)) = Sign(n, e)
<1>0. e \in Int
  OBVIOUS
<1>1. PICK s \in Int, x \in Int :
        /\ nsync_from_time_point_(n) = nsync_time_s_ns(s, x)
        /\ s * NSYNC_NS_IN_S_ + x = n
        /\ n >= 0 => s >= 0 /\ x \in 0..NSYNC_NS_IN_S_ - 1
        /\ n < 0 => s <= 0 /\ -x \in 0..NSYNC_NS_IN_S_ - 1
  BY PointFacts, Zenon
<1>2. PICK u \in Int, y \in Int :
        /\ nsync_from_time_point_(e) = nsync_time_s_ns(u, y)
        /\ u * NSYNC_NS_IN_S_ + y = e
        /\ e >= 0 => u >= 0 /\ y \in 0..NSYNC_NS_IN_S_ - 1
        /\ e < 0 => u <= 0 /\ -y \in 0..NSYNC_NS_IN_S_ - 1
  BY <1>0, PointFacts, Zenon
<1>3. u >= 0 /\ y \in 0..NSYNC_NS_IN_S_ - 1
  BY <1>2
<1>4. (s < u => x - y < NSYNC_NS_IN_S_) /\ (u < s => y - x < NSYNC_NS_IN_S_)
  BY <1>1, <1>3, Units
<1>5. nsync_time_cmp(nsync_time_s_ns(s, x), nsync_time_s_ns(u, y))
        = Sign(s * NSYNC_NS_IN_S_ + x, u * NSYNC_NS_IN_S_ + y)
  <2>1. PICK K \in Nat \ {0} : K = NSYNC_NS_IN_S_
    BY Zenon, Units
  <2>2. (s < u => x - y < K) /\ (u < s => y - x < K)
    BY Zenon, <1>4, <2>1
  <2>3. nsync_time_cmp(nsync_time_s_ns(s, x), nsync_time_s_ns(u, y))
          = Sign(s * K + x, u * K + y)
    <3>1. s < u => s * K + x < u * K + y
      BY Zenon, <2>2, PairOrder
    <3>2. u < s => u * K + y < s * K + x
      BY Zenon, <2>2, PairOrder
    <3>3. s * K \in Int /\ u * K \in Int
      OBVIOUS
    <3> QED
      BY <3>1, <3>2, <3>3 DEF nsync_time_cmp, nsync_time_s_ns, Sign
  <2> QED
    BY Zenon, <2>1, <2>3
<1> QED
  BY Zenon, <1>1, <1>2, <1>5

\* Converting back rounds down to a tick.
LEMMA BackFacts ==
  ASSUME NEW n \in Nat, NEW tick \in Nat \ {0}
  PROVE  LET back == nsync_to_time_point_(nsync_from_time_point_(n), tick)
         IN  back <= n /\ n - back < tick
<1>0. n \in Int
  OBVIOUS
<1>1. PICK s \in Int, x \in Int :
        /\ nsync_from_time_point_(n) = nsync_time_s_ns(s, x)
        /\ s * NSYNC_NS_IN_S_ + x = n
  BY <1>0, PointFacts, Zenon
<1>2. x + NSYNC_NS_IN_S_ * s = n
  BY <1>1, Units
<1>3. PICK q \in Nat, r \in 0..tick - 1 : q = n \div tick /\ q * tick + r = n
  BY DivMod
<1>4. nsync_to_time_point_(nsync_time_s_ns(s, x), tick) = q * tick
  <2>1. /\ nsync_time_s_ns(s, x).nsec + NSYNC_NS_IN_S_ * nsync_time_s_ns(s, x).sec = n
    BY Zenon, <1>2 DEF nsync_time_s_ns
  <2>2. Quotient(n, tick) = q
    BY <1>3 DEF Quotient
  <2> QED
    BY <2>1, <2>2, Zenon DEF nsync_to_time_point_
<1>5. q * tick <= n /\ n - q * tick < tick
  BY <1>3
<1> QED
  BY Zenon, <1>1, <1>4, <1>5

\* The invariant says of the times that they are exact.
LEMMA CalcIsExact ==
  CalcInv => TimesAreExact
<1> SUFFICES ASSUME CalcInv PROVE TimesAreExact
  BY Zenon
<1>1. /\ exact \in Nat /\ exact \in 0..MaxNs /\ MaxNs \in Nat /\ steps \in Nat
      /\ ts = Time(exact) /\ debug = ts /\ num8 = Wrapped(8, exact)
  BY CalcAssumption DEF CalcInv
<1>f. ASSUME NEW n \in Nat, Fits64(n) PROVE Wrapped(8, n) = n
  <2>1. n \in Int /\ -MAX_INT_TYPE(8) <= n /\ n <= MAX_INT_TYPE(8)
    BY <1>f, UnitsAssumption DEF Fits64, MAX_INT_TYPE
  <2> QED
    BY Zenon, <2>1, WrappedFits
<1>2. TimespecIsExact
  BY Zenon, <1>1, TimeFacts DEF TimespecIsExact, Normal, ValueOf
<1>3. DebugAgrees
  BY Zenon, <1>1 DEF DebugAgrees
<1>4. Int64Agrees
  <2> SUFFICES ASSUME Fits64(exact)
               PROVE  /\ num8 = exact
                      /\ NSYNC_TIME_SEC(8, num8) = ts.sec /\ NSYNC_TIME_NSEC(8, num8) = ts.nsec
    BY Zenon DEF Int64Agrees
  <2>1. num8 = exact
    BY Zenon, <1>1, <1>f
  <2>2. PICK q \in Nat, r \in 0..NSYNC_NS_IN_S_ - 1 :
          /\ q = exact \div NSYNC_NS_IN_S_ /\ r = exact % NSYNC_NS_IN_S_
          /\ exact = q * NSYNC_NS_IN_S_ + r
    <3>1. exact \in Int /\ exact >= 0
      BY <1>1
    <3>2. /\ exact \div NSYNC_NS_IN_S_ \in Nat
          /\ exact % NSYNC_NS_IN_S_ \in 0..NSYNC_NS_IN_S_ - 1
          /\ exact = (exact \div NSYNC_NS_IN_S_) * NSYNC_NS_IN_S_ + (exact % NSYNC_NS_IN_S_)
      BY Zenon, <3>1, Units, DivMod
    <3> QED
      BY Zenon, <3>2
  <2>3. exact >= 0 /\ 8 >= 8 /\ exact - q * NSYNC_NS_IN_S_ = r
    BY <1>1, <2>2, Units
  <2>4. NSYNC_TIME_SEC(8, exact) = q /\ NSYNC_TIME_NSEC(8, exact) = r
    BY Zenon, <2>2, <2>3 DEF NSYNC_TIME_SEC, NSYNC_TIME_NSEC, Quotient, Remainder
  <2>5. ts = [sec |-> q, nsec |-> r]
    BY Zenon, <1>1, <2>2 DEF Time, nsync_time_s_ns
  <2> QED
    BY <2>1, <2>4, <2>5
<1>5. Int32IsClose
  <2> SUFFICES ASSUME Fits32(exact)
               PROVE  num4 * NsPerMs - exact
                        \in -(steps + 1) * NsPerMs..(steps + 1) * NsPerMs
    BY Zenon DEF Int32IsClose
  <2>1. PICK k \in Int : num4 = Wrapped(4, k) /\ Close(k, exact, steps)
    BY Zenon DEF CalcInv
  <2>2. PICK a \in Int, b \in Int : a = k * NsPerMs /\ b = (steps + 1) * NsPerMs
    BY <1>1, Units
  <2>3. a - exact <= b /\ exact - a <= b /\ exact + b <= MaxInt32 * NsPerMs
    BY Zenon, <2>1, <2>2 DEF Close, Fits32
  <2>4. k <= MaxInt32 /\ -MaxInt32 <= k
    <3>1. \A x, y \in Int : x * NsPerMs <= y * NsPerMs => x <= y
      BY Units
    <3>2. k * NsPerMs <= MaxInt32 * NsPerMs /\ (-MaxInt32) * NsPerMs <= k * NsPerMs
      <4>1. MaxInt32 * NsPerMs \in Int /\ (-MaxInt32) * NsPerMs = -(MaxInt32 * NsPerMs)
        BY UnitsAssumption, Units
      <4> QED
        BY <1>1, <2>2, <2>3, <4>1
    <3>3. MaxInt32 \in Int /\ -MaxInt32 \in Int
      BY UnitsAssumption
    <3> QED
      BY Zenon, <3>1, <3>2, <3>3
  <2>5. num4 = k
    <3>1. -MAX_INT_TYPE(4) <= k /\ k <= MAX_INT_TYPE(4)
      BY <2>4, UnitsAssumption DEF MAX_INT_TYPE
    <3> QED
      BY Zenon, <2>1, <3>1, WrappedFits
  <2>6. -(steps + 1) * NsPerMs = -b
    BY Zenon, <1>1, <2>2, Units
  <2>7. a - exact \in -b..b
    BY <1>1, <2>3
  <2> QED
    BY Zenon, <2>2, <2>5, <2>6, <2>7
<1>6. CmpIsTheOrder
  <2>1. ASSUME NEW n \in 0..MaxNs
        PROVE  LET t == nsync_time_s_ns(n \div NSYNC_NS_IN_S_, n % NSYNC_NS_IN_S_) IN
               /\ nsync_time_cmp(ts, t) = Sign(exact, n)
               /\ DebugCmp(debug, t) = Sign(exact, n)
               /\ Fits64(exact) /\ Fits64(n) =>
                    NumCmp(num8, NumS_ns(8, t.sec, t.nsec)) = Sign(exact, n)
    <3>1. n \in Nat
      BY <1>1
    <3>2. nsync_time_cmp(ts, Time(n)) = Sign(exact, n)
      BY Zenon, <1>1, <3>1, TimeOrder
    <3>3. DebugCmp(debug, Time(n)) = Sign(exact, n)
      BY Zenon, <1>1, <3>2 DEF DebugCmp, nsync_time_cmp
    <3>4. NumS_ns(8, Time(n).sec, Time(n).nsec) = Wrapped(8, n)
      BY Zenon, <3>1, TimeFacts, NumFacts
    <3>5. Fits64(exact) /\ Fits64(n) =>
            NumCmp(num8, NumS_ns(8, Time(n).sec, Time(n).nsec)) = Sign(exact, n)
      BY Zenon, <1>1, <1>f, <3>1, <3>4 DEF NumCmp
    <3> QED
      BY <3>2, <3>3, <3>5, Zenon DEF Time
  <2>2. /\ nsync_time_cmp(ts, nsync_time_no_deadline) <= 0
        /\ nsync_time_cmp(nsync_time_zero, ts) <= 0
    BY Zenon, <1>1, ExtremesFacts
  <2> QED
    BY <2>1, <2>2, Zenon DEF CmpIsTheOrder
<1>7. TimePointsConvert
  <2>1. ASSUME NEW n \in -MaxNs..MaxNs
        PROVE  LET t == nsync_from_time_point_(n) IN
               /\ ValueOf(t) = n
               /\ nsync_time_cmp(t, nsync_from_time_point_(exact)) = Sign(n, exact)
               /\ \A tick \in 1..NsPerMs :
                    LET back == nsync_to_time_point_(t, tick)
                    IN  n >= 0 => back <= n /\ n - back < tick
    <3>1. n \in Int
      BY <1>1
    <3>2. ValueOf(nsync_from_time_point_(n)) = n
      BY <3>1, PointFacts DEF ValueOf, nsync_time_s_ns
    <3>3. nsync_time_cmp(nsync_from_time_point_(n), nsync_from_time_point_(exact)) = Sign(n, exact)
      BY Zenon, <1>1, <3>1, PointOrder
    <3>4. ASSUME NEW tick \in 1..NsPerMs, n >= 0
          PROVE  LET back == nsync_to_time_point_(nsync_from_time_point_(n), tick)
                 IN  back <= n /\ n - back < tick
      <4>1. n \in Nat /\ tick \in Nat \ {0}
        BY <3>1, <3>4, Units
      <4> QED
        BY <4>1, BackFacts, Zenon
    <3> QED
      BY <3>2, <3>3, <3>4, Zenon
  <2> QED
    BY <2>1, Zenon DEF TimePointsConvert
<1> QED
  BY Zenon, <1>2, <1>3, <1>4, <1>5, <1>6, <1>7 DEF TimesAreExact

\* Through any series of additions and subtractions, all representations of
\* nsync_time calculate, compare and convert as the exact numbers do: struct timespec
\* and the unsigned arithmetic of the debug representation exactly; integers of any
\* width, which may overflow on the way, whenever the time itself fits them, those of
\* 64 bits exactly and those of 32 to a millisecond per conversion; and C++11 time
\* points of either sign to a tick of the clock.
THEOREM CalculationsAreExact ==
  CalcSpec => []TimesAreExact
<1> QED
  BY CalcInitInv, CalcStepInv, CalcIsExact, PTL DEF CalcSpec

-----------------------------------------------------------------------------
(* nsync_once.                                                             *)

FrameType == [once : Onces, spin : BOOLEAN, pc : PCs, o : 0..2]

\* How a step changes the stacks: the innermost call of t becomes f, ...
Moves(t, f) ==
  /\ stack' \in [OnceThreads -> Seq(FrameType)]
  /\ Busy(t)' /\ Top(t)' = f
  /\ \A u \in OnceThreads \ {t} : (Busy(u)' <=> Busy(u)) /\ Top(u)' = Top(u)
  /\ \A u \in OnceThreads :
       /\ Len(stack'[u]) = Len(stack[u])
       /\ \A d \in 1..Len(stack[u]) :
            stack'[u][d] = IF u = t /\ d = Len(stack[t]) THEN f ELSE stack[u][d]

\* ... or it returns, ...
Pops(t) ==
  /\ stack' \in [OnceThreads -> Seq(FrameType)]
  /\ Busy(t)' => Top(t)'.pc = "run"
  /\ \A u \in OnceThreads \ {t} : (Busy(u)' <=> Busy(u)) /\ Top(u)' = Top(u)
  /\ \A u \in OnceThreads :
       /\ Len(stack'[u]) = IF u = t THEN Len(stack[u]) - 1 ELSE Len(stack[u])
       /\ \A d \in 1..Len(stack'[u]) : d \in 1..Len(stack[u]) /\ stack'[u][d] = stack[u][d]

\* ... or it becomes f and calls g.
Pushes(t, f, g) ==
  /\ stack' \in [OnceThreads -> Seq(FrameType)]
  /\ Busy(t)' /\ Top(t)' = g
  /\ \A u \in OnceThreads \ {t} : (Busy(u)' <=> Busy(u)) /\ Top(u)' = Top(u)
  /\ \A u \in OnceThreads :
       /\ Len(stack'[u]) = IF u = t THEN Len(stack[u]) + 1 ELSE Len(stack[u])
       /\ \A d \in 1..Len(stack'[u]) :
            \/ u = t /\ d = Len(stack[t]) + 1 /\ stack'[u][d] = g
            \/ /\ d \in 1..Len(stack[u])
               /\ stack'[u][d] = IF u = t /\ d = Len(stack[t]) THEN f ELSE stack[u][d]

\* The innermost call of a busy thread.
LEMMA TopFacts ==
  ASSUME OnceTypeOK, NEW t \in OnceThreads, Busy(t)
  PROVE  /\ stack[t] \in Seq(FrameType) /\ Len(stack[t]) \in Nat \ {0}
         /\ Len(stack[t]) \in 1..Len(stack[t])
         /\ Top(t) = stack[t][Len(stack[t])] /\ Top(t) \in FrameType
         /\ Top(t).once \in Onces /\ Top(t).spin \in BOOLEAN /\ Top(t).pc \in PCs
<1>1. stack[t] \in Seq(FrameType) /\ stack[t] # <<>>
  BY Zenon DEF OnceTypeOK, FrameType, Busy
<1>2. Len(stack[t]) \in Nat \ {0}
  BY Zenon, <1>1, EmptySeq
<1>3. Top(t) \in FrameType
  BY <1>1, <1>2, ElementOfSeq DEF Top
<1> QED
  BY <1>1, <1>2, <1>3 DEF Top, FrameType

\* A stack has a length.
LEMMA Lengths ==
  ASSUME OnceTypeOK
  PROVE  \A u \in OnceThreads : Len(stack[u]) \in Nat
BY Zenon, LenProperties DEF OnceTypeOK

\* The call f gone to the place l, its local variable set to n.
Gone(f, n, l) == [f EXCEPT !.o = n, !.pc = l]

\* It is a call of the same kind for the same once.
LEMMA FrameFields ==
  ASSUME NEW f \in FrameType, NEW n \in 0..2, NEW l \in PCs
  PROVE  /\ Gone(f, n, l) \in FrameType
         /\ Gone(f, n, l).once = f.once /\ Gone(f, n, l).spin = f.spin /\ Gone(f, n, l).pc = l
         /\ [f EXCEPT !.pc = l] = Gone(f, f.o, l) /\ f.o \in 0..2
BY Zenon DEF FrameType, Gone

\* The assignments of the actions are moves, returns and calls.
LEMMA MoveFacts ==
  ASSUME OnceTypeOK, NEW t \in OnceThreads, Busy(t), NEW f \in FrameType,
         stack' = [stack EXCEPT ![t] = [stack[t] EXCEPT ![Len(stack[t])] = f]]
  PROVE  Moves(t, f)
<1>1. stack \in [OnceThreads -> Seq(FrameType)]
  BY Zenon DEF OnceTypeOK, FrameType
<1>2. stack[t] \in Seq(FrameType) /\ Len(stack[t]) \in 1..Len(stack[t])
  BY Zenon, TopFacts
<1> DEFINE s == [stack[t] EXCEPT ![Len(stack[t])] = f]
<1>3. /\ s \in Seq(FrameType) /\ Len(s) = Len(stack[t])
      /\ \A j \in 1..Len(stack[t]) : s[j] = IF j = Len(stack[t]) THEN f ELSE stack[t][j]
  BY <1>2, ExceptSeq
<1>4. Len(stack[t]) \in Nat
  BY <1>2
<1> HIDE DEF s
<1>5. stack' \in [OnceThreads -> Seq(FrameType)] /\ stack'[t] = s
      /\ \A u \in OnceThreads \ {t} : stack'[u] = stack[u]
  BY Zenon, <1>1, <1>3 DEF s
<1>6. Busy(t)' /\ Top(t)' = f
  BY <1>2, <1>3, <1>5 DEF Busy, Top
<1>7. \A u \in OnceThreads \ {t} : (Busy(u)' <=> Busy(u)) /\ Top(u)' = Top(u)
  BY Zenon, <1>5 DEF Busy, Top
<1> QED
  BY Zenon, <1>3, <1>5, <1>6, <1>7 DEF Moves

\* A call goes to the place l.
LEMMA GotoFacts ==
  ASSUME OnceTypeOK, NEW t \in OnceThreads, Busy(t), NEW l \in PCs, OnceGoto(t, l)
  PROVE  \E f \in FrameType :
           /\ Moves(t, f)
           /\ f.once = Top(t).once /\ f.spin = Top(t).spin /\ f.pc = l
           /\ f = [Top(t) EXCEPT !.pc = l]
<1> DEFINE g == Gone(Top(t), Top(t).o, l)
<1>1. Top(t) \in FrameType /\ Top(t).o \in 0..2
  BY Zenon, TopFacts DEF FrameType
<1>2. /\ g \in FrameType /\ g = [Top(t) EXCEPT !.pc = l]
      /\ g.once = Top(t).once /\ g.spin = Top(t).spin /\ g.pc = l
  BY <1>1, FrameFields
<1> HIDE DEF g
<1>3. stack' = [stack EXCEPT ![t] = [stack[t] EXCEPT ![Len(stack[t])] = g]]
  BY Zenon, <1>2 DEF OnceGoto, Top
<1>4. Moves(t, g)
  BY Zenon, <1>2, <1>3, MoveFacts
<1> QED
  BY Zenon, <1>2, <1>4

\* A call of nsync_run_once returns.
LEMMA ReturnFacts ==
  ASSUME OnceTypeOK, OuterCallsRun, NEW t \in OnceThreads, Busy(t), OnceReturn(t)
  PROVE  Pops(t)
<1>1. stack \in [OnceThreads -> Seq(FrameType)]
  BY Zenon DEF OnceTypeOK, FrameType
<1>2. stack[t] \in Seq(FrameType) /\ Len(stack[t]) \in Nat \ {0}
  BY Zenon, TopFacts
<1> DEFINE s == SubSeq(stack[t], 1, Len(stack[t]) - 1)
<1>3. \A d \in 1..Len(stack[t]) - 1 : stack[t][d] \in FrameType
  BY <1>2, ElementOfSeq
<1>4. /\ s \in Seq(FrameType) /\ Len(s) = Len(stack[t]) - 1
      /\ \A d \in 1..Len(stack[t]) - 1 : s[d] = stack[t][d]
  BY <1>2, <1>3, SubSeqProperties
<1> HIDE DEF s
<1>5. stack' \in [OnceThreads -> Seq(FrameType)] /\ stack'[t] = s
      /\ \A u \in OnceThreads \ {t} : stack'[u] = stack[u]
  BY Zenon, <1>1, <1>4 DEF s, OnceReturn
<1>6. Busy(t)' => Top(t)'.pc = "run"
  <2> SUFFICES ASSUME Busy(t)' PROVE Top(t)'.pc = "run"
    BY Zenon
  <2>1. s # <<>>
    BY Zenon, <1>5 DEF Busy
  <2>2. Len(s) \in Nat \ {0}
    BY Zenon, <1>4, <2>1, EmptySeq
  <2>3. Len(s) \in 1..Len(s)
    BY <2>2
  <2>4. Top(t)' = s[Len(s)]
    BY Zenon, <1>5 DEF Top
  <2> QED
    BY Zenon, <1>4, <2>3, <2>4 DEF OuterCallsRun
<1>7. \A u \in OnceThreads \ {t} : (Busy(u)' <=> Busy(u)) /\ Top(u)' = Top(u)
  BY Zenon, <1>5 DEF Busy, Top
<1> QED
  BY <1>2, <1>4, <1>5, <1>6, <1>7 DEF Pops

\* A function runs another once.
LEMMA PushFacts ==
  ASSUME OnceTypeOK, NEW t \in OnceThreads, Busy(t),
         NEW f \in FrameType, NEW g \in FrameType,
         stack' = [stack EXCEPT ![t] = Append([stack[t] EXCEPT ![Len(stack[t])] = f], g)]
  PROVE  Pushes(t, f, g)
<1>1. stack \in [OnceThreads -> Seq(FrameType)]
  BY Zenon DEF OnceTypeOK, FrameType
<1>2. stack[t] \in Seq(FrameType) /\ Len(stack[t]) \in 1..Len(stack[t])
  BY Zenon, TopFacts
<1> DEFINE s == [stack[t] EXCEPT ![Len(stack[t])] = f]
           r == Append(s, g)
<1>3. /\ s \in Seq(FrameType) /\ Len(s) = Len(stack[t])
      /\ \A j \in 1..Len(stack[t]) : s[j] = IF j = Len(stack[t]) THEN f ELSE stack[t][j]
  BY <1>2, ExceptSeq
<1>4. Len(stack[t]) \in Nat
  BY <1>2
<1> HIDE DEF s
<1>5. /\ r \in Seq(FrameType) /\ Len(r) = Len(stack[t]) + 1
      /\ \A d \in 1..Len(stack[t]) : r[d] = s[d]
      /\ r[Len(stack[t]) + 1] = g
  BY <1>3, AppendProperties
<1> HIDE DEF r
<1>6. stack' \in [OnceThreads -> Seq(FrameType)] /\ stack'[t] = r
      /\ \A u \in OnceThreads \ {t} : stack'[u] = stack[u]
  BY Zenon, <1>1, <1>5 DEF r, s
<1>7. Busy(t)' /\ Top(t)' = g
  <2>1. r # <<>>
    BY <1>4, <1>5, EmptySeq
  <2> QED
    BY Zenon, <1>5, <1>6, <2>1 DEF Busy, Top
<1>8. \A u \in OnceThreads \ {t} : (Busy(u)' <=> Busy(u)) /\ Top(u)' = Top(u)
  BY Zenon, <1>6 DEF Busy, Top
<1>9. ASSUME NEW d \in 1..Len(r)
      PROVE  \/ d = Len(stack[t]) + 1 /\ r[d] = g
             \/ /\ d \in 1..Len(stack[t])
                /\ r[d] = IF d = Len(stack[t]) THEN f ELSE stack[t][d]
  BY <1>3, <1>4, <1>5
<1> QED
  BY <1>4, <1>5, <1>6, <1>7, <1>8, <1>9 DEF Pushes

-----------------------------------------------------------------------------
(* The clauses of the invariant that depend only on how the stacks change. *)

\* A call that returns uncovers one that runs its function.
LEMMA PopKeeps ==
  ASSUME OnceInv, NEW t \in OnceThreads, Pops(t)
  PROVE  OuterCallsRun' /\ SpinningCallsKeepOff' /\ OneClaimant'
<1> USE DEF OnceInv
<1>1. OuterCallsRun'
  BY Lengths DEF Pops, OuterCallsRun
<1>2. SpinningCallsKeepOff'
  BY Zenon DEF Pops, SpinningCallsKeepOff
<1>3. OneClaimant'
  BY SMTT(30) DEF Pops, OneClaimant
<1> QED
  BY Zenon, <1>1, <1>2, <1>3

\* A call that goes on where a call of its kind may be, without claiming its once.
LEMMA MoveKeeps ==
  ASSUME OnceInv, NEW t \in OnceThreads, Busy(t), NEW f \in FrameType, Moves(t, f),
         f.pc \in {"lock", "relock", "broadcast", "wait", "woken"} => ~f.spin,
         f.pc \in Claimed => Top(t).pc \in Claimed /\ f.once = Top(t).once
  PROVE  OuterCallsRun' /\ SpinningCallsKeepOff' /\ OneClaimant'
<1> USE DEF OnceInv
<1>1. Top(t) = stack[t][Len(stack[t])] /\ Len(stack[t]) \in 1..Len(stack[t])
  BY Zenon, TopFacts
<1>2. OuterCallsRun'
  BY <1>1, Lengths DEF Moves, OuterCallsRun
<1>3. SpinningCallsKeepOff'
  BY DEF Moves, SpinningCallsKeepOff
<1>4. OneClaimant'
  BY <1>1 DEF Moves, OneClaimant
<1> QED
  BY Zenon, <1>2, <1>3, <1>4

\* A new call, by a function that is being run or by a thread that had none.
LEMMA PushKeeps ==
  ASSUME OnceInv, NEW t \in OnceThreads, NEW f \in FrameType, NEW g \in FrameType,
         Pushes(t, f, g), g.pc = "load",
         Busy(t) => Top(t).pc \in Claimed /\ f.once = Top(t).once /\ f.pc = "run"
  PROVE  OuterCallsRun' /\ SpinningCallsKeepOff' /\ OneClaimant'
<1> USE DEF OnceInv
<1>0. stack \in [OnceThreads -> Seq(FrameType)]
  BY Zenon DEF OnceTypeOK, FrameType
<1>1. ASSUME NEW u \in OnceThreads, NEW d \in 1..Len(stack[u])
      PROVE  /\ Len(stack[u]) \in Nat /\ Busy(u)
             /\ d = Len(stack[u]) => stack[u][d] = Top(u)
  BY <1>0, EmptySeq, LenProperties DEF Busy, Top
<1>2. OuterCallsRun'
  <2> SUFFICES ASSUME NEW u \in OnceThreads, NEW d \in 1..Len(stack'[u]) - 1
               PROVE  stack'[u][d].pc = "run"
    BY Zenon DEF OuterCallsRun
  <2>1. Len(stack[u]) \in Nat /\ Len(stack[t]) \in Nat
    BY Zenon, Lengths
  <2>2. d \in 1..Len(stack'[u])
    BY <2>1 DEF Pushes
  <2>3. CASE u = t
    <3>1. d \in 1..Len(stack[t])
      BY <2>1, <2>3 DEF Pushes
    <3>2. stack'[t][d] = IF d = Len(stack[t]) THEN f ELSE stack[t][d]
      BY SMTT(30), <2>1, <2>2, <2>3, <3>1 DEF Pushes
    <3> QED
      BY SMTT(30), <1>1, <2>1, <2>3, <3>1, <3>2 DEF OuterCallsRun
  <2>4. CASE u # t
    BY SMTT(30), <2>1, <2>2, <2>4 DEF Pushes, OuterCallsRun
  <2> QED
    BY Zenon, <2>3, <2>4
<1>3. SpinningCallsKeepOff'
  BY <1>1 DEF Pushes, SpinningCallsKeepOff
<1>4. OneClaimant'
  <2>1. g.pc \notin Claimed
    BY Zenon DEF Claimed
  <2>2. ASSUME NEW u \in OnceThreads, NEW d \in 1..Len(stack'[u]), stack'[u][d].pc \in Claimed
        PROVE  /\ d \in 1..Len(stack[u]) /\ stack[u][d].pc \in Claimed
               /\ stack'[u][d].once = stack[u][d].once
    BY Zenon, <1>1, <2>1, <2>2 DEF Pushes
  <2> QED
    BY <2>2 DEF OneClaimant
<1> QED
  BY Zenon, <1>2, <1>3, <1>4

\* A claim that was true stays true when the counts stay.
LEMMA SameCounts ==
  ASSUME UNCHANGED <<once, started, ended>>, WordTellsRun,
         \A u \in OnceThreads : \A d \in 1..Len(stack'[u]) : ClaimIsTrue(stack'[u][d], once, started, ended)
  PROVE  WordTellsRun'
BY Zenon DEF WordTellsRun

\* A call that moves without a change of the counts, and neither claims its once
\* nor gives it up.
LEMMA MoveKeepsWord ==
  ASSUME OnceInv, NEW t \in OnceThreads, Busy(t), NEW f \in FrameType, Moves(t, f),
         UNCHANGED <<once, started, ended>>,
         ClaimIsTrue(Top(t), once, started, ended) => ClaimIsTrue(f, once, started, ended)
  PROVE  WordTellsRun'
<1>1. Top(t) = stack[t][Len(stack[t])] /\ Len(stack[t]) \in 1..Len(stack[t])
  BY Zenon, TopFacts DEF OnceInv
<1>2. ClaimIsTrue(f, once, started, ended)
  BY Zenon, <1>1 DEF OnceInv, WordTellsRun
<1>3. \A u \in OnceThreads : \A d \in 1..Len(stack'[u]) : ClaimIsTrue(stack'[u][d], once, started, ended)
  BY <1>2 DEF OnceInv, WordTellsRun, Moves
<1> QED
  BY Zenon, <1>3, SameCounts DEF OnceInv

\* The types, when the waiters of once_cv are known.
LEMMA MoveKeepsTypes ==
  ASSUME OnceTypeOK, stack' \in [OnceThreads -> Seq(FrameType)],
         once' \in [Onces -> 0..2], owner' \in OnceThreads \cup {NoThread},
         started' \in [Onces -> Nat], ended' \in [Onces -> Nat],
         cv' = {u \in OnceThreads : At(u, "wait")'}
  PROVE  OnceTypeOK'
BY Zenon DEF OnceTypeOK, FrameType

\* No other blocking call comes to its store, and no thread goes to sleep.
LEMMA MoveKeepsSleepers ==
  ASSUME OnceInv, NEW t \in OnceThreads, NEW f \in FrameType, Moves(t, f),
         f.pc = "store" => f.spin, cv' \subseteq cv, t \notin cv'
  PROVE  NoSleeperAtStore'
<1>1. cv' \subseteq OnceThreads \ {t}
  BY Zenon DEF OnceInv, OnceTypeOK
<1>2. \A u \in cv' : Top(u)' = Top(u)
  BY Zenon, <1>1 DEF Moves
<1> QED
  BY <1>2 DEF Moves, OnceInv, NoSleeperAtStore, At

-----------------------------------------------------------------------------
(* One lemma per action.                                                   *)

\* The load on entry: the call returns if the once is done.
LEMMA OnceLoadInv ==
  ASSUME OnceInv, NEW t \in OnceThreads, OnceLoad(t)
  PROVE  OnceInv'
<1> USE DEF OnceInv
<1>1. Busy(t) /\ Top(t).pc = "load" /\ UNCHANGED <<once, owner, cv, started, ended>>
  BY Zenon DEF OnceLoad, At
<1>2. \A u \in cv : u \in OnceThreads /\ u # t
  BY Zenon, <1>1 DEF OnceTypeOK, At
<1>3. CASE once[Top(t).once] = 2
  <2>1. Pops(t)
    BY Zenon, <1>1, <1>3, ReturnFacts DEF OnceLoad
  <2>2. WordTellsRun'
    BY Zenon, <1>1, <2>1, SameCounts DEF Pops, WordTellsRun
  <2>3. cv' = {u \in OnceThreads : At(u, "wait")'}
    BY <1>1, <2>1 DEF Pops, OnceTypeOK, At
  <2>4. OnceTypeOK'
    BY Zenon, <1>1, <2>1, <2>3, MoveKeepsTypes DEF Pops, OnceTypeOK
  <2>5. MutexIsHeldOutsideRuns'
    BY Zenon, <1>1, <2>1 DEF Pops, MutexIsHeldOutsideRuns
  <2>6. NoSleeperAtStore'
    BY <1>1, <1>2, <2>1 DEF Pops, NoSleeperAtStore, At
  <2> QED
    BY Zenon, <1>1, <2>1, <2>2, <2>4, <2>5, <2>6, PopKeeps DEF RunsOnce
<1>4. CASE once[Top(t).once] # 2
  <2> DEFINE f == [Top(t) EXCEPT !.o = once[Top(t).once],
                                 !.pc = IF Top(t).spin THEN "cas" ELSE "lock"]
  <2>1. Top(t) \in FrameType /\ once[Top(t).once] \in 0..2
    BY Zenon, <1>1, TopFacts DEF OnceTypeOK
  <2>2. /\ f \in FrameType /\ f.once = Top(t).once /\ f.spin = Top(t).spin
        /\ f.pc \in {"cas", "lock"} /\ (f.pc = "lock" <=> ~f.spin)
    BY Zenon, <2>1 DEF FrameType, PCs
  <2>3. stack' = [stack EXCEPT ![t] = [stack[t] EXCEPT ![Len(stack[t])] = f]]
    BY Zenon, <1>4 DEF OnceLoad, Top
  <2> HIDE DEF f
  <2>4. Moves(t, f)
    BY Zenon, <1>1, <2>2, <2>3, MoveFacts
  <2>5. WordTellsRun'
    BY Zenon, <1>1, <2>2, <2>4, MoveKeepsWord DEF Claimed, ClaimIsTrue
  <2>6. OuterCallsRun' /\ SpinningCallsKeepOff' /\ OneClaimant'
    BY Zenon, <1>1, <2>2, <2>4, MoveKeeps DEF Claimed
  <2>7. cv' = {u \in OnceThreads : At(u, "wait")'}
    BY <1>1, <2>2, <2>4 DEF Moves, OnceTypeOK, At
  <2>8. OnceTypeOK'
    BY Zenon, <1>1, <2>4, <2>7, MoveKeepsTypes DEF Moves, OnceTypeOK
  <2>9. MutexIsHeldOutsideRuns'
    BY Zenon, <1>1, <2>2, <2>4 DEF Moves, MutexIsHeldOutsideRuns
  <2>10. NoSleeperAtStore'
    BY Zenon, <1>1, <1>2, <2>2, <2>4 DEF Moves, NoSleeperAtStore, At
  <2> QED
    BY Zenon, <1>1, <2>5, <2>6, <2>8, <2>9, <2>10 DEF RunsOnce
<1> QED
  BY Zenon, <1>3, <1>4

\* The mutex is taken.
LEMMA LockInv ==
  ASSUME OnceInv, NEW t \in OnceThreads, Lock(t)
  PROVE  OnceInv'
<1> USE DEF OnceInv
<1>1. /\ Busy(t) /\ Top(t).pc \in {"lock", "relock", "woken"}
      /\ owner = NoThread /\ owner' = t /\ UNCHANGED <<once, cv, started, ended>>
  BY Zenon DEF Lock
<1>2. \A u \in cv : u \in OnceThreads /\ u # t
  BY Zenon, <1>1 DEF OnceTypeOK, At
<1>3. Top(t) \in FrameType /\ ~Top(t).spin
  BY Zenon, <1>1, TopFacts DEF SpinningCallsKeepOff
<1>4. PICK l \in PCs : /\ l \in {"cas", "broadcast", "test"}
                       /\ l = "broadcast" <=> Top(t).pc = "relock"
                       /\ OnceGoto(t, l)
  BY Zenon, <1>1 DEF Lock, PCs
<1>7. PICK f \in FrameType : /\ Moves(t, f)
                             /\ f.once = Top(t).once /\ f.spin = Top(t).spin /\ f.pc = l
  BY Zenon, <1>1, <1>4, GotoFacts
<1>6. f \in FrameType /\ f.once = Top(t).once /\ f.spin = Top(t).spin /\ f.pc = l
  BY Zenon, <1>7
<1>8. WordTellsRun'
  BY Zenon, <1>1, <1>4, <1>6, <1>7, MoveKeepsWord DEF Claimed, ClaimIsTrue
<1>9. OuterCallsRun' /\ SpinningCallsKeepOff' /\ OneClaimant'
  BY Zenon, <1>1, <1>3, <1>4, <1>6, <1>7, MoveKeeps DEF Claimed
<1>10. cv' = {u \in OnceThreads : At(u, "wait")'}
  BY <1>1, <1>4, <1>6, <1>7 DEF Moves, OnceTypeOK, At
<1>11. OnceTypeOK'
  BY Zenon, <1>1, <1>7, <1>10, MoveKeepsTypes DEF Moves, OnceTypeOK
<1>12. MutexIsHeldOutsideRuns'
  BY Zenon, <1>1, <1>3, <1>4, <1>6, <1>7, OnceAssumption DEF Moves, MutexIsHeldOutsideRuns
<1>13. NoSleeperAtStore'
  BY Zenon, <1>1, <1>2, <1>4, <1>6, <1>7 DEF Moves, NoSleeperAtStore, At
<1> QED
  BY Zenon, <1>1, <1>8, <1>9, <1>11, <1>12, <1>13 DEF RunsOnce

\* The loop of the swap from 0 to 1: a call that claims its once is alone, because
\* the once was unclaimed.
LEMMA OnceCasInv ==
  ASSUME OnceInv, NEW t \in OnceThreads, OnceCas(t)
  PROVE  OnceInv'
<1> USE DEF OnceInv
<1>1. Busy(t) /\ Top(t).pc = "cas" /\ UNCHANGED <<owner, cv, started, ended>>
  BY Zenon DEF OnceCas, At
<1>2. \A u \in cv : u \in OnceThreads /\ u # t
  BY Zenon, <1>1 DEF OnceTypeOK, At
<1>3. /\ Top(t) \in FrameType /\ Top(t).once \in Onces
      /\ Top(t) = stack[t][Len(stack[t])] /\ Len(stack[t]) \in 1..Len(stack[t])
  BY Zenon, <1>1, TopFacts
<1>4. PICK l \in PCs : l = IF Claims(t) THEN "unlock_to_run" ELSE "test"
  BY Zenon DEF PCs
<1>5. PICK f \in FrameType :
        /\ f = [Top(t) EXCEPT !.o = 0, !.pc = l]
        /\ f.once = Top(t).once /\ f.spin = Top(t).spin /\ f.pc = l
  <2> DEFINE g == Gone(Top(t), 0, l)
  <2>1. g \in FrameType /\ g.once = Top(t).once /\ g.spin = Top(t).spin /\ g.pc = l
    <3>1. Top(t) \in FrameType /\ 0 \in 0..2
      BY <1>3
    <3> QED
      BY ZenonT(30), <3>1, FrameFields
  <2>2. g = [Top(t) EXCEPT !.o = 0, !.pc = l]
    BY Zenon DEF Gone
  <2> QED
    BY Zenon, <2>1, <2>2
<1>6. stack' = [stack EXCEPT ![t] = [stack[t] EXCEPT ![Len(stack[t])] = f]]
  BY Zenon, <1>4, <1>5 DEF OnceCas, Top
<1>7. /\ f.once = Top(t).once /\ f.spin = Top(t).spin
      /\ f.pc = IF Claims(t) THEN "unlock_to_run" ELSE "test"
  BY Zenon, <1>4, <1>5
<1>8. Moves(t, f)
  BY Zenon, <1>1, <1>6, <1>7, MoveFacts
<1>9. cv' = {u \in OnceThreads : At(u, "wait")'}
  BY <1>1, <1>7, <1>8 DEF Moves, OnceTypeOK, At
<1>10. once' \in [Onces -> 0..2]
  BY <1>3 DEF OnceCas, OnceTypeOK
<1>11. OnceTypeOK'
  BY Zenon, <1>1, <1>8, <1>9, <1>10, MoveKeepsTypes DEF Moves, OnceTypeOK
<1>12. MutexIsHeldOutsideRuns'
  BY Zenon, <1>1, <1>7, <1>8 DEF Moves, MutexIsHeldOutsideRuns
<1>13. NoSleeperAtStore'
  BY Zenon, <1>1, <1>2, <1>7, <1>8 DEF Moves, NoSleeperAtStore, At
<1>14. CASE Claims(t)
  <2>1. once[f.once] = 0 /\ once' = [once EXCEPT ![f.once] = 1] /\ f.pc = "unlock_to_run"
    BY Zenon, <1>7, <1>14 DEF OnceCas, Claims
  <2>2. once \in [Onces -> 0..2] /\ f.once \in Onces
    BY Zenon, <1>3, <1>7 DEF OnceTypeOK
  <2>3. ASSUME NEW u \in OnceThreads, NEW d \in 1..Len(stack[u]),
               stack[u][d].pc \in Claimed
        PROVE  stack[u][d].once # f.once /\ stack[u][d].once \in Onces
    <3>1. stack[u][d] \in FrameType
      BY Zenon, ElementOfSeq DEF OnceTypeOK, FrameType
    <3>2. ClaimIsTrue(stack[u][d], once, started, ended)
      BY Zenon DEF WordTellsRun
    <3> QED
      BY <2>1, <2>3, <3>1, <3>2 DEF ClaimIsTrue, FrameType
  <2>4. WordTellsRun'
    <3>1. \A x \in Onces : /\ once'[x] = 0 => started[x] = 0 /\ ended[x] = 0
                           /\ once'[x] = 2 => started[x] = 1 /\ ended[x] = 1
      BY <2>1, <2>2 DEF WordTellsRun
    <3>2. started[f.once] = 0 /\ ended[f.once] = 0 /\ once'[f.once] = 1
      BY Zenon, <2>1, <2>2 DEF WordTellsRun
    <3>3. \A x \in Onces \ {f.once} : once'[x] = once[x]
      BY Zenon, <2>1, <2>2
    <3>4. ClaimIsTrue(f, once', started', ended')
      BY Zenon, <1>1, <2>1, <3>2 DEF ClaimIsTrue
    <3>5. ASSUME NEW u \in OnceThreads, NEW d \in 1..Len(stack'[u])
          PROVE  ClaimIsTrue(stack'[u][d], once', started', ended')
      <4>1. CASE u = t /\ d = Len(stack[t])
        BY Zenon, <1>8, <3>4, <4>1 DEF Moves
      <4>2. CASE ~(u = t /\ d = Len(stack[t]))
        <5>1. stack'[u][d] = stack[u][d] /\ d \in 1..Len(stack[u])
          BY Zenon, <1>8, <4>2 DEF Moves
        <5>2. ClaimIsTrue(stack[u][d], once, started, ended)
          BY Zenon, <5>1 DEF WordTellsRun
        <5> QED
          BY Zenon, <1>1, <2>3, <3>3, <5>1, <5>2 DEF ClaimIsTrue
      <4> QED
        BY Zenon, <4>1, <4>2
    <3> QED
      BY Zenon, <1>1, <3>1, <3>5 DEF WordTellsRun
  <2>5. OneClaimant'
    <3>1. ASSUME NEW u \in OnceThreads, NEW d \in 1..Len(stack'[u]), stack'[u][d].pc \in Claimed,
                 stack'[u][d].once = f.once
          PROVE  u = t /\ d = Len(stack[t])
      BY <1>8, <2>3, <3>1 DEF Moves
    <3>2. ASSUME NEW u \in OnceThreads, NEW d \in 1..Len(stack'[u]), ~(u = t /\ d = Len(stack[t]))
          PROVE  d \in 1..Len(stack[u]) /\ stack'[u][d] = stack[u][d]
      BY Zenon, <1>8, <3>2 DEF Moves
    <3>3. \A d \in 1..Len(stack'[t]) : d = Len(stack[t]) => stack'[t][d].once = f.once
      BY Zenon, <1>8 DEF Moves
    <3> SUFFICES ASSUME NEW u \in OnceThreads, NEW v \in OnceThreads,
                        NEW d \in 1..Len(stack'[u]), NEW j \in 1..Len(stack'[v]),
                        stack'[u][d].pc \in Claimed, stack'[v][j].pc \in Claimed,
                        stack'[u][d].once = stack'[v][j].once
                 PROVE  u = v /\ d = j
      BY DEF OneClaimant
    <3>4. CASE stack'[u][d].once = f.once
      BY Zenon, <3>1, <3>4
    <3>5. CASE stack'[u][d].once # f.once
      <4>1. d \in 1..Len(stack[u]) /\ stack'[u][d] = stack[u][d]
        BY Zenon, <3>2, <3>3, <3>5
      <4>2. j \in 1..Len(stack[v]) /\ stack'[v][j] = stack[v][j]
        BY Zenon, <3>2, <3>3, <3>5
      <4> QED
        BY <4>1, <4>2 DEF OneClaimant
    <3> QED
      BY Zenon, <3>4, <3>5
  <2>6. OuterCallsRun'
    BY SMTT(30), <1>3, <1>8, Lengths DEF Moves, OuterCallsRun
  <2>7. SpinningCallsKeepOff'
    BY <1>8, <2>1 DEF Moves, SpinningCallsKeepOff
  <2> QED
    BY SMTT(30), <1>1, <1>11, <1>12, <1>13, <2>4, <2>5, <2>6, <2>7 DEF RunsOnce
<1>15. CASE ~Claims(t)
  <2>1. f.pc = "test" /\ once' = once
    BY Zenon, <1>7, <1>15 DEF OnceCas
  <2>2. WordTellsRun'
    BY Zenon, <1>1, <1>7, <1>8, <2>1, MoveKeepsWord DEF Claimed, ClaimIsTrue
  <2>3. OuterCallsRun' /\ SpinningCallsKeepOff' /\ OneClaimant'
    BY Zenon, <1>1, <1>7, <1>8, <2>1, MoveKeeps DEF Claimed
  <2> QED
    BY Zenon, <1>1, <1>11, <1>12, <1>13, <2>2, <2>3 DEF RunsOnce
<1> QED
  BY Zenon, <1>14, <1>15

\* What a call does to its own once leaves the claims of the others as they were: a
\* once has one.
LEMMA OthersClaim ==
  ASSUME OnceInv, NEW t \in OnceThreads, Busy(t), Top(t).pc \in Claimed,
         \A y \in Onces \ {Top(t).once} :
           once'[y] = once[y] /\ started'[y] = started[y] /\ ended'[y] = ended[y]
  PROVE  \A u \in OnceThreads : \A d \in 1..Len(stack[u]) :
           ~(u = t /\ d = Len(stack[t])) =>
             ClaimIsTrue(stack[u][d], once', started', ended')
<1> SUFFICES ASSUME NEW u \in OnceThreads, NEW d \in 1..Len(stack[u]),
                    ~(u = t /\ d = Len(stack[t]))
             PROVE  ClaimIsTrue(stack[u][d], once', started', ended')
  BY Zenon
<1>1. stack[u][d] \in FrameType
  BY Zenon, ElementOfSeq DEF OnceInv, OnceTypeOK, FrameType
<1>2. Top(t) = stack[t][Len(stack[t])] /\ Len(stack[t]) \in 1..Len(stack[t])
  BY Zenon, TopFacts DEF OnceInv
<1>3. stack[u][d].pc \in Claimed => stack[u][d].once # Top(t).once
  BY <1>2 DEF OnceInv, OneClaimant
<1>4. stack[u][d].once \in Onces
  BY Zenon, <1>1 DEF FrameType
<1>5. ClaimIsTrue(stack[u][d], once, started, ended)
  BY Zenon DEF OnceInv, WordTellsRun
<1> QED
  BY Zenon, <1>3, <1>4, <1>5 DEF ClaimIsTrue

\* The function starts: it has not been started before.
LEMMA RunInv ==
  ASSUME OnceInv, NEW t \in OnceThreads, Run(t)
  PROVE  OnceInv'
<1> USE DEF OnceInv
<1>1. Busy(t) /\ Top(t).pc = "unlock_to_run" /\ UNCHANGED <<once, cv, ended>>
  BY Zenon DEF Run, At
<1>2. \A u \in cv : u \in OnceThreads /\ u # t
  BY Zenon, <1>1 DEF OnceTypeOK, At
<1>0. PICK x \in Onces : x = Top(t).once
  BY Zenon, <1>1, TopFacts
<1>3. /\ Top(t) \in FrameType /\ x \in Onces
      /\ Top(t) = stack[t][Len(stack[t])] /\ Len(stack[t]) \in 1..Len(stack[t])
  BY Zenon, <1>1, TopFacts
<1>4. PICK f \in FrameType :
        /\ f = [Top(t) EXCEPT !.pc = "run"]
        /\ f.once = x /\ f.spin = Top(t).spin /\ f.pc = "run"
  <2> DEFINE g == Gone(Top(t), Top(t).o, "run")
  <2>1. "run" \in PCs /\ Top(t).o \in 0..2
    BY Zenon, <1>3 DEF PCs, FrameType
  <2>2. /\ g \in FrameType /\ g.once = x /\ g.spin = Top(t).spin /\ g.pc = "run"
        /\ g = [Top(t) EXCEPT !.pc = "run"]
    BY <1>0, <1>3, <2>1, FrameFields
  <2> HIDE DEF g
  <2> QED
    BY Zenon, <2>2
<1>5. once[x] = 1 /\ started[x] = 0 /\ ended[x] = 0
  <2>1. ClaimIsTrue(Top(t), once, started, ended)
    BY Zenon, <1>3 DEF WordTellsRun
  <2> QED
    BY Zenon, <1>0, <1>1, <2>1 DEF ClaimIsTrue, Claimed
<1>6. /\ started' \in [Onces -> Nat] /\ started'[x] = 1
      /\ \A y \in Onces \ {x} : started'[y] = started[y]
  BY <1>0, <1>3, <1>5 DEF Run, OnceTypeOK
<1>7. owner' = IF Top(t).spin THEN owner ELSE NoThread
  BY Zenon DEF Run, MutexDuringRun
<1>8. owner' \in OnceThreads \cup {NoThread}
  BY Zenon, <1>7 DEF OnceTypeOK
<1>9. RunsOnce'
  BY <1>6 DEF RunsOnce
<1>10. \A y \in Onces : /\ once[y] = 0 => started'[y] = 0 /\ ended[y] = 0
                        /\ once[y] = 2 => started'[y] = 1 /\ ended[y] = 1
  BY Zenon, <1>5, <1>6 DEF WordTellsRun
<1>11. \A u \in OnceThreads : \A d \in 1..Len(stack[u]) :
         ~(u = t /\ d = Len(stack[t])) => ClaimIsTrue(stack[u][d], once', started', ended')
  BY Zenon, <1>0, <1>1, <1>6, OthersClaim DEF Claimed
<1>14. ClaimIsTrue(f, once', started', ended')
  BY Zenon, <1>1, <1>4, <1>5, <1>6 DEF ClaimIsTrue
<1>12. CASE Inner[x] = NoOnce
  <2>1. Moves(t, f)
    <3>1. "run" \in PCs /\ OnceGoto(t, "run")
      BY Zenon, <1>0, <1>12 DEF Run, PCs
    <3> QED
      BY <1>1, <1>4, <3>1, GotoFacts
  <2>2. OuterCallsRun' /\ SpinningCallsKeepOff' /\ OneClaimant'
    BY Zenon, <1>1, <1>4, <2>1, <1>0, MoveKeeps DEF Claimed
  <2>3. WordTellsRun'
    <3>1. ASSUME NEW u \in OnceThreads, NEW d \in 1..Len(stack'[u])
          PROVE  ClaimIsTrue(stack'[u][d], once', started', ended')
      BY Zenon, <1>11, <1>14, <2>1 DEF Moves
    <3> QED
      BY Zenon, <1>1, <1>10, <3>1 DEF WordTellsRun
  <2>4. cv' = {u \in OnceThreads : At(u, "wait")'}
    BY ZenonT(30), <1>1, <1>4, <2>1 DEF Moves, OnceTypeOK, At
  <2>5. OnceTypeOK'
    BY Zenon, <1>1, <1>6, <1>8, <2>1, <2>4, MoveKeepsTypes DEF Moves, OnceTypeOK
  <2>6. MutexIsHeldOutsideRuns'
    BY ZenonT(30), <1>1, <1>4, <1>7, <2>1, OnceAssumption DEF Moves, MutexIsHeldOutsideRuns
  <2>7. NoSleeperAtStore'
    BY Zenon, <1>1, <1>2, <1>4, <2>1, MoveKeepsSleepers
  <2> QED
    BY Zenon, <1>9, <2>2, <2>3, <2>5, <2>6, <2>7
<1>13. CASE Inner[x] # NoOnce
  <2>1. PICK spin \in BOOLEAN :
          stack' = [stack EXCEPT ![t] = Append([stack[t] EXCEPT ![Len(stack[t])] = f],
                                               Frame(Inner[x], spin))]
    BY Zenon, <1>0, <1>4, <1>13 DEF Run, Top
  <2> DEFINE g == Frame(Inner[x], spin)
  <2>2. g \in FrameType /\ g.pc = "load"
    BY <1>3, <1>13, OnceAssumption DEF Frame, FrameType, PCs
  <2> HIDE DEF g
  <2>3. Pushes(t, f, g)
    BY Zenon, <1>1, <1>4, <2>1, <2>2, PushFacts DEF g
  <2>4. OuterCallsRun' /\ SpinningCallsKeepOff' /\ OneClaimant'
    BY Zenon, <1>0, <1>1, <1>4, <2>2, <2>3, PushKeeps DEF Claimed
  <2>7. WordTellsRun'
    <3>1. ClaimIsTrue(g, once', started', ended')
      BY Zenon, <2>2 DEF ClaimIsTrue, Claimed
    <3>2. ASSUME NEW u \in OnceThreads, NEW d \in 1..Len(stack'[u])
          PROVE  ClaimIsTrue(stack'[u][d], once', started', ended')
      BY Zenon, <1>11, <1>14, <2>3, <3>1 DEF Pushes
    <3> QED
      BY Zenon, <1>1, <1>10, <3>2 DEF WordTellsRun
  <2>8. cv' = {u \in OnceThreads : At(u, "wait")'}
    BY <1>1, <2>2, <2>3 DEF Pushes, OnceTypeOK, At
  <2>9. OnceTypeOK'
    BY Zenon, <1>1, <1>6, <1>8, <2>3, <2>8, MoveKeepsTypes DEF Pushes, OnceTypeOK
  <2>10. MutexIsHeldOutsideRuns'
    BY SMTT(30), <1>1, <1>7, <2>2, <2>3, OnceAssumption DEF Pushes, MutexIsHeldOutsideRuns
  <2>11. NoSleeperAtStore'
    BY SMTT(30), <1>1, <1>2, <2>2, <2>3 DEF Pushes, NoSleeperAtStore, At
  <2> QED
    BY Zenon, <1>9, <2>4, <2>7, <2>9, <2>10, <2>11
<1> QED
  BY Zenon, <1>12, <1>13

\* The function ends.
LEMMA EndRunInv ==
  ASSUME OnceInv, NEW t \in OnceThreads, EndRun(t)
  PROVE  OnceInv'
<1> USE DEF OnceInv
<1>1. Busy(t) /\ Top(t).pc = "run" /\ UNCHANGED <<once, owner, cv, started>>
  BY Zenon DEF EndRun, At
<1>2. \A u \in cv : u \in OnceThreads /\ u # t
  BY Zenon, <1>1 DEF OnceTypeOK, At
<1>3. PICK x \in Onces : x = Top(t).once
  BY Zenon, <1>1, TopFacts
<1>4. Top(t) = stack[t][Len(stack[t])] /\ Len(stack[t]) \in 1..Len(stack[t])
  BY Zenon, <1>1, TopFacts
<1>5. PICK l \in PCs : /\ l \in {"store", "relock"} /\ (l = "store" <=> Top(t).spin)
                       /\ OnceGoto(t, l)
  <2>1. Top(t).spin \in BOOLEAN
    BY Zenon, <1>1, TopFacts
  <2> QED
    BY Zenon, <2>1 DEF EndRun, PCs
<1>6. PICK f \in FrameType : /\ Moves(t, f)
                             /\ f.once = Top(t).once /\ f.spin = Top(t).spin /\ f.pc = l
  BY Zenon, <1>1, <1>5, GotoFacts
<1>7. once[x] = 1 /\ started[x] = 1 /\ ended[x] = 0
  <2>1. ClaimIsTrue(Top(t), once, started, ended)
    BY Zenon, <1>4 DEF WordTellsRun
  <2> QED
    BY Zenon, <1>1, <1>3, <2>1 DEF ClaimIsTrue, Claimed
<1>8. /\ ended' \in [Onces -> Nat] /\ ended'[x] = 1
      /\ \A y \in Onces \ {x} : ended'[y] = ended[y]
  BY <1>3, <1>7 DEF EndRun, OnceTypeOK
<1>9. WordTellsRun'
  <2>1. \A y \in Onces : /\ once[y] = 0 => started[y] = 0 /\ ended'[y] = 0
                         /\ once[y] = 2 => started[y] = 1 /\ ended'[y] = 1
    BY Zenon, <1>7, <1>8 DEF WordTellsRun
  <2>2. \A u \in OnceThreads : \A d \in 1..Len(stack[u]) :
          ~(u = t /\ d = Len(stack[t])) => ClaimIsTrue(stack[u][d], once', started', ended')
    BY Zenon, <1>1, <1>3, <1>8, OthersClaim DEF Claimed
  <2>3. ClaimIsTrue(f, once', started', ended')
    BY Zenon, <1>1, <1>3, <1>5, <1>6, <1>7, <1>8 DEF ClaimIsTrue
  <2>4. ASSUME NEW u \in OnceThreads, NEW d \in 1..Len(stack'[u])
        PROVE  ClaimIsTrue(stack'[u][d], once', started', ended')
    BY <1>6, <2>2, <2>3 DEF Moves
  <2> QED
    BY Zenon, <1>1, <2>1, <2>4 DEF WordTellsRun
<1>10. OuterCallsRun' /\ SpinningCallsKeepOff' /\ OneClaimant'
  BY Zenon, <1>1, <1>5, <1>6, MoveKeeps DEF Claimed
<1>11. cv' = {u \in OnceThreads : At(u, "wait")'}
  <2>1. ASSUME NEW u \in OnceThreads PROVE At(u, "wait")' <=> At(u, "wait")
    <3>1. CASE u = t
      BY Zenon, <1>1, <1>5, <1>6, <3>1 DEF Moves, At
    <3>2. CASE u # t
      BY Zenon, <1>6, <3>2 DEF Moves, At
    <3> QED
      BY Zenon, <3>1, <3>2
  <2>2. cv = {u \in OnceThreads : At(u, "wait")}
    BY Zenon DEF OnceTypeOK
  <2> QED
    BY Zenon, <1>1, <2>1, <2>2
<1>12. OnceTypeOK'
  BY Zenon, <1>1, <1>6, <1>8, <1>11, MoveKeepsTypes DEF Moves, OnceTypeOK
<1>13. MutexIsHeldOutsideRuns'
  BY Zenon, <1>1, <1>5, <1>6 DEF Moves, MutexIsHeldOutsideRuns
<1>14. NoSleeperAtStore'
  BY Zenon, <1>1, <1>2, <1>5, <1>6, MoveKeepsSleepers
<1> QED
  BY Zenon, <1>1, <1>9, <1>10, <1>12, <1>13, <1>14 DEF RunsOnce

\* The store of 2, after which no call claims the once.
LEMMA StoreInv ==
  ASSUME OnceInv, NEW t \in OnceThreads, Store(t)
  PROVE  OnceInv'
<1> USE DEF OnceInv
<1>1. Busy(t) /\ Top(t).pc = "store" /\ UNCHANGED <<owner, cv, started, ended>>
  BY Zenon DEF Store, At
<1>2. \A u \in cv : u \in OnceThreads /\ u # t
  BY Zenon, <1>1 DEF OnceTypeOK, At
<1>3. PICK x \in Onces : x = Top(t).once
  BY Zenon, <1>1, TopFacts
<1>4. Top(t) = stack[t][Len(stack[t])] /\ Len(stack[t]) \in 1..Len(stack[t])
  BY Zenon, <1>1, TopFacts
<1>5. "test" \in PCs /\ OnceGoto(t, "test")
  BY Zenon DEF Store, PCs
<1>6. PICK f \in FrameType : /\ Moves(t, f)
                             /\ f.once = Top(t).once /\ f.spin = Top(t).spin /\ f.pc = "test"
  BY <1>1, <1>5, GotoFacts
<1>7. started[x] = 1 /\ ended[x] = 1
  <2>1. ClaimIsTrue(Top(t), once, started, ended)
    BY Zenon, <1>4 DEF WordTellsRun
  <2> QED
    BY Zenon, <1>1, <1>3, <2>1 DEF ClaimIsTrue, Claimed
<1>8. /\ once' \in [Onces -> 0..2] /\ once'[x] = 2
      /\ \A y \in Onces \ {x} : once'[y] = once[y]
  BY <1>3 DEF Store, OnceTypeOK
<1>9. WordTellsRun'
  <2>1. \A y \in Onces : /\ once'[y] = 0 => started[y] = 0 /\ ended[y] = 0
                         /\ once'[y] = 2 => started[y] = 1 /\ ended[y] = 1
    BY <1>7, <1>8 DEF WordTellsRun
  <2>2. \A u \in OnceThreads : \A d \in 1..Len(stack[u]) :
          ~(u = t /\ d = Len(stack[t])) => ClaimIsTrue(stack[u][d], once', started', ended')
    BY Zenon, <1>1, <1>3, <1>8, OthersClaim DEF Claimed
  <2>3. ClaimIsTrue(f, once', started', ended')
    BY Zenon, <1>6 DEF ClaimIsTrue, Claimed
  <2>4. ASSUME NEW u \in OnceThreads, NEW d \in 1..Len(stack'[u])
        PROVE  ClaimIsTrue(stack'[u][d], once', started', ended')
    BY <1>6, <2>2, <2>3 DEF Moves
  <2> QED
    BY Zenon, <1>1, <2>1, <2>4 DEF WordTellsRun
<1>10. OuterCallsRun' /\ SpinningCallsKeepOff' /\ OneClaimant'
  BY Zenon, <1>1, <1>6, MoveKeeps DEF Claimed
<1>11. cv' = {u \in OnceThreads : At(u, "wait")'}
  BY <1>1, <1>6 DEF Moves, OnceTypeOK, At
<1>12. OnceTypeOK'
  BY Zenon, <1>1, <1>6, <1>8, <1>11, MoveKeepsTypes DEF Moves, OnceTypeOK
<1>13. MutexIsHeldOutsideRuns'
  BY Zenon, <1>1, <1>6 DEF Moves, MutexIsHeldOutsideRuns
<1>14. NoSleeperAtStore'
  BY Zenon, <1>1, <1>2, <1>6, MoveKeepsSleepers
<1> QED
  BY Zenon, <1>1, <1>9, <1>10, <1>12, <1>13, <1>14 DEF RunsOnce

\* The deadline of a wait passes.
LEMMA ExpireInv ==
  ASSUME OnceInv, NEW t \in OnceThreads, Expire(t)
  PROVE  OnceInv'
<1> USE DEF OnceInv
<1>1. /\ Busy(t) /\ Top(t).pc = "wait" /\ UNCHANGED <<once, owner, started, ended>>
      /\ cv' = cv \ {t}
  BY Zenon DEF Expire, At, CvAfterDeadline
<1>2. Top(t) = stack[t][Len(stack[t])] /\ Len(stack[t]) \in 1..Len(stack[t])
  BY Zenon, <1>1, TopFacts
<1>3. "woken" \in PCs /\ OnceGoto(t, "woken") /\ ~Top(t).spin
  BY Zenon, <1>1, <1>2 DEF Expire, PCs, SpinningCallsKeepOff
<1>4. PICK f \in FrameType : /\ Moves(t, f)
                             /\ f.once = Top(t).once /\ f.spin = Top(t).spin /\ f.pc = "woken"
  BY Zenon, <1>1, <1>3, GotoFacts
<1>5. WordTellsRun'
  BY Zenon, <1>1, <1>4, MoveKeepsWord DEF Claimed, ClaimIsTrue
<1>6. OuterCallsRun' /\ SpinningCallsKeepOff' /\ OneClaimant'
  BY Zenon, <1>1, <1>3, <1>4, MoveKeeps DEF Claimed
<1>7. cv' = {u \in OnceThreads : At(u, "wait")'}
  BY <1>1, <1>4 DEF Moves, OnceTypeOK, At
<1>8. OnceTypeOK'
  BY Zenon, <1>1, <1>4, <1>7, MoveKeepsTypes DEF Moves, OnceTypeOK
<1>9. MutexIsHeldOutsideRuns'
  BY Zenon, <1>1, <1>4 DEF Moves, MutexIsHeldOutsideRuns
<1>10. NoSleeperAtStore'
  BY Zenon, <1>1, <1>4, MoveKeepsSleepers
<1> QED
  BY Zenon, <1>1, <1>5, <1>6, <1>8, <1>9, <1>10 DEF RunsOnce

\* The waiting loop.  A blocking call that goes to sleep holds the mutex, so no
\* blocking call is at its store.
LEMMA TestInv ==
  ASSUME OnceInv, NEW t \in OnceThreads, Test(t)
  PROVE  OnceInv'
<1> USE DEF OnceInv
<1>1. Busy(t) /\ Top(t).pc = "test" /\ UNCHANGED <<once, started, ended>>
  BY Zenon DEF Test, At
<1>2. \A u \in cv : u \in OnceThreads /\ u # t
  BY Zenon, <1>1 DEF OnceTypeOK, At
<1>3. CASE Done(Top(t).once)
  <2>1. /\ OnceReturn(t) /\ owner' = IF Top(t).spin THEN owner ELSE NoThread
        /\ cv' = cv
    BY Zenon, <1>3 DEF Test
  <2>2. Pops(t)
    BY Zenon, <1>1, <2>1, ReturnFacts
  <2>3. WordTellsRun'
    BY Zenon, <1>1, <2>2, SameCounts DEF Pops, WordTellsRun
  <2>4. cv' = {u \in OnceThreads : At(u, "wait")'}
    BY <1>1, <2>1, <2>2 DEF Pops, OnceTypeOK, At
  <2>5. OnceTypeOK'
    BY Zenon, <1>1, <2>1, <2>2, <2>4, MoveKeepsTypes DEF Pops, OnceTypeOK
  <2>6. MutexIsHeldOutsideRuns'
    BY SMTT(30), <1>1, <2>1, <2>2, OnceAssumption DEF Pops, MutexIsHeldOutsideRuns
  <2>7. NoSleeperAtStore'
    BY <1>1, <1>2, <2>1, <2>2 DEF Pops, NoSleeperAtStore, At
  <2> QED
    BY SMTT(30), <1>1, <2>2, <2>3, <2>5, <2>6, <2>7, PopKeeps DEF RunsOnce
<1>4. CASE ~Done(Top(t).once)
  <2>1. /\ ~Top(t).spin /\ owner' = NoThread /\ cv' = cv \cup {t}
        /\ "wait" \in PCs /\ OnceGoto(t, "wait")
    BY Zenon, <1>4 DEF Test, PCs
  <2>2. PICK f \in FrameType : /\ Moves(t, f)
                               /\ f.once = Top(t).once /\ f.spin = Top(t).spin /\ f.pc = "wait"
    BY Zenon, <1>1, <2>1, GotoFacts
  <2>3. WordTellsRun'
    BY Zenon, <1>1, <2>2, MoveKeepsWord DEF Claimed, ClaimIsTrue
  <2>4. OuterCallsRun' /\ SpinningCallsKeepOff' /\ OneClaimant'
    BY Zenon, <1>1, <2>1, <2>2, MoveKeeps DEF Claimed
  <2>5. cv' = {u \in OnceThreads : At(u, "wait")'}
    BY <1>1, <2>1, <2>2 DEF Moves, OnceTypeOK, At
  <2>6. OnceTypeOK'
    BY Zenon, <1>1, <2>1, <2>2, <2>5, MoveKeepsTypes DEF Moves, OnceTypeOK
  <2>7. owner = t
    BY Zenon, <1>1, <2>1 DEF MutexIsHeldOutsideRuns
  <2>8. MutexIsHeldOutsideRuns'
    BY <1>1, <2>1, <2>2, <2>7, OnceAssumption DEF Moves, MutexIsHeldOutsideRuns
  <2>9. \A u \in OnceThreads : At(u, "store")' => Top(u)'.spin
    <3> SUFFICES ASSUME NEW u \in OnceThreads, At(u, "store")' PROVE Top(u)'.spin
      BY Zenon
    <3>1. u # t
      BY Zenon, <2>2 DEF Moves, At
    <3>2. Busy(u) /\ Top(u).pc = "store" /\ Top(u)' = Top(u)
      BY Zenon, <2>2, <3>1 DEF Moves, At
    <3> QED
      BY Zenon, <2>7, <3>1, <3>2 DEF MutexIsHeldOutsideRuns
  <2>10. NoSleeperAtStore'
    BY Zenon, <2>9 DEF NoSleeperAtStore
  <2> QED
    BY Zenon, <1>1, <2>3, <2>4, <2>6, <2>8, <2>10 DEF RunsOnce
<1> QED
  BY Zenon, <1>3, <1>4

\* A thread calls nsync_run_once or one of its variants.
LEMMA CallInv ==
  ASSUME OnceInv, NEW t \in OnceThreads, NEW x \in CalledBy[t], NEW spin \in BOOLEAN,
         Call(t, x, spin)
  PROVE  OnceInv'
<1> USE DEF OnceInv
<1>1. /\ stack[t] = <<>> /\ stack' = [stack EXCEPT ![t] = <<Frame(x, spin)>>]
      /\ UNCHANGED <<once, owner, cv, started, ended>>
  BY Zenon DEF Call, Busy
<1> DEFINE g == Frame(x, spin)
<1>2. g \in FrameType /\ g.pc = "load"
  BY OnceAssumption DEF Frame, FrameType, PCs
<1> HIDE DEF g
<1>3. Pushes(t, g, g)
  <2>1. stack \in [OnceThreads -> Seq(FrameType)] /\ Len(stack[t]) = 0
    BY Zenon, <1>1 DEF OnceTypeOK, FrameType
  <2>2. /\ <<g>> \in Seq(FrameType) /\ Len(<<g>>) = 1 /\ <<g>>[1] = g /\ <<g>> # <<>>
        /\ \A d \in 1..1 : d = 1
    BY <1>2
  <2>3. stack' \in [OnceThreads -> Seq(FrameType)] /\ stack'[t] = <<g>>
        /\ \A u \in OnceThreads \ {t} : stack'[u] = stack[u]
    BY Zenon, <1>1, <2>1, <2>2 DEF g
  <2>4. Busy(t)' /\ Top(t)' = g
    BY Zenon, <2>2, <2>3 DEF Busy, Top
  <2>5. \A u \in OnceThreads \ {t} : (Busy(u)' <=> Busy(u)) /\ Top(u)' = Top(u)
    BY Zenon, <2>3 DEF Busy, Top
  <2>6. ASSUME NEW d \in 1..Len(stack'[t]) PROVE d = Len(stack[t]) + 1 /\ stack'[t][d] = g
    BY <2>1, <2>2, <2>3
  <2>7. Len(stack'[t]) = Len(stack[t]) + 1
    BY <2>1, <2>2, <2>3
  <2> QED
    BY Zenon, <2>3, <2>4, <2>5, <2>6, <2>7 DEF Pushes
<1>4. OuterCallsRun' /\ SpinningCallsKeepOff' /\ OneClaimant'
  BY Zenon, <1>1, <1>2, <1>3, PushKeeps DEF Busy
<1>5. WordTellsRun'
  <2>1. ClaimIsTrue(g, once, started, ended)
    BY Zenon, <1>2 DEF ClaimIsTrue, Claimed
  <2>2. ASSUME NEW u \in OnceThreads, NEW d \in 1..Len(stack'[u])
        PROVE  ClaimIsTrue(stack'[u][d], once, started, ended)
    BY Zenon, <1>3, <2>1 DEF Pushes, WordTellsRun
  <2> QED
    BY Zenon, <1>1, <2>2, SameCounts
<1>6. cv' = {u \in OnceThreads : At(u, "wait")'}
  BY <1>1, <1>2, <1>3 DEF Pushes, OnceTypeOK, At, Busy
<1>7. OnceTypeOK'
  BY Zenon, <1>1, <1>3, <1>6, MoveKeepsTypes DEF Pushes, OnceTypeOK
<1>8. MutexIsHeldOutsideRuns'
  BY SMTT(30), <1>1, <1>2, <1>3 DEF Pushes, MutexIsHeldOutsideRuns, Busy
<1>9. NoSleeperAtStore'
  <2>1. \A u \in cv : u \in OnceThreads /\ u # t
    BY Zenon, <1>1 DEF OnceTypeOK, At, Busy
  <2> QED
    BY <1>1, <1>2, <1>3, <2>1 DEF Pushes, NoSleeperAtStore, At
<1> QED
  BY Zenon, <1>1, <1>4, <1>5, <1>7, <1>8, <1>9 DEF RunsOnce

\* The innermost call of u goes to l, whatever the other threads do.
LEMMA RowFacts ==
  ASSUME OnceTypeOK, NEW u \in OnceThreads, Busy(u), NEW l \in PCs,
         stack'[u] = [stack[u] EXCEPT ![Len(stack[u])].pc = l]
  PROVE  /\ stack'[u] \in Seq(FrameType) /\ Len(stack'[u]) = Len(stack[u])
         /\ Busy(u)' /\ Top(u)' \in FrameType
         /\ Top(u)'.once = Top(u).once /\ Top(u)'.spin = Top(u).spin /\ Top(u)'.pc = l
         /\ \A d \in 1..Len(stack[u]) :
              stack'[u][d] = IF d = Len(stack[u]) THEN Top(u)' ELSE stack[u][d]
<1> DEFINE g == Gone(Top(u), Top(u).o, l)
<1>1. /\ Top(u) \in FrameType /\ Top(u).o \in 0..2
      /\ stack[u] \in Seq(FrameType) /\ Len(stack[u]) \in 1..Len(stack[u])
  BY Zenon, TopFacts DEF FrameType
<1>2. /\ g \in FrameType /\ g = [Top(u) EXCEPT !.pc = l]
      /\ g.once = Top(u).once /\ g.spin = Top(u).spin /\ g.pc = l
  BY <1>1, FrameFields
<1> HIDE DEF g
<1>3. stack'[u] = [stack[u] EXCEPT ![Len(stack[u])] = g]
  BY Zenon, <1>2 DEF Top
<1>4. /\ stack'[u] \in Seq(FrameType) /\ Len(stack'[u]) = Len(stack[u])
      /\ \A d \in 1..Len(stack[u]) : stack'[u][d] = IF d = Len(stack[u]) THEN g ELSE stack[u][d]
  BY SMTT(30), <1>1, <1>2, <1>3, ExceptSeq
<1>5. Busy(u)' /\ Top(u)' = g
  BY <1>1, <1>4 DEF Busy, Top
<1> QED
  BY Zenon, <1>2, <1>4, <1>5

\* The broadcast: every sleeper is woken, and the caller goes to its store.
LEMMA BroadcastInv ==
  ASSUME OnceInv, NEW t \in OnceThreads, Broadcast(t)
  PROVE  OnceInv'
<1> USE DEF OnceInv
<1>1. Busy(t) /\ Top(t).pc = "broadcast" /\ UNCHANGED <<once, owner, started, ended>>
  BY Zenon DEF Broadcast, At
<1>2. cv' = {} /\ t \notin cv /\ cv \subseteq OnceThreads
  BY Zenon, <1>1 DEF Broadcast, Woken, OnceTypeOK, At
<1>3. "woken" \in PCs /\ "store" \in PCs
  BY Zenon DEF PCs
<1>4. stack' = [u \in OnceThreads |->
                  IF u \in cv THEN [stack[u] EXCEPT ![Len(stack[u])].pc = "woken"]
                  ELSE IF u = t THEN [stack[t] EXCEPT ![Len(stack[t])].pc = "store"]
                  ELSE stack[u]]
  BY Zenon DEF Broadcast, Woken
<1>5. \A u \in OnceThreads : u \in cv => Busy(u) /\ Top(u).pc = "wait"
  BY Zenon DEF OnceTypeOK, At
<1>6. \A u \in OnceThreads \ (cv \cup {t}) :
        stack'[u] = stack[u] /\ (Busy(u)' <=> Busy(u)) /\ Top(u)' = Top(u)
  BY Zenon, <1>4 DEF Busy, Top
<1> DEFINE Row(u, l) ==
             /\ stack'[u] \in Seq(FrameType) /\ Len(stack'[u]) = Len(stack[u])
             /\ Busy(u)' /\ Top(u)' \in FrameType
             /\ Top(u)'.once = Top(u).once /\ Top(u)'.spin = Top(u).spin /\ Top(u)'.pc = l
             /\ \A d \in 1..Len(stack[u]) :
                  stack'[u][d] = IF d = Len(stack[u]) THEN Top(u)' ELSE stack[u][d]
<1>7. \A u \in cv : Row(u, "woken")
  <2> SUFFICES ASSUME NEW u \in cv PROVE Row(u, "woken")
    BY Zenon
  <2>1. u \in OnceThreads /\ Busy(u) /\ stack'[u] = [stack[u] EXCEPT ![Len(stack[u])].pc = "woken"]
    BY Zenon, <1>2, <1>4, <1>5
  <2> QED
    BY Zenon, <1>3, <2>1, RowFacts
<1>8. Row(t, "store")
  <2>1. stack'[t] = [stack[t] EXCEPT ![Len(stack[t])].pc = "store"]
    BY Zenon, <1>2, <1>4
  <2> QED
    BY Zenon, <1>1, <1>3, <2>1, RowFacts
<1>9. \A u \in OnceThreads : /\ Len(stack'[u]) = Len(stack[u]) /\ stack'[u] \in Seq(FrameType)
                             /\ Len(stack[u]) \in Nat
  BY Zenon, <1>6, <1>7, <1>8, Lengths DEF OnceTypeOK, FrameType
<1>10. ASSUME NEW u \in OnceThreads, NEW d \in 1..Len(stack[u])
       PROVE  \/ stack'[u][d] = stack[u][d]
              \/ /\ d = Len(stack[u]) /\ u = t /\ stack[u][d] = Top(u)
                 /\ stack'[u][d] = Top(u)' /\ stack'[u][d].pc = "store"
                 /\ stack'[u][d].once = Top(u).once /\ stack'[u][d].spin = Top(u).spin
              \/ /\ d = Len(stack[u]) /\ u \in cv /\ stack[u][d] = Top(u)
                 /\ stack'[u][d].pc = "woken"
                 /\ stack'[u][d].once = Top(u).once /\ stack'[u][d].spin = Top(u).spin
  BY <1>6, <1>7, <1>8 DEF Top
<1> HIDE DEF Row
<1>11. Top(t) = stack[t][Len(stack[t])] /\ Len(stack[t]) \in 1..Len(stack[t]) /\ ~Top(t).spin
  BY Zenon, <1>1, TopFacts DEF SpinningCallsKeepOff
<1>12. OuterCallsRun'
  <2> SUFFICES ASSUME NEW u \in OnceThreads, NEW d \in 1..Len(stack'[u]) - 1
               PROVE  stack'[u][d].pc = "run"
    BY Zenon DEF OuterCallsRun
  <2>1. d \in 1..Len(stack[u]) /\ d # Len(stack[u]) /\ d \in 1..Len(stack[u]) - 1
    BY <1>9
  <2>2. stack'[u][d] = stack[u][d]
    BY Zenon, <1>10, <2>1
  <2> QED
    BY Zenon, <2>1, <2>2 DEF OuterCallsRun
<1>13. SpinningCallsKeepOff'
  BY SMTT(30), <1>5, <1>9, <1>10, <1>11 DEF SpinningCallsKeepOff
<1>14. ASSUME NEW u \in OnceThreads, NEW d \in 1..Len(stack'[u]), stack'[u][d].pc \in Claimed
       PROVE  /\ d \in 1..Len(stack[u]) /\ stack[u][d].pc \in Claimed
              /\ stack'[u][d].once = stack[u][d].once
  BY SMTT(30), <1>1, <1>9, <1>10, <1>14 DEF Claimed
<1>15. OneClaimant'
  BY <1>14 DEF OneClaimant
<1>16. WordTellsRun'
  <2>1. ASSUME NEW u \in OnceThreads, NEW d \in 1..Len(stack'[u])
        PROVE  ClaimIsTrue(stack'[u][d], once, started, ended)
    <3>1. d \in 1..Len(stack[u])
      BY Zenon, <1>9
    <3>2. ClaimIsTrue(stack[u][d], once, started, ended)
      BY Zenon, <3>1 DEF WordTellsRun
    <3>3. CASE stack'[u][d] = stack[u][d]
      BY Zenon, <3>2, <3>3
    <3>4. CASE stack'[u][d] # stack[u][d]
      BY ZenonT(30), <1>1, <1>10, <3>1, <3>2, <3>4 DEF ClaimIsTrue, Claimed
    <3> QED
      BY Zenon, <3>3, <3>4
  <2> QED
    BY Zenon, <1>1, <2>1, SameCounts
<1>17. \A u \in OnceThreads : ~At(u, "wait")'
  BY Zenon, <1>5, <1>6, <1>7, <1>8 DEF At, Row, OnceTypeOK
<1>18. OnceTypeOK'
  <2>1. stack' \in [OnceThreads -> Seq(FrameType)]
    BY Zenon, <1>4, <1>9
  <2> QED
    BY Zenon, <1>1, <1>2, <1>17, <2>1, MoveKeepsTypes DEF OnceTypeOK
<1>19. MutexIsHeldOutsideRuns'
  BY <1>1, <1>5, <1>6, <1>7, <1>8, <1>11 DEF MutexIsHeldOutsideRuns, Row
<1>20. NoSleeperAtStore'
  BY Zenon, <1>2 DEF NoSleeperAtStore
<1> QED
  BY Zenon, <1>1, <1>12, <1>13, <1>15, <1>16, <1>18, <1>19, <1>20 DEF RunsOnce

-----------------------------------------------------------------------------

\* No thread has called yet.
LEMMA InitInv == OnceInit => OnceInv
<1> SUFFICES ASSUME OnceInit PROVE OnceInv
  BY Zenon
<1>1. \A t \in OnceThreads : stack[t] = <<>> /\ Len(stack[t]) = 0 /\ ~Busy(t)
  BY Zenon DEF OnceInit, Busy
<1>2. OnceTypeOK
  BY <1>1 DEF OnceInit, OnceTypeOK, At
<1>3. RunsOnce /\ NoSleeperAtStore
  BY <1>1 DEF OnceInit, RunsOnce, NoSleeperAtStore, At
<1>4. MutexIsHeldOutsideRuns
  BY Zenon, <1>1, OnceAssumption DEF OnceInit, MutexIsHeldOutsideRuns
<1>5. OuterCallsRun /\ SpinningCallsKeepOff /\ OneClaimant
  BY <1>1 DEF OuterCallsRun, SpinningCallsKeepOff, OneClaimant
<1>6. WordTellsRun
  BY <1>1 DEF OnceInit, WordTellsRun
<1> QED
  BY Zenon, <1>2, <1>3, <1>4, <1>5, <1>6 DEF OnceInv

\* Every step keeps the invariant.
LEMMA NextInv == OnceInv /\ [OnceNext]_onceVars => OnceInv'
<1> SUFFICES ASSUME OnceInv, [OnceNext]_onceVars PROVE OnceInv'
  BY Zenon
<1>1. CASE UNCHANGED onceVars
  <2>1. UNCHANGED <<once, owner, cv, stack, started, ended>>
    BY Zenon, <1>1 DEF onceVars
  <2>2. OnceTypeOK' /\ RunsOnce' /\ NoSleeperAtStore' /\ MutexIsHeldOutsideRuns'
    BY Zenon, <2>1 DEF OnceInv, OnceTypeOK, RunsOnce, NoSleeperAtStore, MutexIsHeldOutsideRuns,
       Busy, Top, At
  <2>3. OuterCallsRun' /\ SpinningCallsKeepOff' /\ OneClaimant'
    BY <2>1 DEF OnceInv, OuterCallsRun, SpinningCallsKeepOff, OneClaimant
  <2>4. WordTellsRun'
    BY Zenon, <2>1 DEF OnceInv, WordTellsRun
  <2> QED
    BY Zenon, <2>2, <2>3, <2>4 DEF OnceInv
<1>2. ASSUME NEW t \in OnceThreads, OnceStep(t)
      PROVE  OnceInv'
  BY Zenon, <1>2, OnceLoadInv, LockInv, OnceCasInv, RunInv, EndRunInv, BroadcastInv, StoreInv,
     TestInv, ExpireInv DEF OnceStep
<1>3. ASSUME NEW t \in OnceThreads, NEW x \in CalledBy[t], NEW spin \in BOOLEAN,
             Call(t, x, spin)
      PROVE  OnceInv'
  BY Zenon, <1>3, CallInv
<1> QED
  BY Zenon, <1>1, <1>2, <1>3 DEF OnceNext

\* Calls that share a once_sync_s, at any depth and of any number of threads, run
\* each function at most once and with the mutex free, and a blocking call that has
\* run it leaves no caller asleep.
THEOREM OnceInvariance == OnceSpec => []OnceInv
<1> QED
  BY InitInv, NextInv, PTL DEF OnceSpec

\* A step that shortens a stack is a return, after the load on entry or the test of
\* the waiting loop found the once done.
LEMMA ShorterIsReturn ==
  ASSUME OnceInv, NEW t \in OnceThreads, OnceStep(t),
         NEW u \in OnceThreads, Len(stack'[u]) < Len(stack[u])
  PROVE  u = t /\ Busy(t) /\ once[Top(t).once] = 2
<1> USE DEF OnceInv
<1>0. Len(stack[u]) \in Nat /\ OnceTypeOK
  BY Zenon, Lengths
<1>1. ASSUME NEW f, Moves(t, f) PROVE FALSE
  BY <1>0, <1>1 DEF Moves
<1>2. ASSUME NEW l \in PCs, Busy(t), OnceGoto(t, l) PROVE FALSE
  BY Zenon, <1>1, <1>2, GotoFacts
<1>3. ASSUME Pops(t) PROVE u = t
  BY <1>0, <1>3 DEF Pops
<1>4. CASE OnceLoad(t)
  <2>1. Busy(t) /\ Top(t).pc = "load"
    BY Zenon, <1>4 DEF OnceLoad, At
  <2>2. CASE once[Top(t).once] = 2
    BY Zenon, <1>3, <1>4, <2>1, <2>2, ReturnFacts DEF OnceLoad
  <2>3. CASE once[Top(t).once] # 2
    <3> DEFINE f == [Top(t) EXCEPT !.o = once[Top(t).once],
                                   !.pc = IF Top(t).spin THEN "cas" ELSE "lock"]
    <3>1. Top(t) \in FrameType /\ once[Top(t).once] \in 0..2
      BY Zenon, <2>1, TopFacts DEF OnceTypeOK
    <3>2. f \in FrameType
      BY Zenon, <3>1 DEF FrameType, PCs
    <3>3. stack' = [stack EXCEPT ![t] = [stack[t] EXCEPT ![Len(stack[t])] = f]]
      BY Zenon, <1>4, <2>3 DEF OnceLoad, Top
    <3> HIDE DEF f
    <3> QED
      BY Zenon, <1>1, <2>1, <3>2, <3>3, MoveFacts
  <2> QED
    BY Zenon, <2>2, <2>3
<1>5. CASE Lock(t)
  BY Zenon, <1>2, <1>5 DEF Lock, PCs
<1>6. CASE OnceCas(t)
  <2>1. Busy(t) /\ Top(t) \in FrameType
    BY Zenon, <1>6, TopFacts DEF OnceCas, At
  <2>2. PICK l \in PCs : l = IF Claims(t) THEN "unlock_to_run" ELSE "test"
    BY Zenon DEF PCs
  <2> DEFINE f == Gone(Top(t), 0, l)
  <2>3. 0 \in 0..2
    OBVIOUS
  <2>4. f \in FrameType
    BY Zenon, <2>1, <2>3, FrameFields
  <2>5. stack' = [stack EXCEPT ![t] = [stack[t] EXCEPT ![Len(stack[t])] = f]]
    BY Zenon, <1>6, <2>2 DEF OnceCas, Top, Gone
  <2> HIDE DEF f
  <2> QED
    BY Zenon, <1>1, <2>1, <2>4, <2>5, MoveFacts
<1>7. CASE Run(t)
  <2>1. Busy(t) /\ Top(t) \in FrameType /\ Top(t).once \in Onces
    BY Zenon, <1>7, TopFacts DEF Run, At
  <2>2. CASE Inner[Top(t).once] = NoOnce
    BY Zenon, <1>2, <1>7, <2>1, <2>2 DEF Run, PCs
  <2>3. CASE Inner[Top(t).once] # NoOnce
    <3> DEFINE f == [Top(t) EXCEPT !.pc = "run"]
    <3>1. f \in FrameType
      BY Zenon, <2>1 DEF FrameType, PCs
    <3>2. PICK spin \in BOOLEAN :
            stack' = [stack EXCEPT ![t] = Append([stack[t] EXCEPT ![Len(stack[t])] = f],
                                                 Frame(Inner[Top(t).once], spin))]
      BY Zenon, <1>7, <2>3 DEF Run, Top
    <3> DEFINE g == Frame(Inner[Top(t).once], spin)
    <3>3. g \in FrameType
      BY <2>1, <2>3, OnceAssumption DEF Frame, FrameType, PCs
    <3> HIDE DEF f, g
    <3>4. Pushes(t, f, g)
      BY Zenon, <2>1, <3>1, <3>2, <3>3, PushFacts DEF g
    <3> QED
      BY <1>0, <3>4 DEF Pushes
  <2> QED
    BY Zenon, <2>2, <2>3
<1>8. CASE EndRun(t)
  BY Zenon, <1>2, <1>8 DEF EndRun, At, PCs
<1>9. CASE Broadcast(t)
  <2>1. Busy(t) /\ "woken" \in PCs /\ "store" \in PCs
    BY Zenon, <1>9 DEF Broadcast, At, PCs
  <2>2. \/ stack'[u] = stack[u]
        \/ Busy(u) /\ stack'[u] = [stack[u] EXCEPT ![Len(stack[u])].pc = "woken"]
        \/ Busy(u) /\ stack'[u] = [stack[u] EXCEPT ![Len(stack[u])].pc = "store"]
    BY Zenon, <1>9, <2>1 DEF Broadcast, Woken, OnceTypeOK, At
  <2>3. Len(stack'[u]) = Len(stack[u])
    BY Zenon, <1>0, <2>1, <2>2, RowFacts
  <2> QED
    BY <1>0, <2>3
<1>10. CASE Store(t)
  BY Zenon, <1>2, <1>10 DEF Store, At, PCs
<1>11. CASE Test(t)
  <2>1. Busy(t) /\ "wait" \in PCs
    BY Zenon, <1>11 DEF Test, At, PCs
  <2>2. CASE Done(Top(t).once)
    BY Zenon, <1>3, <1>11, <2>1, <2>2, ReturnFacts DEF Test, Done
  <2>3. CASE ~Done(Top(t).once)
    BY Zenon, <1>2, <1>11, <2>1, <2>3 DEF Test
  <2> QED
    BY Zenon, <2>2, <2>3
<1>12. CASE Expire(t)
  BY Zenon, <1>2, <1>12 DEF Expire, At, PCs
<1> QED
  BY Zenon, <1>4, <1>5, <1>6, <1>7, <1>8, <1>9, <1>10, <1>11, <1>12 DEF OnceStep

\* "Other callers will wait until the run of the function is complete": a call of
\* nsync_run_once or of one of its variants returns only after the function of its
\* once has ended, whichever call has run it.
THEOREM OnceReturnsAfterRun == OnceSpec => ReturnsAfterRun
<1> DEFINE A == \A t \in OnceThreads : Len(stack'[t]) < Len(stack[t])
                                        => ended[Top(t).once] = 1
<1>1. OnceInv /\ [OnceNext]_onceVars => [A]_onceVars
  <2> SUFFICES ASSUME OnceInv, OnceNext,
                      NEW u \in OnceThreads, Len(stack'[u]) < Len(stack[u])
               PROVE  ended[Top(u).once] = 1
    BY Zenon
  <2>0. OnceTypeOK /\ Len(stack[u]) \in Nat
    BY Zenon, Lengths DEF OnceInv
  <2>1. ASSUME NEW t \in OnceThreads, OnceStep(t)
        PROVE  ended[Top(u).once] = 1
    <3>1. u = t /\ Busy(t) /\ once[Top(t).once] = 2
      BY Zenon, <2>1, ShorterIsReturn
    <3>2. Top(t).once \in Onces
      BY Zenon, <2>0, <3>1, TopFacts
    <3> QED
      BY Zenon, <3>1, <3>2 DEF OnceInv, WordTellsRun
  <2>2. ASSUME NEW t \in OnceThreads, NEW x \in CalledBy[t], NEW spin \in BOOLEAN,
               Call(t, x, spin)
        PROVE  FALSE
    <3>1. stack[t] = <<>> /\ stack' = [stack EXCEPT ![t] = <<Frame(x, spin)>>]
      BY Zenon, <2>2 DEF Call, Busy
    <3>2. CASE u = t
      BY SMTT(30), <2>0, <3>1, <3>2 DEF OnceTypeOK
    <3>3. CASE u # t
      BY <2>0, <3>1, <3>3 DEF OnceTypeOK
    <3> QED
      BY Zenon, <3>2, <3>3
  <2> QED
    BY Zenon, <2>1, <2>2 DEF OnceNext
<1> QED
  BY <1>1, OnceInvariance, PTL DEF OnceSpec, ReturnsAfterRun
=============================================================================
