------------------------------- MODULE MCSem -------------------------------
(* Small instances of the semaphores and of nsync_once for TLC: a behaviour*)
(* is one of the futex semaphore, of a semaphore of another platform, or of*)
(* onces.                                                                  *)
EXTENDS SemFutex, SemTimed, Once, TLC

CONSTANTS t1, t2, t3, o1, o2

\* Waits time out early by up to half a millisecond of NsPerMs = 4; C++'s clock
\* ticks in milliseconds.
MCSettings ==
  "futex"   :> [callers |-> {},       early |-> 0, tick |-> 1] @@
  "once"    :> [callers |-> {},       early |-> 0, tick |-> 1] @@
  "sem_t"   :> [callers |-> {t1, t2}, early |-> 2, tick |-> 1] @@
  "win32"   :> [callers |-> {t1},     early |-> 2, tick |-> 1] @@
  "gcd"     :> [callers |-> {t1, t2}, early |-> 0, tick |-> 1] @@
  "pthread" :> [callers |-> {t1},     early |-> 1, tick |-> 1] @@
  "c++11"   :> [callers |-> {t1},     early |-> 1, tick |-> 4]

\* The function of o1 runs o2.
OneInsideTheOther == o1 :> o2 @@ o2 :> NoOnce

MCCalledBy == t1 :> {o1} @@ t2 :> {o1} @@ t3 :> {o1, o2}

MCInit == Init /\ TimedInit /\ OnceInit /\ platform \in DOMAIN Settings

MCNext ==
  \/ platform = "futex" /\ Next /\ UNCHANGED <<timedVars, onceVars>>
  \/ platform = "once" /\ OnceNext /\ UNCHANGED <<vars, timedVars>>
  \/ platform \notin {"futex", "once"} /\ TimedNext /\ UNCHANGED <<vars, onceVars>>

MCSpec ==
  /\ MCInit /\ [][MCNext]_<<vars, timedVars, onceVars>>
  /\ \A t \in Threads : WF_vars(Step(t))
  /\ \A u \in Posters : WF_vars(Wake(u))
  /\ TimedFairness
  /\ OnceFairness

\* Calls of P return, on every platform: those with a deadline always, those
\* without when there is a count and no competitor takes it.
SemCallsReturn == PostedCallReturns /\ TimedCallReturns /\ UncontestedCallReturns
=============================================================================
