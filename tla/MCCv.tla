------------------------------- MODULE MCCv -------------------------------
(* Small instances of Cv for TLC. *)
EXTENDS Cv, TLC

CONSTANTS t1, t2, t3, c1

AllCalls == [t \in Threads |-> {"lock", "trylock", "rlock", "rtrylock", "change",
               "unlock_without_wakeup", "mu_wait", "mu_wait_with_deadline"}]

NoCalls == [t \in Threads |-> {}]

\* Two waiters, of either mode, and a thread that signals and broadcasts with
\* or without the mutex.
WakeProgram ==
  [mu |-> [t \in {t1, t2} |-> {"lock", "rlock"}] @@ t3 :> {"lock", "once"},
   cv |-> [t \in {t1, t2} |-> {"wait"}] @@ t3 :> {"signal", "broadcast"}]

\* Waiters that may give up, and a waker without the mutex.
TimedProgram ==
  [mu |-> [t \in {t1, t2} |-> {"lock", "rlock"}] @@ t3 :> {},
   cv |-> [t \in {t1, t2} |-> {"wait_with_deadline"}] @@ t3 :> {"signal", "broadcast"}]

\* A monitor: a writer and a reader wait for c1 in a loop, a third thread makes
\* it true in one critical section.
MonitorProgram ==
  [mu |-> t1 :> {"lock"} @@ t2 :> {"rlock"} @@ t3 :> {"lock", "change", "once"},
   cv |-> [t \in {t1, t2} |-> {"wait"}] @@ t3 :> {"broadcast"}]

\* A monitor of two threads, whose cv a third one prints.
PrintedProgram ==
  [mu |-> t1 :> {"lock", "rlock"} @@ t2 :> {"lock", "change"} @@ t3 :> {},
   cv |-> t1 :> {"wait"} @@ t2 :> {"broadcast"} @@ t3 :> {"print"}]

\* Closed under the exchange of t1 and t2, which is a symmetry.
WaiterSymmetry == Permutations({t1, t2})

Exchanged(f) == [t \in Threads |-> f[CASE t = t1 -> t2 [] t = t2 -> t1 [] OTHER -> t]]

CvPrograms ==
  LET ps == {WakeProgram, TimedProgram, MonitorProgram, PrintedProgram}
  IN  ps \union {[mu |-> Exchanged(p.mu), cv |-> Exchanged(p.cv)] : p \in ps}

\* For liveness: threads that never stop calling ...
EndlessProgram ==
  [mu |-> t1 :> {"lock", "rlock", "mu_wait"} @@ t2 :> {"lock", "rlock", "change"},
   cv |-> NoCalls]

\* ... one waiter on the cv and one waker ...
CvPairProgram ==
  [mu |-> t1 :> {"lock", "rlock"} @@ t2 :> {"lock", "change"},
   cv |-> t1 :> {"wait", "wait_with_deadline"} @@ t2 :> {"signal", "broadcast"}]

\* ... and a thread that waits with a deadline beside another; both stop some
\* time, since waits whose deadlines have passed, made for ever, could keep the
\* other thread from the mutex.
DeadlineProgram ==
  [mu |-> t1 :> {"lock", "mu_wait_with_deadline", "retire"} @@
          t2 :> {"lock", "change", "retire"},
   cv |-> NoCalls]

FairPrograms == {EndlessProgram, CvPairProgram, DeadlineProgram}
===========================================================================
