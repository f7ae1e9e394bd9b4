------------------------------- MODULE MCMu -------------------------------
(* Small instances of Mu for TLC. *)
EXTENDS MuClient, MuInvariant, TLC

CONSTANTS t1, t2, t3, c1

AllCalls == [t \in Threads |-> {"lock", "trylock", "rlock", "rtrylock", "change",
               "unlock_without_wakeup", "mu_wait", "mu_wait_with_deadline"}]

\* A writer, a thread of either mode, and one that reads or tries once.
LockMenu == t1 :> {"lock"} @@
            t2 :> {"lock", "rlock"} @@
            t3 :> {"rlock", "trylock", "rtrylock", "once"}

\* A writer that waits with a deadline and a reader that waits without one, in one
\* critical section, for conditions that may be equal, and a writer that changes
\* the protected state: either in two critical sections, for which it does not
\* queue, ...
WaitMenu == t1 :> {"lock", "mu_wait_with_deadline"} @@
            t2 :> {"rlock", "mu_wait", "once"} @@
            t3 :> {"trylock", "change", "unlock_without_wakeup"}

\* ... or in one, for which it does; the reader may then come again.
QueueMenu == [WaitMenu EXCEPT ![t2] = {"rlock", "mu_wait"},
                              ![t3] = {"lock", "change", "unlock_without_wakeup", "once"}]

MCSpec == MenuInit({LockMenu, WaitMenu, QueueMenu}) /\ [][MenuNext]_<<vars, menu>>

\* For waits with deadlines in both modes, beside readers and writers.
DeadlinePairMenu == t1 :> {"lock", "rlock", "mu_wait_with_deadline"} @@
                    t2 :> {"lock", "rlock", "change"}

PairSpec == MenuInit({DeadlinePairMenu}) /\ [][MenuNext]_<<vars, menu>>
===========================================================================
