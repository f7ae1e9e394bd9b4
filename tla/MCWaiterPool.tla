--------------------------- MODULE MCWaiterPool ---------------------------
(* A small instance of WaiterPool for TLC. *)
EXTENDS WaiterPool

\* Threads, one replaced by a third, that use up to two waiters each, also in
\* destructors that run after the thread's waiter was given back.
ExitProgram ==
  [thread_local |-> TRUE, sleepers |-> {}, max_held |-> 2, max_uses |-> 2,
   max_exit_uses |-> 1, max_threads |-> 1]

\* The same with the thread's waiter under a pthread key only.
KeyProgram ==
  [thread_local |-> FALSE, sleepers |-> {}, max_held |-> 1, max_uses |-> 1,
   max_exit_uses |-> 1, max_threads |-> 1]

\* Threads that sleep on waiters.
SleepProgram ==
  [thread_local |-> TRUE, sleepers |-> Threads, max_held |-> 2, max_uses |-> 2,
   max_exit_uses |-> 0, max_threads |-> 0]

PoolPrograms == {ExitProgram, KeyProgram, SleepProgram}
===========================================================================
