------------------------------- MODULE Debug -------------------------------
(***************************************************************************)
(* internal/debug.c beside running threads: one thread calls               *)
(* nsync_mu_debug_state_and_waiters and nsync_cv_debug_state_and_waiters   *)
(* while others use the mutex and the cv of Cv.                            *)
(*                                                                         *)
(* emit_mu_state and emit_cv_state take the spinlock of the word they      *)
(* print, walk the queue and store the word that they found.  The cv's     *)
(* spinlock is not a variable of Cv, where every critical section under it *)
(* is a step: such a step waits here while the caller has the spinlock.    *)
(* The calls that print no waiters only read, and nsync_mu_debugger and    *)
(* nsync_cv_debugger are for use when all other threads are stopped.       *)
(***************************************************************************)
EXTENDS Cv

VARIABLE dbg      \* at, obj, word, acquired, and the waiters printed

NoDbg == [at |-> "idle", obj |-> "none", word |-> 0, acquired |-> FALSE, printed |-> <<>>]

DebugInit == CvInit /\ dbg = NoDbg

QueueOf(o) == IF o = "mu" THEN waiters ELSE cv_waiters

\* MU_WAITING or CV_NON_EMPTY
SaysWaiters(o) == IF o = "mu" THEN "WAITING" \in word.bits ELSE non_empty

\* The first load, which decides whether to take the spinlock.
DebugLoad(o) ==
  /\ dbg.at = "idle" /\ \E t \in Threads : "print" \in cv_menu[t]
  /\ dbg' = [NoDbg EXCEPT !.at = IF SaysWaiters(o) THEN "spin" ELSE "walk", !.obj = o]
  /\ UNCHANGED <<vars, cvVars, menuVars>>

\* nsync_spin_test_and_set_, which returns the word it found.
DebugSpinMu ==
  /\ dbg.at = "spin" /\ dbg.obj = "mu"
  /\ "SPINLOCK" \notin word.bits /\ word' = SetClear(word, {"SPINLOCK"}, {})
  /\ dbg' = [dbg EXCEPT !.at = "walk", !.acquired = TRUE, !.word = word]
  /\ UNCHANGED <<waiters, waiterVars, localVars, clientVars, pc, cvVars, menuVars>>

DebugSpinCv ==
  /\ dbg.at = "spin" /\ dbg.obj = "cv"
  /\ dbg' = [dbg EXCEPT !.at = "walk", !.acquired = TRUE, !.word = non_empty]
  /\ UNCHANGED <<vars, cvVars, menuVars>>

\* emit_waiters: the next waiter of the queue.
DebugWalk ==
  LET q == QueueOf(dbg.obj)
      k == Len(dbg.printed) + 1
  IN  /\ dbg.at = "walk" /\ k <= Len(q)
      /\ dbg' = [dbg EXCEPT !.printed = Append(@, q[k])]
      /\ UNCHANGED <<vars, cvVars, menuVars>>

EndOfWalk == dbg.at = "walk" /\ Len(dbg.printed) >= Len(QueueOf(dbg.obj)) /\ dbg' = NoDbg

\* The release store of emit_mu_state.
DebugReturnMu ==
  /\ dbg.obj = "mu" /\ EndOfWalk
  /\ word' = IF dbg.acquired THEN dbg.word ELSE word
  /\ UNCHANGED <<waiters, waiterVars, localVars, clientVars, pc, cvVars, menuVars>>

\* The release store of emit_cv_state.
DebugReturnCv ==
  /\ dbg.obj = "cv" /\ EndOfWalk
  /\ non_empty' = IF dbg.acquired THEN dbg.word ELSE non_empty
  /\ UNCHANGED <<vars, cv_waiters, cv_mu, cvpc, cw, wk, menuVars>>

DebugHoldsCv == dbg.acquired /\ dbg.obj = "cv"

\* A step of another thread; those that change the cv's queue need its spinlock.
BesideDebug ==
  /\ CvNext /\ UNCHANGED dbg
  /\ DebugHoldsCv => UNCHANGED <<cv_waiters, non_empty>>

\* nsync_cv_debug_state_and_waiters beside the other threads
DebugCvNext == BesideDebug \/ DebugLoad("cv") \/ DebugSpinCv \/ DebugWalk \/ DebugReturnCv

\* nsync_mu_debug_state_and_waiters beside the other threads
DebugMuNext == BesideDebug \/ DebugLoad("mu") \/ DebugSpinMu \/ DebugWalk \/ DebugReturnMu

DebugCvSpec == DebugInit /\ [][DebugCvNext]_<<vars, cvVars, menuVars, dbg>>

DebugMuSpec == DebugInit /\ [][DebugMuNext]_<<vars, cvVars, menuVars, dbg>>

----------------------------------------------------------------------------

\* Printing a mutex leaves it a lock: it is "free, held by a single thread ... in
\* write (exclusive) mode, or by many threads in read (shared) mode"
\* (nsync_mu.h).  emit_mu_state stores the whole word it read, though threads
\* acquire and release without the spinlock meanwhile.
DebugKeepsExclusion == MutualExclusion
=============================================================================
