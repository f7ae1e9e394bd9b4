-------------------------------- MODULE Mu --------------------------------
(***************************************************************************)
(* nsync_mu: the reader/writer mutex of internal/mu.c with the conditional *)
(* critical sections of internal/mu_wait.c.                                *)
(*                                                                         *)
(* Each action is one atomic access to the shared word, to a waiter's      *)
(* "waiting" flag or to a semaphore, with the thread-local work around it. *)
(* A loop that loads the word, decides from the loaded value alone and     *)
(* retries when its compare-and-swap fails is one atomic step, because     *)
(* only the successful iteration has an effect.  Where a failed            *)
(* compare-and-swap leads elsewhere, the load and the swap are separate    *)
(* steps and the loaded value is kept in "old".                            *)
(*                                                                         *)
(* A thread has one waiter struct in use at a time, so a waiter is named   *)
(* by its thread.                                                          *)
(***************************************************************************)
EXTENDS MuWord, MuQueue, FiniteSets

\* Threads are the threads that use the mutex, NoCond the NULL condition.
CONSTANTS
  Conds,                \* the conditions passed to nsync_mu_wait
  LONG_WAIT_THRESHOLD,  \* wakeups after which a waiter sets MU_LONG_WAIT
  SemMax,               \* largest semaphore count (1 is a binary semaphore)
  MaxCalls,             \* bound: lock and wait calls of each thread; 0 is none
  Menu                  \* Menu[t]: the client calls that thread t may make

ASSUME ThreadsFinite == IsFiniteSet(Threads)

ASSUME CondsAssumption == NoCond \notin Conds

ASSUME BoundsAssumption ==
  /\ LONG_WAIT_THRESHOLD \in Nat \ {0}
  /\ SemMax \in Nat \ {0}
  /\ MaxCalls \in Nat

ASSUME MenuAssumption ==
  Menu \in [Threads -> SUBSET {"lock", "trylock", "rlock", "rtrylock",
                               "change", "unlock_without_wakeup",
                               "mu_wait", "mu_wait_with_deadline"}]

VARIABLES
  word,     \* mu->word
  waiters,  \* mu->waiters, first waiter first
  truth,    \* the state the mutex protects: which conditions are true
  waiting,  \* w->nw.waiting, per waiter
  sem,      \* the count of w->sem
  removed,  \* w->remove_count differs from the value its thread last noted
  cond,     \* w->cond
  same,     \* w->same_condition.next
  pc,       \* where each thread is
  l_type,   \* the mode of the current call, and w->l_type
  ret,      \* the call that a slow path returns to
  old,      \* old_word
  ls,       \* locals of nsync_mu_lock_slow_: clear, wait_count
  mw,       \* arguments and locals of nsync_mu_wait_with_deadline
  us,       \* locals of nsync_mu_unlock_slow_
  changed,  \* what the current critical section did to the conditions
  calls     \* calls made so far by each thread

muVars     == <<word, waiters>>
waiterVars == <<waiting, sem, removed, cond, same>>
localVars  == <<l_type, ret, old, ls, mw, us>>
clientVars == <<truth, changed, calls>>
vars == <<muVars, waiterVars, localVars, clientVars, pc>>

---------------------------------------------------------------------------
(* Initial values of the locals.                                           *)

NoLs == [clear |-> FALSE, wait_count |-> 0]

NoMw == [want |-> NoCond, timed |-> FALSE, first_wait |-> TRUE,
         had_waiters |-> FALSE, outcome |-> "none"]

NoUs == [testing |-> FALSE, late |-> FALSE, new |-> <<>>, seen |-> <<>>,
         i |-> 1, wake |-> <<>>, wake_type |-> "none",
         all_false |-> TRUE, writer_waiting |-> FALSE]

Init ==
  /\ word = ZeroWord
  /\ waiters = <<>>
  /\ truth \in [Conds -> BOOLEAN]
  /\ waiting = [t \in Threads |-> FALSE]
  /\ sem = [t \in Threads |-> 0]
  /\ removed = [t \in Threads |-> FALSE]
  /\ cond = [t \in Threads |-> NoCond]
  /\ same = [t \in Threads |-> t]
  /\ pc = [t \in Threads |-> "idle"]
  /\ l_type = [t \in Threads |-> "writer"]
  /\ ret = [t \in Threads |-> "none"]
  /\ old = [t \in Threads |-> ZeroWord]
  /\ ls = [t \in Threads |-> NoLs]
  /\ mw = [t \in Threads |-> NoMw]
  /\ us = [t \in Threads |-> NoUs]
  /\ changed = [t \in Threads |-> "nothing"]
  /\ calls = [t \in Threads |-> 0]

Goto(t, l) == pc' = [pc EXCEPT ![t] = l]

\* One more call of a client, within the bound.
MayCall(t) ==
  IF MaxCalls = 0
  THEN UNCHANGED calls
  ELSE calls[t] < MaxCalls /\ calls' = [calls EXCEPT ![t] = @ + 1]

\* The value of a wait condition in the current protected state.
IsTrue(c) == IF c = NoCond THEN TRUE ELSE truth[c]

---------------------------------------------------------------------------
(* Acquiring: nsync_mu_lock, nsync_mu_rlock and their try variants.        *)

\* The thread has acquired in the mode of its call; a lock_slow made for
\* nsync_mu_wait goes on to evaluate the condition again.
Acquired(t) ==
  /\ Goto(t, IF ret[t] = "mu_wait" THEN "mw_eval" ELSE "held")
  /\ ls' = [ls EXCEPT ![t] = NoLs]
  /\ changed' = [changed EXCEPT ![t] = "nothing"]

\* A lock call starts: its first CAS takes a word that is zero.
LockCall(t, l, how) ==
  /\ pc[t] = "idle" /\ MayCall(t)
  /\ l_type' = [l_type EXCEPT ![t] = l]
  /\ ret' = [ret EXCEPT ![t] = how]
  /\ IF word = ZeroWord
     THEN /\ word' = AddToAcquire(ZeroWord, l)
          /\ Goto(t, "held")
          /\ changed' = [changed EXCEPT ![t] = "nothing"]
     ELSE /\ Goto(t, "lock_load")
          /\ UNCHANGED <<word, changed>>
  /\ UNCHANGED <<waiters, waiterVars, old, ls, mw, us, truth>>

nsync_mu_lock(t) == "lock" \in Menu[t] /\ LockCall(t, "writer", "lock")

nsync_mu_trylock(t) == "trylock" \in Menu[t] /\ LockCall(t, "writer", "trylock")

nsync_mu_rlock(t) == "rlock" \in Menu[t] /\ LockCall(t, "reader", "lock")

nsync_mu_rtrylock(t) == "rtrylock" \in Menu[t] /\ LockCall(t, "reader", "trylock")

\* The lock was not taken: a try call returns 0, the others enter
\* nsync_mu_lock_slow_ with clear == 0.
FastPathFailed(t) ==
  IF ret[t] = "trylock"
  THEN /\ Goto(t, "idle")
       /\ UNCHANGED cond
  ELSE /\ Goto(t, "slow")
       /\ cond' = [cond EXCEPT ![t] = NoCond]

\* The load after the first CAS failed.
LockLoad(t) ==
  /\ pc[t] = "lock_load"
  /\ IF CanAcquire(word, l_type[t], {})
     THEN /\ old' = [old EXCEPT ![t] = word]
          /\ Goto(t, "lock_cas")
          /\ UNCHANGED cond
     ELSE FastPathFailed(t) /\ UNCHANGED old
  /\ UNCHANGED <<muVars, waiting, sem, removed, same, l_type, ret, ls, mw, us,
                 clientVars>>

\* The second CAS of the fast path.
LockCas(t) ==
  /\ pc[t] = "lock_cas"
  /\ old' = [old EXCEPT ![t] = ZeroWord]
  /\ IF word = old[t]
     THEN /\ word' = SetClear(AddToAcquire(word, l_type[t]), {},
                              ClearOnAcquire(l_type[t]))
          /\ Acquired(t)
          /\ UNCHANGED cond
     ELSE /\ FastPathFailed(t)
          /\ UNCHANGED <<word, ls, changed>>
  /\ UNCHANGED <<waiters, waiting, sem, removed, same, l_type, ret, mw, us,
                 truth, calls>>

---------------------------------------------------------------------------
(* nsync_mu_lock_slow_                                                     *)

\* The flags dropped from zero_to_acquire once the thread has been woken.
IgnoredWhenWoken(clear) ==
  IF clear THEN {"WRITER_WAITING", "LONG_WAIT"} ELSE {}

\* Mutant: a woken thread never clears MU_DESIG_WAKER.
KeepDesig(clear) == {}

ClearDesig(clear) == IF clear THEN {"DESIG_WAKER"} ELSE {}

\* Mutant: MU_LONG_WAIT is never claimed.
NeverLongWait(wait_count) == {}

\* long_wait
LongWait(wait_count) ==
  IF wait_count = LONG_WAIT_THRESHOLD THEN {"LONG_WAIT"} ELSE {}

SlowAcquire(t) ==
  /\ pc[t] = "slow"
  /\ CanAcquire(word, l_type[t], IgnoredWhenWoken(ls[t].clear))
  /\ word' = SetClear(AddToAcquire(word, l_type[t]), {},
                      ClearDesig(ls[t].clear) \cup LongWait(ls[t].wait_count)
                        \cup ClearOnAcquire(l_type[t]))
  /\ Acquired(t)
  /\ UNCHANGED <<waiters, waiterVars, l_type, ret, old, mw, us, truth, calls>>

\* The bits a thread sets when it takes the spinlock to queue itself.
SetToQueue(t) == {"SPINLOCK"} \cup LongWait(ls[t].wait_count)
                   \cup SetWhenWaiting(l_type[t])

\* ... and the bits it clears.
ClearToQueue(t) == ClearDesig(ls[t].clear) \cup {"ALL_FALSE"}

SlowSpinlock(t) ==
  /\ pc[t] = "slow"
  /\ ~CanAcquire(word, l_type[t], IgnoredWhenWoken(ls[t].clear))
  /\ "SPINLOCK" \notin word.bits
  /\ word' = SetClear(word, SetToQueue(t), ClearToQueue(t))
  /\ Goto(t, "ls_queue")
  /\ UNCHANGED <<waiters, waiterVars, localVars, clientVars>>

\* Queue the waiter, then release the spinlock.
SlowQueue(t) ==
  /\ pc[t] = "ls_queue"
  /\ waiting' = [waiting EXCEPT ![t] = TRUE]
  /\ waiters' = Enqueue(waiters, t, ls[t].wait_count = 0)
  /\ word' = SetClear(word, {}, {"SPINLOCK"})
  /\ Goto(t, "ls_wait")
  /\ UNCHANGED <<sem, removed, cond, same, localVars, clientVars>>

\* The loop test: go to the semaphore, or resume with clear == MU_DESIG_WAKER.
SlowTest(t) ==
  /\ pc[t] = "ls_wait"
  /\ IF waiting[t]
     THEN Goto(t, "ls_p") /\ UNCHANGED ls
     ELSE /\ Goto(t, "slow")
          /\ ls' = [ls EXCEPT ![t] =
                      [clear |-> TRUE,
                       wait_count |-> IF @.wait_count < LONG_WAIT_THRESHOLD
                                      THEN @.wait_count + 1
                                      ELSE LONG_WAIT_THRESHOLD]]
  /\ UNCHANGED <<muVars, waiterVars, l_type, ret, old, mw, us, clientVars>>

\* nsync_mu_semaphore_p: consume one count.
SemP(t) == sem[t] > 0 /\ sem' = [sem EXCEPT ![t] = @ - 1]

SlowP(t) ==
  /\ pc[t] = "ls_p"
  /\ SemP(t)
  /\ Goto(t, "ls_wait")
  /\ UNCHANGED <<muVars, waiting, removed, cond, same, localVars, clientVars>>

---------------------------------------------------------------------------
(* Releasing: nsync_mu_unlock, nsync_mu_runlock and                        *)
(* nsync_mu_unlock_without_wakeup.                                         *)

\* The state of a thread whose call to release the mutex has returned.
Released(t) ==
  /\ Goto(t, IF ret[t] = "mu_wait" THEN "mw_wait" ELSE "idle")
  /\ l_type' = IF ret[t] = "mu_wait" THEN l_type
                                     ELSE [l_type EXCEPT ![t] = "writer"]
  /\ ret' = IF ret[t] = "mu_wait" THEN ret ELSE [ret EXCEPT ![t] = "none"]

\* A release call starts: its first CAS replaces a word that says only that
\* this thread holds the mutex.
UnlockCall(t, how) ==
  /\ pc[t] = "held"
  /\ IF word = AddToAcquire(ZeroWord, l_type[t])
     THEN /\ word' = ZeroWord
          /\ Goto(t, "idle")
          /\ l_type' = [l_type EXCEPT ![t] = "writer"]
          /\ ret' = [ret EXCEPT ![t] = "none"]
     ELSE /\ Goto(t, "ul_load")
          /\ ret' = [ret EXCEPT ![t] = how]
          /\ UNCHANGED <<word, l_type>>
  /\ UNCHANGED <<waiters, waiterVars, old, ls, mw, us, clientVars>>

nsync_mu_unlock(t) == l_type[t] = "writer" /\ UnlockCall(t, "unlock")

nsync_mu_runlock(t) == l_type[t] = "reader" /\ UnlockCall(t, "unlock")

\* Legal only if this critical section made no condition true.
nsync_mu_unlock_without_wakeup(t) ==
  /\ "unlock_without_wakeup" \in Menu[t]
  /\ l_type[t] = "writer" /\ changed[t] # "made_true"
  /\ UnlockCall(t, "without_wakeup")

\* The sanity checks of the release calls.
UnlockPanics(w, l) ==
  IF l = "writer" THEN "WLOCK" \notin w.bits \/ w.readers # 0
                  ELSE "WLOCK" \in w.bits /\ w.readers = 0

\* Mutant: the last reader does not look for waiters.
UnlockMustWakeOffByOne(w, l, how) ==
  /\ "WAITING" \in w.bits /\ "DESIG_WAKER" \notin w.bits
  /\ how = "without_wakeup" => "ALL_FALSE" \notin w.bits
  /\ l = "reader" => w.readers > 1 /\ "ALL_FALSE" \notin w.bits

\* Whether a release call that loaded w must use nsync_mu_unlock_slow_.
UnlockMustWake(w, l, how) ==
  /\ "WAITING" \in w.bits /\ "DESIG_WAKER" \notin w.bits
  /\ how = "without_wakeup" => "ALL_FALSE" \notin w.bits
  /\ l = "reader" => w.readers = 1 /\ "ALL_FALSE" \notin w.bits

\* The word written by the CAS of a release call.
UnlockedWord(w, l, how) ==
  SetClear(SubToRelease(w, l), {},
           IF how = "without_wakeup" THEN {} ELSE ClearOnUncontendedRelease(l))

UnlockLoad(t) ==
  /\ pc[t] = "ul_load"
  /\ IF UnlockPanics(word, l_type[t])
     THEN Goto(t, "panic") /\ UNCHANGED old
     ELSE IF UnlockMustWake(word, l_type[t], ret[t])
     THEN Goto(t, "us") /\ UNCHANGED old
     ELSE Goto(t, "ul_cas") /\ old' = [old EXCEPT ![t] = word]
  /\ UNCHANGED <<muVars, waiterVars, l_type, ret, ls, mw, us, clientVars>>

UnlockCas(t) ==
  /\ pc[t] = "ul_cas"
  /\ old' = [old EXCEPT ![t] = ZeroWord]
  /\ IF word = old[t]
     THEN /\ word' = UnlockedWord(word, l_type[t], ret[t])
          /\ Released(t)
     ELSE /\ Goto(t, "us")
          /\ UNCHANGED <<word, l_type, ret>>
  /\ UNCHANGED <<waiters, waiterVars, ls, mw, us, clientVars>>

---------------------------------------------------------------------------
(* nsync_mu_unlock_slow_                                                   *)

\* No one to wake, a designated waker is waking up, there are still readers,
\* or it is a reader and all waiters have false conditions.
NoNeedToWake(w) ==
  \/ "WAITING" \notin w.bits
  \/ "DESIG_WAKER" \in w.bits
  \/ w.readers > 1
  \/ w.readers = 1 /\ "ALL_FALSE" \in w.bits

UsJustRelease(t) ==
  /\ pc[t] = "us"
  /\ NoNeedToWake(word)
  /\ word' = SetClear(SubToRelease(word, l_type[t]), {},
                      ClearOnUncontendedRelease(l_type[t]))
  /\ Released(t)
  /\ UNCHANGED <<waiters, waiterVars, old, ls, mw, us, clientVars>>

\* old_word - early_release_mu: the lock is given up, or, if conditions will
\* be tested, converted to a writer lock.
EarlyRelease(w, l) ==
  LET released == SubToRelease(w, l)
  IN  IF "CONDITION" \in w.bits THEN AddToAcquire(released, "writer")
                                ELSE released

\* Take the spinlock, claim the designated waker flag, and swap mu->waiters
\* into the local list.
UsBegin(t) ==
  /\ pc[t] = "us"
  /\ ~NoNeedToWake(word) /\ "SPINLOCK" \notin word.bits
  /\ word' = SetClear(EarlyRelease(word, l_type[t]),
                      {"SPINLOCK", "DESIG_WAKER"}, {})
  /\ LET testing == "CONDITION" \in word.bits
     IN  us' = [us EXCEPT ![t] = [NoUs EXCEPT !.testing = testing,
                                              !.late = testing,
                                              !.new = waiters]]
  /\ waiters' = <<>>
  /\ Goto(t, "us_loop")
  /\ UNCHANGED <<waiterVars, l_type, ret, old, ls, mw, clientVars>>

\* Mutant: stops testing at any writer, even one that has a condition.
KeepTestingUnlessWriter(u, p) ==
  /\ u.testing
  /\ u.wake_type # "writer"
  /\ ~(u.wake_type = "none" /\ l_type[p] = "writer")

\* Whether to go on testing conditions, given the next new waiter p.
KeepTesting(u, p) ==
  /\ u.testing
  /\ u.wake_type # "writer"
  /\ ~(u.wake_type = "none" /\ l_type[p] = "writer" /\ cond[p] = NoCond)

\* Start on the new waiters; the spinlock is not held while their conditions
\* are tested.
UsStartScan(t) ==
  /\ pc[t] = "us_loop" /\ us[t].new # <<>>
  /\ LET testing == KeepTesting(us[t], Head(us[t].new))
     IN  /\ us' = [us EXCEPT ![t].testing = testing, ![t].i = 1]
         /\ word' = IF testing THEN SetClear(word, {}, {"SPINLOCK"}) ELSE word
  /\ Goto(t, "us_scan")
  /\ UNCHANGED <<waiters, waiterVars, l_type, ret, old, ls, mw, clientVars>>

ScanEnded(u) == u.i > Len(u.new) \/ u.wake_type = "writer"

\* One iteration over p == new[i]: skip a false condition, wake, or note a
\* writer that could have acquired if it were first.
UsScan(t) ==
  /\ pc[t] = "us_scan" /\ ~ScanEnded(us[t])
  /\ LET u == us[t]
         p == u.new[u.i]
     IN  IF cond[p] # NoCond /\ ~u.testing
         THEN Goto(t, "us_panic") /\ UNCHANGED <<us, removed, same>>
         ELSE
         /\ \/ /\ ~IsTrue(cond[p])
               /\ us' = [us EXCEPT ![t].i =
                           SkipPastSameCondition(same, u.new, u.i)]
               /\ UNCHANGED <<removed, same>>
            \/ /\ IsTrue(cond[p])
               /\ u.wake_type = "none" \/ l_type[p] = "reader"
               /\ us' = [us EXCEPT ![t].new = Without(u.new, u.i),
                                   ![t].wake = Append(u.wake, p),
                                   ![t].wake_type = l_type[p]]
               /\ removed' = [removed EXCEPT ![p] = TRUE]
               /\ same' = RingAfterRemove(same, cond, u.new, u.i)
            \/ /\ IsTrue(cond[p])
               /\ u.wake_type # "none" /\ l_type[p] = "writer"
               /\ us' = [us EXCEPT ![t].i = u.i + 1,
                                   ![t].writer_waiting = TRUE,
                                   ![t].all_false = FALSE]
               /\ UNCHANGED <<removed, same>>
         /\ UNCHANGED pc
  /\ UNCHANGED <<muVars, waiting, sem, cond, l_type, ret, old, ls, mw,
                 clientVars>>

\* The scan is over: take the spinlock back, add the remaining new waiters to
\* those already seen, and pick up the waiters that arrived meanwhile.
UsEndScan(t) ==
  /\ pc[t] = "us_scan" /\ ScanEnded(us[t])
  /\ us[t].testing => "SPINLOCK" \notin word.bits
  /\ word' = SetClear(word, {"SPINLOCK"}, {})
  /\ same' = MergeQueues(same, cond, us[t].seen, us[t].new)
  /\ us' = [us EXCEPT ![t].all_false = @ /\ us[t].i > Len(us[t].new),
                      ![t].seen = @ \o us[t].new,
                      ![t].new = waiters]
  /\ waiters' = <<>>
  /\ Goto(t, "us_loop")
  /\ UNCHANGED <<waiting, sem, removed, cond, l_type, ret, old, ls, mw,
                 clientVars>>

\* set_on_release
SetOnRelease(u) == (IF u.all_false THEN {"ALL_FALSE"} ELSE {})
                     \cup (IF u.writer_waiting THEN {"WRITER_WAITING"} ELSE {})

\* clear_on_release
ClearOnRelease(u) ==
  {"SPINLOCK"}
    \cup (IF u.wake = <<>> THEN {"DESIG_WAKER"} ELSE {})
    \cup (IF u.all_false THEN {} ELSE {"ALL_FALSE"})
    \cup (IF u.seen = <<>> THEN {"WAITING", "WRITER_WAITING", "CONDITION",
                                 "ALL_FALSE"}
                           ELSE {})

\* new_word -= late_release_mu
LateRelease(w, u) == IF u.late THEN SubToRelease(w, "writer") ELSE w

\* Return the waiters to the mutex and release the spinlock, and the lock if
\* it was kept to test conditions.
UsRelease(t) ==
  /\ pc[t] = "us_loop" /\ us[t].new = <<>>
  /\ waiters' = us[t].seen
  /\ word' = SetClear(LateRelease(word, us[t]), SetOnRelease(us[t]),
                      ClearOnRelease(us[t]))
  /\ IF us[t].wake = <<>>
     THEN Released(t) /\ us' = [us EXCEPT ![t] = NoUs]
     ELSE /\ Goto(t, "us_wake")
          /\ us' = [us EXCEPT ![t] = [NoUs EXCEPT !.wake = us[t].wake]]
          /\ UNCHANGED <<l_type, ret>>
  /\ UNCHANGED <<waiterVars, old, ls, mw, clientVars>>

\* Wake the next waiter: first its waiting flag ...
UsWake(t) ==
  /\ pc[t] = "us_wake"
  /\ waiting' = [waiting EXCEPT ![Head(us[t].wake)] = FALSE]
  /\ Goto(t, "us_v")
  /\ UNCHANGED <<muVars, sem, removed, cond, same, localVars, clientVars>>

\* nsync_mu_semaphore_v
SemV(w) == sem' = [sem EXCEPT ![w] = IF @ < SemMax THEN @ + 1 ELSE @]

\* ... and then its semaphore.
UsV(t) ==
  /\ pc[t] = "us_v"
  /\ SemV(Head(us[t].wake))
  /\ us' = [us EXCEPT ![t].wake = Tail(@)]
  /\ IF Tail(us[t].wake) = <<>>
     THEN Released(t)
     ELSE Goto(t, "us_wake") /\ UNCHANGED <<l_type, ret>>
  /\ UNCHANGED <<muVars, waiting, removed, cond, same, old, ls, mw, clientVars>>

---------------------------------------------------------------------------
(* nsync_mu_wait_with_deadline, of which nsync_mu_wait is the case without *)
(* a deadline and a cancel_note.  A deadline and a notified note lead to   *)
(* the same steps; both are "expired" here.                                *)

\* The work before the wait loop: the mode is read from the word, and the
\* call returns at once if the condition is already true.
MuWaitCall(t, c, timed) ==
  /\ pc[t] = "held" /\ MayCall(t)
  /\ IF ~AnyLock(word)
     THEN Goto(t, "panic") /\ UNCHANGED <<l_type, ret, mw>>
     ELSE IF IsTrue(c)
     THEN UNCHANGED <<pc, l_type, ret, mw>>
     ELSE /\ Goto(t, "mw_spin")
          /\ l_type' = [l_type EXCEPT ![t] = IF word.readers > 0 THEN "reader"
                                                                 ELSE "writer"]
          /\ ret' = [ret EXCEPT ![t] = "mu_wait"]
          /\ mw' = [mw EXCEPT ![t] = [NoMw EXCEPT !.want = c, !.timed = timed]]
  /\ UNCHANGED <<muVars, waiterVars, old, ls, us, truth, changed>>

nsync_mu_wait(t) ==
  "mu_wait" \in Menu[t] /\ \E c \in Conds \cup {NoCond} : MuWaitCall(t, c, FALSE)

nsync_mu_wait_with_deadline(t) ==
  /\ "mu_wait_with_deadline" \in Menu[t]
  /\ \E c \in Conds \cup {NoCond} : MuWaitCall(t, c, TRUE)

\* had_waiters
HadWaiters(w) == "WAITING" \in w.bits /\ "DESIG_WAKER" \notin w.bits

\* Prepare the waiter and take the spinlock.
MwSpinlock(t) ==
  /\ pc[t] = "mw_spin"
  /\ "SPINLOCK" \notin word.bits
  /\ word' = SetClear(word, {"SPINLOCK", "WAITING", "CONDITION"}, {"ALL_FALSE"})
  /\ cond' = [cond EXCEPT ![t] = mw[t].want]
  /\ waiting' = [waiting EXCEPT ![t] = TRUE]
  /\ removed' = [removed EXCEPT ![t] = FALSE]
  /\ mw' = [mw EXCEPT ![t].had_waiters = HadWaiters(word)]
  /\ Goto(t, "mw_queue")
  /\ UNCHANGED <<waiters, sem, same, l_type, ret, old, ls, us, clientVars>>

\* Queue the waiter, and release the spinlock and the lock; when the lock
\* becomes free and there are others to wake, nsync_mu_unlock_slow_ frees it.
MwQueue(t) ==
  /\ pc[t] = "mw_queue"
  /\ same' = RingAfterEnqueue(same, cond, waiters, t, mw[t].first_wait)
  /\ waiters' = Enqueue(waiters, t, mw[t].first_wait)
  /\ LET unheld == SubToRelease(word, l_type[t])
         viaSlow == ~AnyLock(unheld) /\ mw[t].had_waiters
     IN  /\ word' = SetClear(IF viaSlow THEN word ELSE unheld, {}, {"SPINLOCK"})
         /\ Goto(t, IF viaSlow THEN "us" ELSE "mw_wait")
  /\ mw' = [mw EXCEPT ![t].first_wait = FALSE, ![t].had_waiters = FALSE]
  /\ UNCHANGED <<waiting, sem, removed, cond, l_type, ret, old, ls, us,
                 clientVars>>

\* The test of the wait loop.  A thread whose wait expired, but that another
\* thread has already removed from the queue, stays here until it is woken.
MwTest(t) ==
  /\ pc[t] = "mw_wait"
  /\ \/ /\ waiting[t] /\ mw[t].outcome = "none"
        /\ Goto(t, "mw_p")
        /\ UNCHANGED <<cond, ls, mw>>
     \/ /\ ~waiting[t]
        /\ Goto(t, "slow")
        /\ cond' = [cond EXCEPT ![t] = NoCond]
        /\ ls' = [ls EXCEPT ![t] = [clear |-> TRUE, wait_count |-> 0]]
        /\ mw' = [mw EXCEPT ![t].outcome = "none"]
  /\ UNCHANGED <<muVars, waiting, sem, removed, same, l_type, ret, old, us,
                 clientVars>>

MwP(t) ==
  /\ pc[t] = "mw_p"
  /\ SemP(t)
  /\ Goto(t, "mw_wait")
  /\ UNCHANGED <<muVars, waiting, removed, cond, same, localVars, clientVars>>

\* Mutant: the loop goes on after ETIMEDOUT.
MwExpireToTest(t) ==
  /\ pc[t] = "mw_p" /\ mw[t].timed
  /\ Goto(t, "mw_wait")
  /\ UNCHANGED <<muVars, waiterVars, localVars, clientVars>>

\* The semaphore wait ends with ETIMEDOUT or ECANCELED.
MwExpire(t) ==
  /\ pc[t] = "mw_p" /\ mw[t].timed
  /\ mw' = [mw EXCEPT ![t].outcome = "expired"]
  /\ Goto(t, IF waiting[t] THEN "mt_load" ELSE "mw_wait")
  /\ UNCHANGED <<muVars, waiterVars, l_type, ret, old, ls, us, clientVars>>

---------------------------------------------------------------------------
(* mu_try_acquire_after_timeout_or_cancel                                  *)

\* Mutant: readers are not in the way of the write lock.
MtCanAcquireDespiteReaders(w) == w.bits \cap {"WLOCK", "LONG_WAIT", "SPINLOCK"} = {}

MtCanAcquire(w) == CanAcquire(w, "writer", {}) /\ "SPINLOCK" \notin w.bits

MtCanMark(w) == w.bits \cap {"WRITER_WAITING", "SPINLOCK"} = {}

\* Load the word; spin while there is nothing to try with it.
MtLoad(t) ==
  /\ pc[t] = "mt_load"
  /\ \/ MtCanAcquire(word) /\ Goto(t, "mt_cas")
     \/ ~MtCanAcquire(word) /\ MtCanMark(word) /\ Goto(t, "mt_mark")
  /\ old' = [old EXCEPT ![t] = word]
  /\ UNCHANGED <<muVars, waiterVars, l_type, ret, ls, mw, us, clientVars>>

\* The word with the spinlock and the write lock taken.
MtAcquired(w) == SetClear(AddToAcquire(w, "writer"), {"SPINLOCK"},
                          ClearOnAcquire("writer"))

MtCas(t) ==
  /\ pc[t] = "mt_cas"
  /\ IF word = old[t]
     THEN word' = MtAcquired(word) /\ Goto(t, "mt_check")
     ELSE /\ Goto(t, IF MtCanMark(old[t]) THEN "mt_mark" ELSE "mt_load")
          /\ UNCHANGED word
  /\ UNCHANGED <<waiters, waiterVars, localVars, clientVars>>

\* The CAS that sets MU_WRITER_WAITING; its failure is ignored.
MtMark(t) ==
  /\ pc[t] = "mt_mark"
  /\ word' = IF word = old[t] THEN SetClear(word, {"WRITER_WAITING"}, {})
                              ELSE word
  /\ Goto(t, "mt_load")
  /\ UNCHANGED <<waiters, waiterVars, localVars, clientVars>>

StillQueued(t) == waiting[t] /\ ~removed[t]

\* Holding the spinlock and the write lock: leave the queue and keep the lock
\* in the mode of the wait, or give both up.  Both stores are of a word made
\* from the one loaded before the CAS.
MtCheck(t) ==
  /\ pc[t] = "mt_check"
  /\ old' = [old EXCEPT ![t] = ZeroWord]
  /\ IF StillQueued(t)
     THEN LET i == IndexOf(waiters, t)
          IN  /\ same' = RingAfterRemove(same, cond, waiters, i)
              /\ waiters' = Without(waiters, i)
              /\ removed' = [removed EXCEPT ![t] = TRUE]
              /\ waiting' = [waiting EXCEPT ![t] = FALSE]
              /\ word' = AddToAcquire(old[t], l_type[t])
              /\ mw' = [mw EXCEPT ![t].outcome = "have_lock"]
              /\ changed' = [changed EXCEPT ![t] = "nothing"]
              /\ Goto(t, "mw_eval")
     ELSE /\ word' = old[t]
          /\ Goto(t, "mw_wait")
          /\ UNCHANGED <<same, waiters, removed, waiting, mw, changed>>
  /\ UNCHANGED <<sem, cond, l_type, ret, ls, us, truth, calls>>

\* Evaluate the condition again: return, or wait once more.
MwEval(t) ==
  /\ pc[t] = "mw_eval"
  /\ IF IsTrue(mw[t].want) \/ mw[t].outcome = "have_lock"
     THEN /\ Goto(t, IF IsTrue(mw[t].want) \/ mw[t].timed THEN "held"
                                                          ELSE "panic")
          /\ mw' = [mw EXCEPT ![t] = NoMw]
     ELSE Goto(t, "mw_spin") /\ UNCHANGED mw
  /\ UNCHANGED <<muVars, waiterVars, l_type, ret, old, ls, us, clientVars>>

---------------------------------------------------------------------------
(* The client, and the whole system.                                       *)

\* A writer changes the protected state, making one condition true or false,
\* at most once in a critical section.
Change(t) ==
  /\ "change" \in Menu[t]
  /\ pc[t] = "held" /\ l_type[t] = "writer" /\ changed[t] = "nothing"
  /\ \E c \in Conds :
       /\ truth' = [truth EXCEPT ![c] = ~@]
       /\ changed' = [changed EXCEPT ![t] = IF truth[c] THEN "made_false"
                                                        ELSE "made_true"]
  /\ UNCHANGED <<muVars, waiterVars, localVars, pc, calls>>

\* The calls a client chooses to make.
Call(t) ==
  \/ nsync_mu_lock(t) \/ nsync_mu_trylock(t)
  \/ nsync_mu_rlock(t) \/ nsync_mu_rtrylock(t)
  \/ nsync_mu_wait(t) \/ nsync_mu_wait_with_deadline(t)
  \/ Change(t)

\* A client that holds the mutex releases it.
Unlock(t) ==
  \/ nsync_mu_unlock(t) \/ nsync_mu_runlock(t)
  \/ nsync_mu_unlock_without_wakeup(t)

\* The steps of a call in progress.
Step(t) ==
  \/ LockLoad(t) \/ LockCas(t)
  \/ SlowAcquire(t) \/ SlowSpinlock(t) \/ SlowQueue(t) \/ SlowTest(t) \/ SlowP(t)
  \/ UnlockLoad(t) \/ UnlockCas(t)
  \/ UsJustRelease(t) \/ UsBegin(t) \/ UsStartScan(t) \/ UsScan(t)
  \/ UsEndScan(t) \/ UsRelease(t) \/ UsWake(t) \/ UsV(t)
  \/ MwSpinlock(t) \/ MwQueue(t) \/ MwTest(t) \/ MwP(t) \/ MwExpire(t)
  \/ MtLoad(t) \/ MtCas(t) \/ MtMark(t) \/ MtCheck(t) \/ MwEval(t)

\* A thread that has made all its calls, or that waits without a deadline for
\* a condition that is false.
Finished(t) ==
  \/ pc[t] = "idle" /\ calls[t] = MaxCalls
  \/ /\ pc[t] = "mw_p" /\ ~mw[t].timed /\ sem[t] = 0
     /\ waiting[t] /\ ~IsTrue(cond[t])

\* The system may stop only when every thread is finished.
Terminating == (\A t \in Threads : Finished(t)) /\ UNCHANGED vars

Next == (\E t \in Threads : Call(t) \/ Unlock(t) \/ Step(t)) \/ Terminating

Spec == Init /\ [][Next]_vars

\* Threads are scheduled, and clients do not hold the mutex for ever.
FairSpec == Spec /\ \A t \in Threads : WF_vars(Step(t)) /\ WF_vars(Unlock(t))

---------------------------------------------------------------------------
(* Who holds what.  A thread that panics in nsync_mu_unlock_slow_ stops    *)
(* with what it holds there.                                               *)

HoldPCs == {"held", "ul_load", "ul_cas", "us", "mw_spin", "mw_queue", "mw_eval"}

HoldsWrite(t) ==
  \/ pc[t] \in HoldPCs /\ l_type[t] = "writer"
  \/ pc[t] \in {"us_loop", "us_scan", "us_panic"} /\ us[t].late
  \/ pc[t] = "mt_check"

HoldsRead(t) == pc[t] \in HoldPCs /\ l_type[t] = "reader"

HoldsSpinlock(t) ==
  \/ pc[t] \in {"ls_queue", "us_loop", "mw_queue", "mt_check"}
  \/ pc[t] \in {"us_scan", "us_panic"} /\ ~us[t].testing

WriteHolders == {t \in Threads : HoldsWrite(t)}
ReadHolders  == {t \in Threads : HoldsRead(t)}

PCs == HoldPCs \cup
       {"idle", "panic", "us_panic", "lock_load", "lock_cas", "slow",
        "ls_queue", "ls_wait", "ls_p", "us_loop", "us_scan", "us_wake", "us_v", "mw_wait", "mw_p",
        "mt_load", "mt_cas", "mt_mark", "mt_check"}

\* The queues that hold waiters of the mutex: mu->waiters, and the local
\* lists of a thread that is looking for waiters to wake.
Queued(t) == \/ t \in Range(waiters)
             \/ \E u \in Threads : t \in Range(us[u].new) \cup Range(us[u].seen)

\* The waiters that a releasing thread has still to tell: at "us_v" it has
\* cleared the waiting flag of the first one.
ToWake(u) == IF pc[u] = "us_v" THEN Tail(us[u].wake) ELSE us[u].wake

BeingWoken(t) == \E u \in Threads : t \in Range(ToWake(u))

---------------------------------------------------------------------------
(* The abstract reader/writer lock that this specification implements.     *)

ModeOf(t) == IF HoldsWrite(t) THEN "writer"
             ELSE IF HoldsRead(t) THEN "reader" ELSE "none"

mode == [t \in Threads |-> ModeOf(t)]

RW == INSTANCE RWLock

\* nsync_mu implements a reader/writer lock: each step leaves all holders alone
\* or changes how one thread holds the lock, as RWLock allows; the conversions
\* to write mode during an unlock or after a deadline are among the changes.
ImplementsRWLock == RW!Spec

---------------------------------------------------------------------------
(* Properties.                                                             *)

RetPoints == {"none", "lock", "trylock", "unlock", "without_wakeup", "mu_wait"}

\* The locals of the three slow paths.
LsType == [clear : BOOLEAN, wait_count : 0..LONG_WAIT_THRESHOLD]

MwType == [want : Conds \cup {NoCond}, timed : BOOLEAN, first_wait : BOOLEAN,
           had_waiters : BOOLEAN, outcome : {"none", "expired", "have_lock"}]

UsType == [testing : BOOLEAN, late : BOOLEAN, new : Seq(Threads),
           seen : Seq(Threads), i : Nat \ {0}, wake : Seq(Threads),
           wake_type : LockTypes \cup {"none"},
           all_false : BOOLEAN, writer_waiting : BOOLEAN]

\* Type correctness of the mutex, its waiters and the locals of every call; the
\* rings are the subject of SameConditionRings.
TypeOK ==
  /\ word \in Word
  /\ waiters \in Seq(Threads)
  /\ truth \in [Conds -> BOOLEAN]
  /\ waiting \in [Threads -> BOOLEAN]
  /\ sem \in [Threads -> 0..SemMax]
  /\ removed \in [Threads -> BOOLEAN]
  /\ cond \in [Threads -> Conds \cup {NoCond}]
  /\ pc \in [Threads -> PCs]
  /\ l_type \in [Threads -> LockTypes]
  /\ ret \in [Threads -> RetPoints]
  /\ old \in [Threads -> Word]
  /\ ls \in [Threads -> LsType]
  /\ mw \in [Threads -> MwType]
  /\ us \in [Threads -> UsType]
  /\ changed \in [Threads -> {"nothing", "made_true", "made_false"}]
  /\ calls \in [Threads -> 0..MaxCalls]

\* The lock is a reader/writer lock: while one thread holds it in write mode,
\* no other thread holds it in any mode (nsync_mu.h, "mutual exclusion").
\* Holding counts the whole time between the CAS that acquires and the one that
\* releases, including the tests of other threads' conditions during an unlock.
MutualExclusion ==
  \A t, u \in Threads :
    t # u /\ HoldsWrite(t) => ~HoldsWrite(u) /\ ~HoldsRead(u)

\* The word always says who holds the lock: MU_WLOCK is set exactly while some
\* thread holds it in write mode, and MU_RLOCK_FIELD is the number of readers,
\* through every early release, conversion, timeout and plain store.
WordCountsHolders ==
  /\ "WLOCK" \in word.bits <=> WriteHolders # {}
  /\ word.readers = Cardinality(ReadHolders)

\* What the mutex tells a thread that holds it is right, whatever other threads
\* are doing: nsync_mu_assert_held and nsync_mu_rassert_held do not panic, and
\* nsync_mu_is_reader returns the mode in which the caller holds it.
HolderIsToldItsMode ==
  \A t \in Threads :
    /\ HoldsWrite(t) => AssertHeldPasses(word) /\ ~IsReader(word)
    /\ HoldsWrite(t) \/ HoldsRead(t) => RAssertHeldPasses(word)
    /\ HoldsRead(t) => IsReader(word)

\* MU_SPINLOCK is held by at most one thread at a time and is set exactly
\* while some thread holds it, so the waiter queue has one writer.
SpinlockExclusion ==
  /\ "SPINLOCK" \in word.bits <=> \E t \in Threads : HoldsSpinlock(t)
  /\ \A t, u \in Threads : HoldsSpinlock(t) /\ HoldsSpinlock(u) => t = u

\* A word that a thread keeps between a load and a later write is still good
\* for that write.  What a CAS expects is a word its caller may act on, and in
\* mu_try_acquire_after_timeout_or_cancel the word cannot change between the CAS
\* and the plain store, which would undo such a change.  A thread that tests
\* conditions without the spinlock has kept the lock, one that wakes waiters has
\* one to wake, and only a wait with a deadline expires.
RememberedStateIsGood ==
  \A t \in Threads :
    /\ pc[t] = "lock_cas" => CanAcquire(old[t], l_type[t], {})
    /\ pc[t] = "mt_mark" => MtCanMark(old[t])
    /\ pc[t] \in {"mt_cas", "mt_check"} => MtCanAcquire(old[t])
    /\ pc[t] = "mt_check" => word = MtAcquired(old[t])
    /\ pc[t] \in {"us_loop", "us_scan"} /\ us[t].testing => us[t].late
    /\ pc[t] \in {"us_wake", "us_v"} => us[t].wake # <<>>
    /\ pc[t] \in {"mt_load", "mt_cas", "mt_mark", "mt_check"}
         => mw[t].outcome = "expired"
    /\ mw[t].outcome # "none" => mw[t].timed

\* No sanity check of the mutex code panics when clients release only what
\* they hold; in particular nsync_mu_unlock_slow_ never meets a waiter with a
\* condition after it has given up the lock.
NoPanic == \A t \in Threads : pc[t] \notin {"panic", "us_panic"}

\* MU_DESIG_WAKER is set only while a former waiter has been or is being woken
\* and has neither acquired nor slept again, or a releasing thread is choosing
\* one; otherwise all later releases would skip waking anyone.
DesigWakerExists ==
  "DESIG_WAKER" \in word.bits =>
    \E t \in Threads :
      \/ pc[t] \in {"us_loop", "us_scan"}
      \/ BeingWoken(t)
      \/ pc[t] = "slow" /\ ls[t].clear
      \/ ~waiting[t] /\ pc[t] \in {"ls_wait", "ls_p", "mw_wait", "mw_p", "mt_load",
                                     "mt_cas", "mt_mark", "mt_check"}
      \/ ~waiting[t] /\ pc[t] \in {"us_wake", "us_v"} /\ ret[t] = "mu_wait"

\* MU_WAITING is set whenever a queue is not empty, and MU_CONDITION whenever a
\* queued waiter has a condition ("illegal to fail to set it with such a
\* waiter"), also while the queue is in a releasing thread's local lists.
QueueBitsSet ==
  \A t \in Threads :
    Queued(t) => /\ "WAITING" \in word.bits
                 /\ cond[t] # NoCond => "CONDITION" \in word.bits

\* MU_ALL_FALSE with no writer holding the lock means that every queued waiter
\* has a condition and the condition is false ("illegal to set it
\* inappropriately"): a reader that releases may then skip looking.
AllFalseMeansAllFalse ==
  "ALL_FALSE" \in word.bits /\ "WLOCK" \notin word.bits =>
    \A t \in Range(waiters) : ~IsTrue(cond[t])

\* MU_LONG_WAIT is set only while a thread that has been woken
\* LONG_WAIT_THRESHOLD times is still trying to acquire; otherwise it would keep
\* out every thread that has not waited, with no one left to clear it.
LongWaitHasOwner ==
  "LONG_WAIT" \in word.bits =>
    \E t \in Threads : /\ ls[t].wait_count = LONG_WAIT_THRESHOLD
                       /\ pc[t] \in {"slow", "ls_queue", "ls_wait", "ls_p"}

\* The places of t in the list q, and in all lists.
PlacesIn(q, t, name) == {<<name, j>> : j \in {k \in DOMAIN q : q[k] = t}}
PlacesOf(t) ==
  PlacesIn(waiters, t, <<t, "mu">>) \cup
  UNION {PlacesIn(us[u].new, t, <<u, "new">>) \cup PlacesIn(us[u].seen, t, <<u, "seen">>)
           \cup PlacesIn(ToWake(u), t, <<u, "wake">>) : u \in Threads}

\* A thread that sleeps is in exactly one place from which it will be found:
\* one position of one queue, or one list of waiters to wake.
SleeperIsListedOnce ==
  \A t \in Threads :
    Cardinality(PlacesOf(t)) = IF waiting[t] /\ pc[t] # "mw_queue" THEN 1 ELSE 0

\* A woken thread never sleeps on: if its waiting flag is clear while it is in
\* the semaphore, the semaphore has a count or the waker is about to post it,
\* whatever counts earlier waits left behind or consumed.
WokenThreadGetsPost ==
  \A t \in Threads :
    pc[t] \in {"ls_p", "mw_p"} /\ ~waiting[t] =>
      \/ sem[t] > 0
      \/ \E u \in Threads : pc[u] = "us_v" /\ Head(us[u].wake) = t

\* No lost wakeup: when the mutex is free, its spinlock is free, no thread is
\* designated to wake others and no thread whose wait expired is about to take
\* the mutex, every queued waiter is waiting for a condition that is false.
NoStrandedWaiter ==
  (/\ ~AnyLock(word)
   /\ word.bits \cap {"SPINLOCK", "DESIG_WAKER"} = {}
   /\ \A t \in Threads : pc[t] \notin {"mt_load", "mt_cas", "mt_mark"})
  => \A t \in Range(waiters) : ~IsTrue(cond[t])

\* The members of a same_condition ring are neighbours in their queue, in queue
\* order, and have equal conditions, so skipping to the end of a ring never
\* skips a waiter whose condition was not just found false; a thread in no queue
\* is in no ring.
SameConditionRings ==
  /\ \A t \in Threads : ~Queued(t) => same[t] = t
  /\ \A q \in {waiters} \cup UNION {{us[u].new, us[u].seen} : u \in Threads} :
       RingsFollowQueue(same, cond, q)

\* The mutex code's sanity checks, and the assertions that a holder makes about
\* its mode, pass when clients release only what they hold.
SanityChecksPass == NoPanic /\ HolderIsToldItsMode

\* Each flag that lets threads skip work (MU_DESIG_WAKER, MU_LONG_WAIT,
\* MU_ALL_FALSE) is set only while its reason exists, and those that call for
\* work (MU_WAITING, MU_CONDITION) whenever theirs does.
FlagsHaveReasons ==
  DesigWakerExists /\ LongWaitHasOwner /\ QueueBitsSet /\ AllFalseMeansAllFalse

\* A sleeper will be found, and wakes when found: it is in exactly one queue or
\* list of waiters to wake, the same_condition rings by which a search skips
\* waiters follow the queue, and once its flag is clear it has its post.
SleepersAreFound == SleeperIsListedOnce /\ SameConditionRings /\ WokenThreadGetsPost

\* Every lock call returns: a thread that is acquiring the mutex, for a lock
\* call or after a wait ended, eventually has it.
LockReturns ==
  \A t \in Threads : pc[t] \in {"slow", "ls_queue", "ls_wait", "ls_p"}
                       ~> pc[t] \in {"held", "mw_eval"}

\* Every release call returns, whatever it has to wake.
UnlockReturns ==
  \A t \in Threads : pc[t] \in {"ul_load", "ul_cas", "us"} /\ ret[t] # "mu_wait"
                       ~> pc[t] = "idle"

\* nsync_mu_wait returns: a thread does not stay in the wait while its
\* condition stays true.
MuWaitReturns ==
  \A t \in Threads : mw[t].want # NoCond /\ IsTrue(mw[t].want)
                       ~> mw[t].want = NoCond \/ ~IsTrue(mw[t].want)

\* nsync_mu_wait_with_deadline returns once its deadline has passed, even if its
\* condition stays false, holding the lock.
DeadlineWaitReturns ==
  \A t \in Threads : mw[t].timed ~> pc[t] = "held"

\* Calls that acquire and calls that release return.
MuCallsReturn == LockReturns /\ UnlockReturns

\* Conditional waits return once their condition stays true or their deadline
\* has passed.
MuWaitsEnd == MuWaitReturns /\ DeadlineWaitReturns
===========================================================================
