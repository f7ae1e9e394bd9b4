-------------------------------- MODULE Cv --------------------------------
(***************************************************************************)
(* nsync_cv: the condition variable of internal/cv.c, composed with the    *)
(* mutex of Mu.  All waiters use the same nsync_mu, and wait with          *)
(* nsync_cv_wait or nsync_cv_wait_with_deadline; waiters that come from    *)
(* nsync_wait_n are the subject of WaitN.                                  *)
(*                                                                         *)
(* The cv's own spinlock protects its queue and nothing is read outside it *)
(* but CV_NON_EMPTY, by a signaller that then takes the spinlock and looks *)
(* again; so each critical section of the cv is one step.  The mutex is    *)
(* released and reacquired by the steps of Mu: a thread in a cv wait has   *)
(* ret = "mu_wait", which makes those steps end at "mw_wait" when the lock *)
(* is released and at "mw_eval" when it is acquired.  There cvpc says what *)
(* the thread does next.                                                   *)
(***************************************************************************)
EXTENDS MuClient

CONSTANT Programs  \* client programs: the calls on the mutex and on the cv of
                   \* each thread; "print" says that Debug's caller is there

CvCalls == {"wait", "wait_with_deadline", "signal", "broadcast", "print"}

ASSUME ProgramsAssumption ==
  \A p \in Programs : DOMAIN p.mu = Threads /\ p.cv \in [Threads -> SUBSET CvCalls]

VARIABLES
  cv_menu,     \* cv_menu[t]: the calls on the cv that thread t makes
  cv_waiters,  \* pcv->waiters, first waiter first
  non_empty,   \* CV_NON_EMPTY of pcv->word
  cv_mu,       \* w->cv_mu != NULL: the waiter was not moved to the mutex
  cvpc,        \* where each thread is in a call on the cv
  cw,          \* locals of the wait: timed, sem_outcome, outcome
  wk           \* locals of wake_waiters: to_wake_list, all_readers, cant_acquire

cvVars == <<cv_waiters, non_empty, cv_mu, cvpc, cw, wk>>

menuVars == <<menu, cv_menu>>

NoCw == [timed |-> FALSE, sem_outcome |-> "none", outcome |-> "none"]

NoWk == [list |-> <<>>, all_readers |-> FALSE, cant_acquire |-> FALSE]

\* nsync_cv_init: the cv is all zero.
nsync_cv_init == cv_waiters = <<>> /\ non_empty = FALSE

CvInit ==
  /\ \E p \in Programs : MenuInit({p.mu}) /\ cv_menu = p.cv
  /\ nsync_cv_init
  /\ cv_mu = [t \in Threads |-> FALSE]
  /\ cvpc = [t \in Threads |-> "none"]
  /\ cw = [t \in Threads |-> NoCw]
  /\ wk = [t \in Threads |-> NoWk]

CvGoto(t, l) == cvpc' = [cvpc EXCEPT ![t] = l]

---------------------------------------------------------------------------
(* nsync_cv_wait_with_deadline_generic on an nsync_mu.                     *)

\* The mode of the wait is read from the word; false if the caller is told
\* that it does not hold the mutex, or holds it in both modes.
ModeIsClear(w) == ("WLOCK" \in w.bits) # (w.readers > 0)

\* A client waits only while what it waits for is false; if no client makes it
\* true, it waits whenever it likes.
CvWaitCall(t, timed) ==
  /\ pc[t] = "held" /\ cvpc[t] = "none" /\ MayCall(t)
  /\ \A c \in Conds : ~truth[c]
  /\ IF ModeIsClear(word)
     THEN /\ CvGoto(t, "cw_queue")
          /\ l_type' = [l_type EXCEPT ![t] = IF word.readers > 0 THEN "reader"
                                                                 ELSE "writer"]
          /\ cw' = [cw EXCEPT ![t] = [NoCw EXCEPT !.timed = timed]]
          /\ UNCHANGED pc
     ELSE Goto(t, "panic") /\ UNCHANGED <<cvpc, l_type, cw>>
  /\ UNCHANGED <<muVars, waiterVars, ret, old, ls, mw, us, truth, changed,
                 cv_waiters, non_empty, cv_mu, wk>>

nsync_cv_wait(t) == "wait" \in cv_menu[t] /\ CvWaitCall(t, FALSE)

nsync_cv_wait_with_deadline(t) ==
  "wait_with_deadline" \in cv_menu[t] /\ CvWaitCall(t, TRUE)

\* Set up the waiter and queue it, noting its remove_count.
CvQueue(t) ==
  /\ cvpc[t] = "cw_queue"
  /\ waiting' = [waiting EXCEPT ![t] = TRUE]
  /\ cond' = [cond EXCEPT ![t] = NoCond]
  /\ removed' = [removed EXCEPT ![t] = FALSE]
  /\ cv_mu' = [cv_mu EXCEPT ![t] = TRUE]
  /\ cv_waiters' = Append(cv_waiters, t)
  /\ non_empty' = TRUE
  /\ CvGoto(t, "cw_unlock")
  /\ UNCHANGED <<muVars, sem, same, localVars, clientVars, pc, cw, wk>>

\* The call that releases the mutex: its first CAS, as in UnlockCall.
CvUnlock(t) ==
  /\ cvpc[t] = "cw_unlock"
  /\ ret' = [ret EXCEPT ![t] = "mu_wait"]
  /\ IF word = AddToAcquire(ZeroWord, l_type[t])
     THEN word' = ZeroWord /\ Goto(t, "mw_wait")
     ELSE Goto(t, "ul_load") /\ UNCHANGED word
  /\ CvGoto(t, "cw_wait")
  /\ UNCHANGED <<waiters, waiterVars, l_type, old, ls, mw, us, clientVars,
                 cv_waiters, non_empty, cv_mu, cw, wk>>

\* The loop test when no deadline has passed: go to the semaphore.
CvTest(t) ==
  /\ cvpc[t] = "cw_wait" /\ pc[t] = "mw_wait"
  /\ waiting[t] /\ cw[t].sem_outcome = "none"
  /\ CvGoto(t, "cw_p")
  /\ UNCHANGED <<vars, cv_waiters, non_empty, cv_mu, cw, wk>>

CvP(t) ==
  /\ cvpc[t] = "cw_p"
  /\ SemP(t)
  /\ CvGoto(t, "cw_wait")
  /\ UNCHANGED <<muVars, waiting, removed, cond, same, localVars, clientVars,
                 pc, cv_waiters, non_empty, cv_mu, cw, wk>>

\* nsync_sem_wait_with_cancel_ returns ETIMEDOUT or ECANCELED.
CvExpire(t) ==
  /\ cvpc[t] = "cw_p" /\ cw[t].timed
  /\ cw' = [cw EXCEPT ![t].sem_outcome = "expired"]
  /\ CvGoto(t, "cw_wait")
  /\ UNCHANGED <<vars, cv_waiters, non_empty, cv_mu, wk>>

\* Mutant: remove_count is not compared.
GovernedByAnyone(t) == waiting[t]

\* The waiter is still governed by the cv's spinlock.
GovernedByCv(t) == waiting[t] /\ ~removed[t]

\* Mutant: a waiter that times out stays on the queue.
CvQueueKept(t) == cv_waiters

\* The cv's queue without t, wherever t is in it.
CvQueueWithout(t) == SelectSeq(cv_waiters, LAMBDA x : x # t)

NonEmptyAfter(q) == q # <<>>

\* After a deadline, with the cv's spinlock: leave the queue and declare the
\* timeout.  A thread that was dequeued by another spins until that thread
\* clears its waiting flag.
CvTimeout(t) ==
  /\ cvpc[t] = "cw_wait" /\ pc[t] = "mw_wait"
  /\ cw[t].sem_outcome # "none" /\ GovernedByCv(t)
  /\ cw' = [cw EXCEPT ![t].outcome = cw[t].sem_outcome]
  /\ cv_waiters' = CvQueueWithout(t)
  /\ non_empty' = NonEmptyAfter(cv_waiters')
  /\ removed' = [removed EXCEPT ![t] = TRUE]
  /\ waiting' = [waiting EXCEPT ![t] = FALSE]
  /\ UNCHANGED <<muVars, sem, cond, same, localVars, clientVars, pc, cv_mu,
                 cvpc, wk>>

\* The waiter was moved to the mutex's queue, and woken from there.
WasTransferred(t) == ~cv_mu[t]

\* The wait is over: reacquire, in nsync_mu_lock_slow_ as the designated waker
\* if the thread was moved to the mutex's queue, else by an ordinary call.
CvRelock(t) ==
  /\ cvpc[t] = "cw_wait" /\ pc[t] = "mw_wait" /\ ~waiting[t]
  /\ CvGoto(t, "cw_relock")
  /\ \/ /\ WasTransferred(t)
        /\ ls' = [ls EXCEPT ![t] = [clear |-> TRUE, wait_count |-> 0]]
        /\ Goto(t, "slow") /\ UNCHANGED <<word, changed>>
     \/ /\ ~WasTransferred(t) /\ word = ZeroWord
        /\ word' = AddToAcquire(ZeroWord, l_type[t])
        /\ Acquired(t)
     \/ /\ ~WasTransferred(t) /\ word # ZeroWord
        /\ Goto(t, "lock_load") /\ UNCHANGED <<word, ls, changed>>
  /\ UNCHANGED <<waiters, waiterVars, l_type, ret, old, mw, us, truth, calls,
                 cv_waiters, non_empty, cv_mu, cw, wk>>

CvReturn(t) ==
  /\ cvpc[t] = "cw_relock" /\ pc[t] = "mw_eval"
  /\ Goto(t, "held") /\ CvGoto(t, "none")
  /\ cw' = [cw EXCEPT ![t] = NoCw]
  /\ cv_mu' = [cv_mu EXCEPT ![t] = FALSE]
  /\ UNCHANGED <<muVars, waiterVars, localVars, clientVars, cv_waiters,
                 non_empty, wk>>

---------------------------------------------------------------------------
(* nsync_cv_signal and nsync_cv_broadcast.                                 *)

IsReaderWaiter(p) == l_type[p] = "reader"

\* The waiters nsync_cv_signal takes off the queue q: the first one; if it is
\* a reader, also all other readers and the first writer.
ToSignal(q) ==
  {p \in Range(q) :
     \/ p = Head(q)
     \/ /\ IsReaderWaiter(Head(q))
        /\ \/ IsReaderWaiter(p)
           \/ \A x \in Range(q) : ~IsReaderWaiter(x)
                                    => IndexOf(q, p) <= IndexOf(q, x)}

\* Mutant: broadcast leaves the writers behind.
ToBroadcastReaders(q) == {p \in Range(q) : IsReaderWaiter(p)}

\* The waiters nsync_cv_broadcast takes.
ToBroadcast(q) == Range(q)

\* A waker may hold the mutex or not.
MayWake(t, how) ==
  how \in cv_menu[t] /\ cvpc[t] = "none" /\ pc[t] \in {"idle", "held"} /\ MayCall(t)

\* The critical section of a waker: move the waiters "chosen" from the queue
\* to to_wake_list, or return at once when CV_NON_EMPTY is clear.
CvDetach(t, chosen) ==
  LET list == SelectSeq(cv_waiters, LAMBDA x : x \in chosen)
  IN  IF ~non_empty \/ list = <<>>
      THEN UNCHANGED <<cv_waiters, non_empty, removed, cvpc, wk>>
      ELSE /\ cv_waiters' = SelectSeq(cv_waiters, LAMBDA x : x \notin chosen)
           /\ non_empty' = NonEmptyAfter(cv_waiters')
           /\ removed' = [x \in Threads |-> removed[x] \/ x \in chosen]
           /\ wk' = [wk EXCEPT ![t] =
                       [list |-> list, cant_acquire |-> FALSE,
                        all_readers |-> \A x \in chosen : IsReaderWaiter(x)]]
           /\ CvGoto(t, "cb_load")

nsync_cv_signal(t) ==
  /\ MayWake(t, "signal")
  /\ CvDetach(t, ToSignal(cv_waiters))
  /\ UNCHANGED <<muVars, waiting, sem, cond, same, localVars, truth, changed, pc,
                 cv_mu, cw>>

nsync_cv_broadcast(t) ==
  /\ MayWake(t, "broadcast")
  /\ CvDetach(t, ToBroadcast(cv_waiters))
  /\ changed' = [changed EXCEPT ![t] = "nothing"]
  /\ UNCHANGED <<muVars, waiting, sem, cond, same, localVars, truth, pc, cv_mu, cw>>

---------------------------------------------------------------------------
(* wake_waiters                                                            *)

\* Mutant: moves waiters to a mutex that no one holds.
ShouldTransferToFree(w, cant_acquire, several) ==
  "SPINLOCK" \notin w.bits /\ (cant_acquire \/ several)

\* Whether to try to move waiters to the mutex with word w; "several" says
\* that there is more than one waiter and not all are readers.
ShouldTransfer(w, cant_acquire, several) ==
  AnyLock(w) /\ "SPINLOCK" \notin w.bits /\ (cant_acquire \/ several)

\* The load of the mutex word and the decision made from it.
WakeLoad(t) ==
  /\ cvpc[t] = "cb_load"
  /\ LET list == wk[t].list
         cant == ~CanAcquire(word, l_type[Head(list)], {})
     IN  IF ShouldTransfer(word, cant, Len(list) > 1 /\ ~wk[t].all_readers)
         THEN /\ old' = [old EXCEPT ![t] = word]
              /\ wk' = [wk EXCEPT ![t].cant_acquire = cant]
              /\ CvGoto(t, "cb_cas")
         ELSE CvGoto(t, "cb_wake") /\ UNCHANGED <<old, wk>>
  /\ UNCHANGED <<muVars, waiterVars, l_type, ret, ls, mw, us, clientVars, pc,
                 cv_waiters, non_empty, cv_mu, cw>>

\* The word with which the mutex's spinlock is taken.
TransferWord(w) == SetClear(w, {"SPINLOCK", "WAITING"}, {"ALL_FALSE"})

\* The one attempt to take the mutex's spinlock.
WakeCas(t) ==
  /\ cvpc[t] = "cb_cas"
  /\ old' = [old EXCEPT ![t] = ZeroWord]
  /\ IF word = old[t]
     THEN /\ word' = TransferWord(word)
          /\ CvGoto(t, "cb_transfer")
     ELSE CvGoto(t, "cb_wake") /\ UNCHANGED word
  /\ UNCHANGED <<waiters, waiterVars, l_type, ret, ls, mw, us, clientVars, pc,
                 cv_waiters, non_empty, cv_mu, cw, wk>>

\* Whether waiter p of the list goes to the mutex's queue instead of being
\* woken.
Transfers(k, p) ==
  \/ k.cant_acquire
  \/ p # Head(k.list) /\ ~(IsReaderWaiter(p) /\ IsReaderWaiter(Head(k.list)))

\* set_on_release
ClaimWriter(moved, woken) ==
  IF /\ \E x \in Range(moved) : ~IsReaderWaiter(x)
     /\ \A x \in Range(woken) : ~IsReaderWaiter(x)
  THEN {"WRITER_WAITING"} ELSE {}

\* With the mutex's spinlock: move waiters, then release it.
WakeTransfer(t) ==
  /\ cvpc[t] = "cb_transfer"
  /\ LET moved == SelectSeq(wk[t].list, LAMBDA x : Transfers(wk[t], x))
         woken == SelectSeq(wk[t].list, LAMBDA x : ~Transfers(wk[t], x))
     IN  /\ waiters' = waiters \o moved
         /\ cv_mu' = [x \in Threads |-> cv_mu[x] /\ x \notin Range(moved)]
         /\ word' = SetClear(word, ClaimWriter(moved, woken), {"SPINLOCK"})
         /\ wk' = [wk EXCEPT ![t] = [NoWk EXCEPT !.list = woken]]
         /\ CvGoto(t, IF woken = <<>> THEN "none" ELSE "cb_wake")
  /\ UNCHANGED <<waiterVars, localVars, clientVars, pc, cv_waiters, non_empty, cw>>

\* Wake the next of the others: first its waiting flag ...
WakeClear(t) ==
  /\ cvpc[t] = "cb_wake"
  /\ waiting' = [waiting EXCEPT ![Head(wk[t].list)] = FALSE]
  /\ CvGoto(t, "cb_v")
  /\ UNCHANGED <<muVars, sem, removed, cond, same, localVars, clientVars, pc,
                 cv_waiters, non_empty, cv_mu, cw, wk>>

\* Mutant: the waiter's semaphore is not posted.
WakeWithoutV(t) ==
  /\ cvpc[t] = "cb_v"
  /\ wk' = [wk EXCEPT ![t] = [NoWk EXCEPT !.list = Tail(wk[t].list)]]
  /\ CvGoto(t, IF Len(wk[t].list) = 1 THEN "none" ELSE "cb_wake")
  /\ UNCHANGED <<vars, cv_waiters, non_empty, cv_mu, cw>>

\* ... and then its semaphore.
WakeV(t) ==
  /\ cvpc[t] = "cb_v"
  /\ SemV(Head(wk[t].list))
  /\ wk' = [wk EXCEPT ![t] = [NoWk EXCEPT !.list = Tail(wk[t].list)]]
  /\ CvGoto(t, IF Len(wk[t].list) = 1 THEN "none" ELSE "cb_wake")
  /\ UNCHANGED <<muVars, waiting, removed, cond, same, localVars, clientVars, pc,
                 cv_waiters, non_empty, cv_mu, cw>>

---------------------------------------------------------------------------
(* The client, and the whole system.                                       *)

\* A client of a monitor that made a condition true broadcasts before it locks
\* again.
CvClient(t) ==
  \/ nsync_cv_wait(t) \/ nsync_cv_wait_with_deadline(t)
  \/ nsync_cv_signal(t) \/ nsync_cv_broadcast(t)
  \/ /\ cvpc[t] = "none"
     /\ "broadcast" \in cv_menu[t] /\ pc[t] = "idle" => changed[t] # "made_true"
     /\ MenuCall(t) /\ UNCHANGED cvVars

CvUnlockCall(t) == cvpc[t] = "none" /\ MenuUnlock(t) /\ UNCHANGED cvVars

\* The steps of calls in progress; a thread in a cv wait leaves the steps of
\* Mu where the mutex has been released or reacquired.
CvStep(t) ==
  \/ /\ cvpc[t] = "none" \/ pc[t] \notin {"mw_wait", "mw_eval"}
     /\ Step(t) /\ UNCHANGED cvVars
  \/ CvQueue(t) \/ CvUnlock(t) \/ CvTest(t) \/ CvP(t) \/ CvExpire(t)
  \/ CvTimeout(t) \/ CvRelock(t) \/ CvReturn(t)
  \/ WakeLoad(t) \/ WakeCas(t) \/ WakeTransfer(t) \/ WakeClear(t) \/ WakeV(t)

\* A thread that has made all its calls, or that waits on the cv without a
\* deadline and has not been signalled.
CvFinished(t) ==
  \/ /\ pc[t] = "idle" /\ cvpc[t] = "none"
     /\ calls[t] = MaxCalls \/ HasCalled(t) \/ menu[t] \union cv_menu[t] = {}
  \/ cvpc[t] = "cw_p" /\ ~cw[t].timed /\ sem[t] = 0 /\ t \in Range(cv_waiters)

CvTerminating == (\A t \in Threads : CvFinished(t)) /\ UNCHANGED <<vars, cvVars>>

CvNext ==
  \/ /\ (\E t \in Threads : CvClient(t) \/ CvUnlockCall(t) \/ CvStep(t)) \/ CvTerminating
     /\ UNCHANGED menuVars
  \/ (\E t \in Threads : Retire(t)) /\ UNCHANGED <<cvVars, cv_menu>>

CvSpec == CvInit /\ [][CvNext]_<<vars, cvVars, menuVars>>

\* The broadcast that a client owes after it made a condition true.
OwedBroadcast(t) == changed[t] = "made_true" /\ nsync_cv_broadcast(t)

\* Threads are scheduled, clients do not hold the mutex for ever, those that owe
\* a broadcast make it and those that are to stop calling do.
CvFairSpec ==
  /\ CvSpec
  /\ \A t \in Threads : /\ WF_<<vars, cvVars>>(CvStep(t))
                        /\ WF_<<vars, cvVars>>(CvUnlockCall(t))
                        /\ WF_<<vars, cvVars>>(OwedBroadcast(t))
                        /\ WF_menu(Retire(t))
---------------------------------------------------------------------------
(* Properties.                                                             *)

CvPCs == {"none", "cw_queue", "cw_unlock", "cw_wait", "cw_p", "cw_relock",
          "cb_load", "cb_cas", "cb_transfer", "cb_wake", "cb_v"}

\* The waiters that a waker of the cv has still to tell or to move.
CvToWake(u) == IF cvpc[u] = "cb_v" THEN Tail(wk[u].list) ELSE wk[u].list

\* Type correctness of the cv and of the locals of its calls, on top of Mu's.
\* CV_NON_EMPTY is set exactly while the queue has a waiter, and a thread's
\* place in a cv wait agrees with its place in the mutex.
CvTypeOK ==
  /\ TypeOK
  /\ cv_waiters \in Seq(Threads) /\ non_empty = (cv_waiters # <<>>)
  /\ cv_mu \in [Threads -> BOOLEAN]
  /\ cvpc \in [Threads -> CvPCs]
  /\ \A t \in Threads :
       /\ wk[t].list \in Seq(Threads)
       /\ cvpc[t] \in {"cw_queue", "cw_unlock"} => pc[t] = "held"
       /\ cvpc[t] = "cw_p" => pc[t] = "mw_wait"
       /\ cvpc[t] \in {"cb_load", "cb_cas", "cb_transfer", "cb_wake", "cb_v"}
            <=> wk[t].list # <<>>

\* A thread that sleeps in a cv wait or a lock call is in exactly one place from
\* which it will be found: one position of the cv's queue, of the mutex's
\* queues, or of one list of waiters to wake.  This is what remove_count
\* protects when a deadline passes while the waiter is being signalled or
\* moved to the mutex.
CvSleeperIsListedOnce ==
  LET Times(q, t) == Cardinality({j \in DOMAIN q : q[j] = t})
      Sum(f) == FoldFunction(+, 0, f)
      Places(t) ==
        Times(cv_waiters, t) + Times(waiters, t)
          + Sum([u \in Threads |-> Times(us[u].new, t) + Times(us[u].seen, t)
                                    + Times(ToWake(u), t) + Times(CvToWake(u), t)])
  IN  \A t \in Threads : Places(t) = IF waiting[t] THEN 1 ELSE 0

\* A woken thread never sleeps on, whoever woke it and whatever counts earlier
\* waits left in its semaphore.
CvWokenThreadGetsPost ==
  \A t \in Threads :
    (pc[t] = "ls_p" \/ cvpc[t] = "cw_p") /\ ~waiting[t] =>
      \/ sem[t] > 0
      \/ \E u \in Threads :
           \/ pc[u] = "us_v" /\ Head(us[u].wake) = t
           \/ cvpc[u] = "cb_v" /\ Head(wk[u].list) = t

\* The mutex's spinlock has one owner also when wakers of the cv take it, and
\* no fast path of the mutex clears it under them.
CvSpinlockExclusion ==
  LET owners == {t \in Threads : HoldsSpinlock(t) \/ cvpc[t] = "cb_transfer"}
  IN  /\ Cardinality(owners) <= 1
      /\ "SPINLOCK" \in word.bits <=> owners # {}

\* The monitor loses no wakeup: while what the waiters wait for is true, a
\* waiter is on the cv's queue only if some thread has still to broadcast.
\* nsync_cv_wait queues the thread before it releases the mutex.
MonitorLosesNoWakeup ==
  cv_waiters # <<>> /\ (\E c \in Conds : truth[c])
    => \E t \in Threads : changed[t] = "made_true"

\* A waiter that was moved to the mutex's queue comes back as the mutex's
\* designated waker, so MU_DESIG_WAKER never stays set with no thread left to
\* clear it, which would make all later releases skip waking anyone.
CvDesigWakerExists == DesigWakerExists

\* A wait reports a timeout only if its waiter was still on the cv's queue: a
\* thread that was signalled returns 0, so that a signal is never consumed by
\* a thread that then acts as if it had timed out.
TimeoutTakesNoSignal ==
  [][\A t \in Threads :
       cw'[t].outcome # cw[t].outcome /\ cw'[t].outcome # "none"
         => t \in Range(cv_waiters)]_<<vars, cvVars>>

\* No waiter is left in the mutex's queue when the mutex is free and no thread
\* is about to take or wake; the waiters here include those moved from the cv,
\* and wake_waiters moves waiters only to a mutex that is held, which "ensures
\* that at least one of the transferred waiters will be woken".
MovedWaiterIsNotStranded == NoStrandedWaiter

\* A thread taken off the cv's queue by a signal or broadcast returns from its
\* wait, woken directly or moved to the mutex and woken from there.
SignalledWaitReturns ==
  \A t \in Threads : cvpc[t] \in {"cw_wait", "cw_p"} /\ removed[t] ~> cvpc[t] = "none"

\* A wait with a deadline returns, signalled or not, holding the mutex.
CvDeadlineWaitReturns ==
  \A t \in Threads : cw[t].timed ~> cvpc[t] = "none" /\ pc[t] = "held"

\* A thread that waits for a condition in a loop on the cv gets to see it: it
\* does not stay asleep on the cv while the condition stays true.
MonitorWaitEnds ==
  \A t \in Threads :
    cvpc[t] = "cw_p" /\ (\E c \in Conds : truth[c])
      ~> cvpc[t] # "cw_p" \/ (\A c \in Conds : ~truth[c])

\* A thread asleep in a cv wait will be found, and wakes when found: it is in
\* exactly one queue, of the cv or of the mutex, or list of waiters to wake, and
\* once its flag is clear it has its post.
CvSleepersAreFound == CvTypeOK /\ CvSleeperIsListedOnce /\ CvWokenThreadGetsPost

\* A waiter that wake_waiters moves to the mutex is woken from there: wakers of the
\* cv share the mutex's spinlock with its other users, no waiter is left behind on
\* a free mutex, and one that comes back clears MU_DESIG_WAKER.
MovedWaitersAreWoken ==
  CvSpinlockExclusion /\ MovedWaiterIsNotStranded /\ CvDesigWakerExists

\* A cv wait ends once it is signalled or its deadline has passed, and no thread
\* stays asleep on the cv while what its loop waits for stays true.
CvWaitsEnd == SignalledWaitReturns /\ CvDeadlineWaitReturns /\ MonitorWaitEnds
===========================================================================
