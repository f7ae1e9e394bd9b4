------------------------------- MODULE WaitN -------------------------------
(***************************************************************************)
(* nsync_wait_n (internal/wait.c) on counters and condition variables,     *)
(* with the waitable functions of counter.c and cv.c.  Notes are in Note.  *)
(*                                                                         *)
(* "mu" is the client's lock of the condition variables, taken and         *)
(* released through the lock and unlock arguments.  A deadline is "past",  *)
(* "timed" (it may pass at any time) or "never".                           *)
(***************************************************************************)
EXTENDS Counter

CONSTANTS
  Cvs,        \* model values, disjoint from Counters
  Programs    \* client programs, one of which is chosen at the start

Objects == Counters \union Cvs

VARIABLES
  program,     \* the client program
  cv_waiters,  \* pcv->waiters of each cv
  mu,          \* the owner of the client's lock
  wn,          \* locals of nsync_wait_n, for each thread
  to_wake,     \* locals of a waker: the cv, to_wake_list, whether a V is due, and
               \* whether the nw it is due to is no longer there
  waits        \* calls made by each thread

wnVars == <<cv_waiters, mu, wn, to_wake, waits>>

Waitables == program.waitables  \* the sequence of objects that each thread waits for

Deadlines == program.deadlines  \* the deadlines of its waits

Deltas == program.deltas        \* the non-zero deltas that it adds to counters

Wakers == program.wakers        \* the threads that signal and broadcast

MaxWaits == program.max_waits   \* bound: waits and wakes made by a thread

allVars == <<cntVars, waiting, sem, wnVars, program>>

Count(t) == Len(Waitables[t])

\* "count" as a result of nsync_wait_n: no object was ready.
TimedOut(t) == Count(t) + 1

Idle(t) == [at |-> "none", deadline |-> "never", j |-> 1, i |-> 0,
            ready |-> TimedOut(t)]

NoList == [v |-> NoThread, list |-> <<>>, v_due |-> FALSE, stale |-> FALSE]

WaitInit ==
  /\ program \in Programs
  /\ CounterInit(program.values)
  /\ waiting = [t \in Threads |-> [o \in Objects |-> FALSE]]
  /\ cv_waiters = [v \in Cvs |-> <<>>]
  /\ mu = NoThread
  /\ wn = [t \in Threads |-> Idle(t)]
  /\ to_wake = [t \in Threads |-> NoList]
  /\ waits = [t \in Threads |-> 0]

Obj(t) == Waitables[t][wn[t].j]

NeedsMu(t) == \E o \in Range(Waitables[t]) : o \in Cvs

Set(t, r) == wn' = [wn EXCEPT ![t] = r]

---------------------------------------------------------------------------
(* The condition variable as a waitable; its spinlock makes each critical  *)
(* section one step.                                                       *)

\* cv_ready_time with nw # NULL
cv_is_ready(t, v) == ~waiting[t][v]

cv_enqueue(t, v) ==
  /\ cv_waiters' = [cv_waiters EXCEPT ![v] = Append(@, t)]
  /\ waiting' = [waiting EXCEPT ![t][v] = TRUE]

\* nw is removed from pcv->waiters unless a waker has cleared its flag.  If a waker
\* has taken it off pcv->waiters and not cleared the flag yet, the code removes it
\* from the waker's to_wake_list, which the waker walks without a lock: what comes
\* of that is undefined, and the programs keep away from it.
cv_dequeue(t, v) ==
  /\ cv_waiters' = IF waiting[t][v]
                   THEN [cv_waiters EXCEPT ![v] = SelectSeq(@, LAMBDA x : x # t)]
                   ELSE cv_waiters
  /\ waiting' = [waiting EXCEPT ![t][v] = FALSE]

\* The queue's part that a signal, or a broadcast, moves to to_wake_list: no
\* waiter of nsync_wait_n counts as a reader.
Chosen(q, all) == IF all \/ q = <<>> THEN q ELSE <<Head(q)>>

\* nsync_cv_signal and nsync_cv_broadcast up to the release of the spinlock.
CvWake(t, v, all) ==
  /\ t \in Wakers /\ wn[t].at = "none" /\ waits[t] < MaxWaits
  /\ to_wake[t].list = <<>>
  /\ LET list == Chosen(cv_waiters[v], all)
     IN  /\ to_wake' = [to_wake EXCEPT ![t] = [NoList EXCEPT !.v = v, !.list = list]]
         /\ cv_waiters' = [cv_waiters EXCEPT ![v] =
                             SubSeq(@, Len(list) + 1, Len(@))]
  /\ waits' = [waits EXCEPT ![t] = @ + 1]
  /\ UNCHANGED <<cntVars, waiting, sem, mu, wn>>

\* wake_waiters, for waiters with no nsync_mu: the flag, then the semaphore.
WakeClear(t) ==
  /\ to_wake[t].list # <<>> /\ ~to_wake[t].v_due
  /\ waiting' = [waiting EXCEPT ![Head(to_wake[t].list)][to_wake[t].v] = FALSE]
  /\ to_wake' = [to_wake EXCEPT ![t].v_due = TRUE]
  /\ UNCHANGED <<cntVars, sem, cv_waiters, mu, wn, waits>>

\* nw->sem is read after the flag was cleared.  If the waiter has seen the flag and
\* returned, nw was in a stack frame that is gone: the value read may still be the
\* waiter's semaphore, may be another one, or may be none, which stops the program.
WakeV(t) ==
  /\ to_wake[t].v_due
  /\ \/ SemV(Head(to_wake[t].list)) /\ UNCHANGED failed
     \/ to_wake[t].stale /\ (\E u \in Threads : SemV(u)) /\ UNCHANGED failed
     \/ to_wake[t].stale /\ failed' = "wild read" /\ UNCHANGED sem
  /\ to_wake' = [to_wake EXCEPT ![t].list = Tail(@), ![t].v_due = FALSE,
                                ![t].stale = FALSE]
  /\ UNCHANGED <<value, waited, storing, counter_mu, waiters, add, adds, freed, waiting,
                 cv_waiters, mu, wn, waits>>

---------------------------------------------------------------------------
(* nsync_wait_n                                                            *)

\* The client takes its lock first if it waits for a condition variable.
nsync_wait_n(t, deadline) ==
  /\ Waitables[t] # <<>> /\ wn[t].at = "none" /\ waits[t] < MaxWaits
  /\ IF NeedsMu(t) THEN mu = NoThread /\ mu' = t ELSE UNCHANGED mu
  /\ Range(Waitables[t]) \cap freed = {}
  /\ Set(t, [Idle(t) EXCEPT !.at = "check", !.deadline = deadline])
  /\ waits' = [waits EXCEPT ![t] = @ + 1]
  /\ UNCHANGED <<cntVars, waiting, sem, cv_waiters, to_wake>>

\* The first loop, which asks each object whether it is ready.  On a counter:
CheckMark(t) ==
  /\ wn[t].at = "check" /\ wn[t].j <= Count(t) /\ Obj(t) \in Counters
  /\ counter_mark(t, Obj(t))
  /\ Set(t, [wn[t] EXCEPT !.at = "check_read"])
  /\ UNCHANGED <<value, waited, counter_mu, waiters, waiting, sem, add, adds, freed,
                 failed, cv_waiters, mu, to_wake, waits>>

CheckRead(t) ==
  /\ wn[t].at = "check_read"
  /\ Set(t, IF counter_is_ready(Obj(t))
            THEN [wn[t] EXCEPT !.ready = wn[t].j, !.at = "return"]
            ELSE [wn[t] EXCEPT !.j = @ + 1, !.at = "check"])
  /\ UNCHANGED <<cntVars, waiting, sem, cv_waiters, mu, to_wake, waits>>

\* A condition variable is not ready before the thread is queued on it.
CheckCv(t) ==
  /\ wn[t].at = "check" /\ wn[t].j <= Count(t) /\ Obj(t) \in Cvs
  /\ Set(t, [wn[t] EXCEPT !.j = @ + 1])
  /\ UNCHANGED <<cntVars, waiting, sem, cv_waiters, mu, to_wake, waits>>

\* None is: return at once if the deadline is past.
Checked(t) ==
  /\ wn[t].at = "check" /\ wn[t].j > Count(t)
  /\ Set(t, IF wn[t].deadline = "past" THEN [wn[t] EXCEPT !.at = "return"]
            ELSE [wn[t] EXCEPT !.at = "enqueue", !.j = 1])
  /\ UNCHANGED <<cntVars, waiting, sem, cv_waiters, mu, to_wake, waits>>

\* Where the loop that queues the thread goes after object j; "ok" says that
\* the thread was queued on it.
AfterEnqueue(t, ok) ==
  LET r == [wn[t] EXCEPT !.i = wn[t].j] IN
  IF ok /\ r.j < Count(t) THEN [r EXCEPT !.j = @ + 1]
  ELSE IF r.i = Count(t) THEN [r EXCEPT !.at = IF NeedsMu(t) THEN "unlock" ELSE "poll",
                                        !.j = 1]
  ELSE [r EXCEPT !.at = "dequeue", !.j = 1]

Enqueue(t) ==
  /\ wn[t].at = "enqueue"
  /\ IF Obj(t) \in Counters
     THEN /\ counter_enqueue(t, Obj(t)) /\ UNCHANGED cv_waiters
          /\ Set(t, AfterEnqueue(t, value[Obj(t)] # 0))
     ELSE /\ cv_enqueue(t, Obj(t)) /\ UNCHANGED <<waiters, waited, storing>>
          /\ Set(t, AfterEnqueue(t, TRUE))
  /\ UNCHANGED <<value, counter_mu, sem, add, adds, freed, failed, mu,
                 to_wake, waits>>

UnlockMu(t) ==
  /\ wn[t].at = "unlock"
  /\ mu' = NoThread
  /\ Set(t, [wn[t] EXCEPT !.at = "poll"])
  /\ UNCHANGED <<cntVars, waiting, sem, cv_waiters, to_wake, waits>>

\* The loop over ready_time that computes min_ntime; it is zero once an object
\* is ready.
Poll(t) ==
  /\ wn[t].at = "poll"
  /\ LET o == Obj(t)
         is_ready == IF o \in Counters THEN counter_is_ready(o) ELSE cv_is_ready(t, o)
     IN  Set(t, IF is_ready THEN [wn[t] EXCEPT !.at = "dequeue", !.j = 1]
                ELSE IF wn[t].j < Count(t) THEN [wn[t] EXCEPT !.j = @ + 1]
                ELSE [wn[t] EXCEPT !.at = "p"])
  /\ UNCHANGED <<cntVars, waiting, sem, cv_waiters, mu, to_wake, waits>>

\* nsync_mu_semaphore_p_with_deadline returns 0 ...
SemP(t) ==
  /\ wn[t].at = "p" /\ sem[t] > 0
  /\ sem' = [sem EXCEPT ![t] = @ - 1]
  /\ Set(t, [wn[t] EXCEPT !.at = "poll", !.j = 1])
  /\ UNCHANGED <<cntVars, waiting, cv_waiters, mu, to_wake, waits>>

\* ... or ETIMEDOUT.
Expire(t) ==
  /\ wn[t].at = "p" /\ wn[t].deadline = "timed"
  /\ Set(t, [wn[t] EXCEPT !.at = "dequeue", !.j = 1])
  /\ UNCHANGED <<cntVars, waiting, sem, cv_waiters, mu, to_wake, waits>>


\* The loop that dequeues the objects in 1 .. i and finds the first ready one.
AfterDequeue(t, was_still_enqueued) ==
  LET ready == IF ~was_still_enqueued /\ wn[t].ready = TimedOut(t)
               THEN wn[t].j ELSE wn[t].ready
      unlocked == NeedsMu(t) /\ wn[t].i = Count(t)
      more == wn[t].j < wn[t].i
  IN  [wn[t] EXCEPT !.ready = ready,
                    !.j = IF more THEN @ + 1 ELSE 1,
                    !.at = IF more THEN "dequeue"
                           ELSE IF unlocked THEN "relock" ELSE "return"]

Dequeue(t) ==
  /\ wn[t].at = "dequeue"
  /\ IF Obj(t) \in Counters
     THEN /\ counter_dequeue(t, Obj(t)) /\ UNCHANGED cv_waiters
          /\ Set(t, AfterDequeue(t, counter_still_enqueued(Obj(t))))
     ELSE /\ cv_dequeue(t, Obj(t)) /\ UNCHANGED waiters
          /\ Set(t, AfterDequeue(t, waiting[t][Obj(t)]))
  /\ UNCHANGED <<value, waited, storing, counter_mu, sem, add, adds, freed, failed, mu,
                 to_wake, waits>>

RelockMu(t) ==
  /\ wn[t].at = "relock" /\ mu = NoThread
  /\ mu' = t
  /\ Set(t, [wn[t] EXCEPT !.at = "return"])
  /\ UNCHANGED <<cntVars, waiting, sem, cv_waiters, to_wake, waits>>

\* The result stays in wn[t].ready, and in wn[t].i the number of objects the thread
\* had been queued on; the nw structures go.  nsync_counter_wait then reads the
\* value; the client releases its lock.
Return(t) ==
  /\ wn[t].at = "return"
  /\ Set(t, [wn[t] EXCEPT !.at = "none", !.j = 1, !.deadline = "never"])
  /\ to_wake' = [u \in Threads |->
                   [to_wake[u] EXCEPT !.stale = @ \/ (to_wake[u].v_due
                                                      /\ Head(to_wake[u].list) = t)]]
  /\ mu' = IF mu = t THEN NoThread ELSE mu
  /\ UNCHANGED <<cntVars, waiting, sem, cv_waiters, waits>>

---------------------------------------------------------------------------
\* A client thread makes one call at a time; an object is freed when no call
\* is in progress and none follows.
AllIdle == \A t \in Threads : wn[t].at = "none" /\ add[t].at = "none"

Client(t) ==
  /\ wn[t].at = "none" /\ add[t].at = "none" /\ to_wake[t].list = <<>>
  /\ \/ \E d \in Deadlines[t] : nsync_wait_n(t, d)
     \/ \E c \in Counters, d \in Deltas[t] :
          nsync_counter_add(t, c, d) /\ UNCHANGED wnVars
     \/ \E v \in Cvs, all \in BOOLEAN : CvWake(t, v, all)

Step(t) ==
  \/ AddStep(t) /\ UNCHANGED wnVars
  \/ WakeClear(t) \/ WakeV(t)
  \/ CheckMark(t) \/ CheckRead(t) \/ CheckCv(t) \/ Checked(t) \/ Enqueue(t)
  \/ UnlockMu(t) \/ Poll(t) \/ SemP(t) \/ Expire(t) \/ Dequeue(t) \/ RelockMu(t)
  \/ Return(t)

Free(c) == AllIdle /\ nsync_counter_free(c) /\ UNCHANGED wnVars

\* Nothing more happens after a failed ASSERT or a wild read, or when every thread has made
\* its calls and is at rest or asleep.
Stopped ==
  /\ \/ failed # "none"
     \/ /\ \/ freed # {}
           \/ \A t \in Threads : wn[t].at = "p" \/ waits[t] = MaxWaits \/ adds[t] = MaxAdds
        /\ \A t \in Threads : /\ wn[t].at \in {"none", "p"} /\ add[t].at = "none"
                              /\ to_wake[t].list = <<>>
  /\ UNCHANGED allVars

Next ==
  \/ /\ failed = "none"
     /\ \/ \E t \in Threads : Client(t) \/ Step(t)
        \/ \E c \in Counters : Free(c)
        \/ \E t \in Threads, c \in Counters : MarkSeen(t, c) /\ UNCHANGED wnVars
     /\ UNCHANGED program
  \/ Stopped

Spec == WaitInit /\ [][Next]_allVars

\* Threads that are in a call are scheduled.
FairSpec ==
  Spec /\ \A t \in Threads : WF_allVars(failed = "none" /\ Step(t) /\ UNCHANGED program)

---------------------------------------------------------------------------
(* Properties.                                                             *)

Queue(o) == IF o \in Counters THEN waiters[o] ELSE cv_waiters[o]

\* Thread u has changed a counter in a way that its ASSERTs will refuse.
AboutToFail(u) ==
  add[u].at = "check" /\ ~MayBe(value[add[u].c], add[u].delta, waited[add[u].c])

\* Type correctness; a thread's flag for a counter says whether it is queued
\* there, and counter_mu is held exactly during an add.
WaitTypeOK ==
  /\ value \in [Counters -> 0 .. 2^Width - 1] /\ waited \in [Counters -> BOOLEAN]
  /\ sem \in [Threads -> 0 .. SemMax] /\ mu \in Threads \union {NoThread}
  /\ \A c \in Counters :
       /\ \A t \in Threads : waiting[t][c] <=> t \in Range(waiters[c])
       /\ counter_mu[c] # NoThread => add[counter_mu[c]].at # "none"
  /\ \A t \in Threads : wn[t].ready \in 1 .. TimedOut(t)

\* nsync_wait_n leaves nothing behind: once it has dequeued its nw structures, which
\* are on its stack, no object's queue holds one, whichever way the loops over the
\* objects ended, and no nsync_counter_add is about to read nw->sem of one:
\* counter_dequeue waits for counter_mu even when the flag is already clear.
\* (wake_waiters of a condition variable may be about to: see WakeV.)
NoDanglingWaiter ==
  \A t \in Threads :
    wn[t].at \in {"none", "relock", "return"} =>
      /\ \A o \in Objects : t \notin Range(Queue(o))
      /\ \A u \in Threads : add[u].at = "v" => add[u].nw # t

\* What nsync_waiter.h says of dequeue: "If nw has been previously dequeued,
\* return zero; otherwise dequeue *nw from *v and return non-zero."  With a
\* zero result nsync_wait_n reports the object as ready.  (So it is in programs in
\* which nothing else ends a wait on a condition variable while a waker is between
\* taking the thread off the queue and clearing its flag: see cv_dequeue.)
DequeueTellsTruth ==
  \A t \in Threads :
    wn[t].at = "dequeue" /\ wn'[t] # wn[t] /\ wn[t].ready = TimedOut(t) =>
      (wn'[t].ready = TimedOut(t)) = (t \in Range(Queue(Obj(t))))

\* A wait that queued on its objects and found counter c at zero found its final
\* value: an increment of c by a thread that had not seen the waiter ends in the
\* ASSERT of nsync_counter_add.  nsync_counter.h: "It is a checkable runtime error to
\* increment c after a waiter may have been woken due to the counter reaching zero."
\* (A wait that finds zero in its first loop has not held counter_mu, so its store of
\* "waited" may be seen too late for the ASSERT: nothing is claimed of it.)
ZeroIsFinal ==
  \A t \in Threads :
    LET r == wn[t].ready IN
    r < TimedOut(t) /\ Waitables[t][r] \in Counters /\ wn[t].i > 0 =>
      LET c == Waitables[t][r] IN
      value[c] = 0 \/ failed # "none" \/ (\E u \in Threads : AboutToFail(u))

\* The counter never passes zero or its largest value unnoticed: the value seen
\* outside an add is the sum of what was added, as a natural number of Width
\* bits; only a step of at most Width bits that wraps fails an ASSERT.
NoUnnoticedWrap ==
  \A c \in Counters :
    counter_mu[c] # NoThread /\ counter_mu'[c] = NoThread =>
      LET a == add[counter_mu[c]] IN value[c] - a.delta \in 0 .. 2^Width - 1

\* A thread that sleeps in nsync_wait_n while one of its objects is ready has a
\* post waiting, or a waker about to post: the semaphore that its objects share
\* loses no wakeup.  (An add to a counter at zero that raced with the wait may hide
\* that the counter was ready, but is then about to fail its ASSERT.)
ReadySleeperHasPost ==
  \A t \in Threads :
    /\ wn[t].at = "p"
    /\ \E o \in Range(Waitables[t]) : ~waiting[t][o]
    => \/ sem[t] > 0 \/ failed # "none"
       \/ \E u \in Threads : to_wake[u].v_due /\ ~to_wake[u].stale /\ Head(to_wake[u].list) = t
       \/ \E u \in Threads : add[u].at = "v" /\ add[u].nw = t
       \/ \E u \in Threads : AboutToFail(u)

\* A wait for a counter that reaches zero ends, and so does one for a
\* condition variable from whose queue the thread was taken.
ReadyWaitReturns ==
  \A t \in Threads :
    /\ wn[t].at = "p" /\ failed = "none"
    /\ \E o \in Range(Waitables[t]) :
         IF o \in Counters THEN value[o] = 0 ELSE t \notin Range(Queue(o))
    ~> wn[t].at = "none" \/ failed # "none"

\* A wait with a deadline ends.
DeadlineWaitReturns ==
  \A t \in Threads :
    wn[t].at # "none" /\ wn[t].deadline # "never" /\ failed = "none"
      ~> wn[t].at = "none" \/ failed # "none"


\* A counter at zero stays there for those who queued for it, and never wraps
\* unnoticed, whatever calls of nsync_counter_add and nsync_wait_n overlap.
CountersAreExact == [][ZeroIsFinal' /\ NoUnnoticedWrap]_allVars

===========================================================================
