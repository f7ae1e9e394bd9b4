---------------------------- MODULE WaiterQueue ----------------------------
(***************************************************************************)
(* The life of the waiter queue of one nsync_mu.  The spinlock and the     *)
(* mutex make the operations on the queue exclusive, so each is one step   *)
(* here, and many more waiters fit than in the interleavings of Mu.        *)
(*                                                                         *)
(* Which waiters an unlock wakes depends on conditions and modes; here it  *)
(* wakes any of them, and a deadline may expire for any conditional one.   *)
(***************************************************************************)
EXTENDS MuQueue

CONSTANTS Conds

VARIABLES
  q,      \* mu->waiters
  new,    \* new_waiters of the thread in nsync_mu_unlock_slow_
  seen,   \* its list of waiters already considered
  phase,  \* whether some thread is in nsync_mu_unlock_slow_
  ring,   \* same_condition.next
  cond    \* w->cond

queueVars == <<q, new, seen, phase, ring, cond>>

QueueInit ==
  /\ q = <<>> /\ new = <<>> /\ seen = <<>> /\ phase = "open"
  /\ ring = [t \in Threads |-> t]
  /\ cond = [t \in Threads |-> NoCond]

IsQueued(t) == t \in Range(q) \cup Range(new) \cup Range(seen)

\* nsync_mu_lock_slow_ queues t, which has no condition.
QueueLocker(t, first) ==
  /\ ~IsQueued(t)
  /\ q' = Enqueue(q, t, first)
  /\ cond' = [cond EXCEPT ![t] = NoCond]
  /\ UNCHANGED <<new, seen, phase, ring>>

\* nsync_mu_wait_with_deadline queues t, which waits for c.
QueueConditional(t, c, first) ==
  /\ ~IsQueued(t)
  /\ cond' = [cond EXCEPT ![t] = c]
  /\ ring' = RingAfterEnqueue(ring, cond', q, t, first)
  /\ q' = Enqueue(q, t, first)
  /\ UNCHANGED <<new, seen, phase>>

\* mu_try_acquire_after_timeout_or_cancel removes a waiter; it holds the mutex,
\* so no thread is in nsync_mu_unlock_slow_.
Expire(i) ==
  /\ phase = "open" /\ i \in DOMAIN q /\ cond[q[i]] # NoCond
  /\ ring' = RingAfterRemove(ring, cond, q, i)
  /\ q' = Without(q, i)
  /\ UNCHANGED <<new, seen, phase, cond>>

\* nsync_mu_unlock_slow_ takes the queue.
TakeQueue ==
  /\ phase = "open" /\ q # <<>>
  /\ new' = q /\ q' = <<>> /\ phase' = "scanning"
  /\ UNCHANGED <<seen, ring, cond>>

\* It removes one of the new waiters, to wake it.
RemoveToWake(i) ==
  /\ i \in DOMAIN new
  /\ ring' = RingAfterRemove(ring, cond, new, i)
  /\ new' = Without(new, i)
  /\ UNCHANGED <<q, seen, phase, cond>>

\* It adds the rest to the waiters already seen, takes those that arrived, and
\* gives the queue back if there are none.
CollectNew ==
  /\ phase = "scanning"
  /\ ring' = MergeQueues(ring, cond, seen, new)
  /\ IF q = <<>>
     THEN q' = seen \o new /\ new' = <<>> /\ seen' = <<>> /\ phase' = "open"
     ELSE q' = <<>> /\ new' = q /\ seen' = seen \o new /\ phase' = phase
  /\ UNCHANGED cond

QueueNext ==
  \/ \E t \in Threads, first \in BOOLEAN :
       \/ QueueLocker(t, first)
       \/ \E c \in Conds : QueueConditional(t, c, first)
  \/ \E i \in 1..Len(q) : Expire(i)
  \/ TakeQueue
  \/ \E i \in 1..Len(new) : RemoveToWake(i)
  \/ CollectNew

QueueSpec == QueueInit /\ [][QueueNext]_queueVars

---------------------------------------------------------------------------

Queues == {q, new, seen}

\* Every ring consists of neighbours in one queue, in queue order, with equal
\* conditions, through queueing at both ends, removals anywhere and joining
\* lists; a waiter in no queue is alone in its ring.
RingsAreContiguous ==
  /\ \A s \in Queues : RingsFollowQueue(ring, cond, s)
  /\ \A t \in Threads : ~IsQueued(t) => ring[t] = t

\* Neighbours with equal conditions are always linked, as the design notes in
\* common.c promise, so that an unlock evaluates each run of them once.
RingsAreMaximal ==
  \A s \in Queues : \A j \in 1..(Len(s) - 1) :
    ConditionEq(cond[s[j]], cond[s[j + 1]]) => ring[s[j]] = s[j + 1]

\* skip_past_same_condition, applied to any waiter whose condition was found
\* false, moves forward, stays within the list, and passes over waiters with
\* that same condition only.
SkipPassesOnlyEqualConditions ==
  \A s \in Queues : \A i \in DOMAIN s :
    cond[s[i]] # NoCond =>
      LET next == SkipPastSameCondition(ring, s, i)
      IN  /\ next \in (i + 1)..(Len(s) + 1)
          /\ \A j \in i..(next - 1) : cond[s[j]] = cond[s[i]]

\* Rings are exactly the runs of neighbours with equal conditions, whatever the
\* history of the queue, so that skipping past a ring skips no other condition.
RingsAreRuns == RingsAreContiguous /\ RingsAreMaximal /\ SkipPassesOnlyEqualConditions
===========================================================================
