------------------------------ MODULE MuQueue ------------------------------
(***************************************************************************)
(* The waiter queue of an nsync_mu: the operations of internal/mu.c and    *)
(* internal/mu_wait.c on a queue and on the same_condition rings of its    *)
(* waiters.                                                                *)
(*                                                                         *)
(* A queue is a sequence of waiters.  In the code it is a circular list    *)
(* known by its last element.  A ring links waiters that are adjacent in a *)
(* queue and have equal conditions, in queue order; it is represented by   *)
(* the function from each waiter to its same_condition.next, and "cond" is *)
(* the function from each waiter to its w->cond.                           *)
(***************************************************************************)
EXTENDS Integers, Sequences, Functions

CONSTANTS Threads, NoCond

\* The last element of a queue, which is the list the code keeps, and a queue
\* without its i-th element.
LastOf(q) == q[Len(q)]
Without(q, i) == SubSeq(q, 1, i - 1) \o SubSeq(q, i + 1, Len(q))

\* same_condition.prev
SamePrev(ring, e) == CHOOSE x \in Threads : ring[x] = e

\* WAIT_CONDITION_EQ
ConditionEq(c, d) == c # NoCond /\ c = d

\* nsync_maybe_merge_conditions_: splice the ring of n after p.
MergeConditions(ring, cond, p, n) ==
  IF ConditionEq(cond[p], cond[n])
  THEN [ring EXCEPT ![p] = n, ![SamePrev(ring, n)] = ring[p]]
  ELSE ring

\* The same for the last element of q1 and the first of q2, if both exist.
MergeQueues(ring, cond, q1, q2) ==
  IF q1 = <<>> \/ q2 = <<>>
  THEN ring
  ELSE MergeConditions(ring, cond, LastOf(q1), Head(q2))

\* first wait goes to end of queue, subsequent waits go to front of queue
Enqueue(q, t, first) == IF first THEN Append(q, t) ELSE <<t>> \o q

\* The rings when nsync_mu_wait_with_deadline queues t.
RingAfterEnqueue(ring, cond, q, t, first) ==
  IF first THEN MergeQueues(ring, cond, q, <<t>>)
           ELSE MergeQueues(ring, cond, <<t>>, q)

\* The position of e in q, or 0.
IndexOf(q, e) ==
  IF \E j \in DOMAIN q : q[j] = e THEN CHOOSE j \in DOMAIN q : q[j] = e ELSE 0

\* The positions of q[i]->prev and q[i]->next in the circular list.
CircularPrev(q, i) == IF i = 1 THEN Len(q) ELSE i - 1
CircularNext(q, i) == IF i = Len(q) THEN 1 ELSE i + 1

\* Mutant: removing a waiter leaves it in its ring.
RingNotUnlinked(ring, cond, q, i) == ring

\* The rings after nsync_remove_from_mu_queue_ (q, q[i]).
RingAfterRemove(ring, cond, q, i) ==
  LET e == q[i]
      prev == q[CircularPrev(q, i)]
      next == q[CircularNext(q, i)]
      rest == Without(q, i)
  IN  IF rest = <<>> THEN ring
      ELSE IF ring[e] # e
      THEN [ring EXCEPT ![SamePrev(ring, e)] = ring[e], ![e] = e]
      ELSE IF prev # LastOf(rest) THEN MergeConditions(ring, cond, prev, next)
      ELSE ring

\* Mutant: a waiter at the end of its ring is not noticed.
SkipWithoutPrevTest(ring, q, i) ==
  LET last == SamePrev(ring, q[i])
  IN  IF last # q[i] THEN IndexOf(q, last) + 1 ELSE i + 1

\* The position in q that skip_past_same_condition (q, q[i]) moves to.
SkipPastSameCondition(ring, q, i) ==
  LET last == SamePrev(ring, q[i])
  IN  IF last # q[i] /\ last # q[CircularPrev(q, i)]
      THEN IndexOf(q, last) + 1
      ELSE i + 1

\* The members of each ring are neighbours in the queue q, in queue order.
RingsFollowQueue(ring, cond, q) ==
  \A j \in DOMAIN q :
    ring[q[j]] # q[j] =>
      /\ ConditionEq(cond[ring[q[j]]], cond[q[j]])
      /\ \/ j < Len(q) /\ ring[q[j]] = q[j + 1]
         \/ \E k \in 1..(j - 1) :
              /\ ring[q[j]] = q[k]
              /\ \A m \in k..(j - 1) : ring[q[m]] = q[m + 1]

\* The waiters at the positions k to l of q are one ring, in queue order, and
\* have the same condition.
RingBlock(ring, cond, q, k, l) ==
  /\ ring[q[l]] = q[k]
  /\ \A m \in k..(l - 1) : ring[q[m]] = q[m + 1]
  /\ \A m \in k..l : cond[q[m]] = cond[q[k]]
  /\ k < l => cond[q[k]] # NoCond

\* Every waiter of q is in such a block.
RingsAreBlocks(ring, cond, q) ==
  \A j \in 1..Len(q) :
    \E k \in 1..j, l \in j..Len(q) : RingBlock(ring, cond, q, k, l)
===========================================================================
