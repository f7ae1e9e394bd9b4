----------------------------- MODULE SemFutex -----------------------------
(***************************************************************************)
(* The futex semaphore of platform/linux/src/nsync_semaphore_futex.c.      *)
(* FUTEX_WAIT sleeps only if the futex still has the value that the caller *)
(* loaded, and FUTEX_WAKE wakes one sleeper if there is one; the two are   *)
(* the kernel's.                                                           *)
(***************************************************************************)
EXTENDS Integers, FiniteSets

CONSTANTS
  Threads,  \* the threads that call P
  Posters,  \* the threads that call V
  MaxPosts  \* bound: calls of V of each poster

ASSUME SemAssumption ==
  /\ IsFiniteSet(Threads) /\ IsFiniteSet(Posters)
  /\ Threads \cap Posters = {}
  /\ MaxPosts \in Nat

VARIABLES
  i,     \* f->i
  pc,    \* where each thread is
  seen,  \* the value of i that each thread loaded
  call,  \* how each thread called P last, and how that call ended
  posts  \* calls of V made by each poster

vars == <<i, pc, seen, call, posts>>

Init ==
  /\ i = 0
  /\ pc = [t \in Threads \cup Posters |-> "idle"]
  /\ seen = [t \in Threads |-> 0]
  /\ call = [t \in Threads |-> "acquired"]
  /\ posts = [u \in Posters |-> 0]

Goto(t, l) == pc' = [pc EXCEPT ![t] = l]

\* nsync_mu_semaphore_p or nsync_mu_semaphore_p_with_deadline is called.
P(t, how) ==
  /\ pc[t] = "idle"
  /\ Goto(t, "load")
  /\ call' = [call EXCEPT ![t] = how]
  /\ UNCHANGED <<i, seen, posts>>

\* What P does with the value it loaded.
AfterLoad(v) == IF v = 0 THEN "futex" ELSE "cas"

Load(t) ==
  /\ pc[t] = "load"
  /\ seen' = [seen EXCEPT ![t] = i]
  /\ Goto(t, AfterLoad(i))
  /\ UNCHANGED <<i, call, posts>>

\* Mutant: the futex is not compared with the loaded value.
AlwaysSleep(t) == "sleep"

\* FUTEX_WAIT sleeps if the futex has the value that t loaded; if not, it fails
\* with EWOULDBLOCK and P starts again.
FutexOutcome(t) == IF i = seen[t] THEN "sleep" ELSE "load"

FutexWait(t) ==
  /\ pc[t] = "futex"
  /\ Goto(t, FutexOutcome(t))
  /\ UNCHANGED <<i, seen, call, posts>>

\* FUTEX_WAIT returns early, for EINTR, or with ETIMEDOUT before the deadline.
Interrupted(t) ==
  /\ pc[t] = "sleep"
  /\ Goto(t, "load")
  /\ UNCHANGED <<i, seen, call, posts>>

\* FUTEX_WAIT returns ETIMEDOUT and the deadline has passed.
TimedOut(t) ==
  /\ pc[t] = "sleep" /\ call[t] = "p_with_deadline"
  /\ Goto(t, "idle")
  /\ call' = [call EXCEPT ![t] = "expired"]
  /\ UNCHANGED <<i, seen, posts>>

\* Mutant: a plain store instead of a CAS.
StoreInsteadOfCas(t) == TRUE

\* Whether the CAS of P succeeds.
CasSucceeds(t) == i = seen[t]

Cas(t) ==
  /\ pc[t] = "cas"
  /\ IF CasSucceeds(t)
     THEN /\ i' = seen[t] - 1
          /\ Goto(t, "idle")
          /\ call' = [call EXCEPT ![t] = "acquired"]
     ELSE /\ Goto(t, "load")
          /\ UNCHANGED <<i, call>>
  /\ UNCHANGED <<seen, posts>>

\* nsync_mu_semaphore_v: the loop that adds one.
V(u) ==
  /\ pc[u] = "idle" /\ posts[u] < MaxPosts
  /\ i' = i + 1
  /\ Goto(u, "wake")
  /\ posts' = [posts EXCEPT ![u] = @ + 1]
  /\ UNCHANGED <<seen, call>>

Sleepers == {t \in Threads : pc[t] = "sleep"}

\* FUTEX_WAKE of one thread.
FutexWake(u) ==
  IF Sleepers = {}
  THEN Goto(u, "idle")
  ELSE \E t \in Sleepers : pc' = [pc EXCEPT ![t] = "load", ![u] = "idle"]

Wake(u) ==
  /\ pc[u] = "wake"
  /\ FutexWake(u)
  /\ UNCHANGED <<i, seen, call, posts>>

Step(t) == Load(t) \/ FutexWait(t) \/ TimedOut(t) \/ Cas(t)

Next ==
  \/ \E t \in Threads : \/ \E how \in {"p", "p_with_deadline"} : P(t, how)
                        \/ Step(t) \/ Interrupted(t)
  \/ \E u \in Posters : V(u) \/ Wake(u)

Spec == Init /\ [][Next]_vars

\* Threads are scheduled, and deadlines pass.
FairSpec ==
  /\ Spec
  /\ \A t \in Threads : WF_vars(Step(t))
  /\ \A u \in Posters : WF_vars(Wake(u))

---------------------------------------------------------------------------

Calling(t) == call[t] \in {"p", "p_with_deadline"}

\* The types, and what a thread may conclude from the value that it loaded.
TypeOK ==
  /\ i \in Nat
  /\ pc \in [Threads \cup Posters -> {"idle", "load", "futex", "sleep", "cas", "wake"}]
  /\ seen \in [Threads -> Nat]
  /\ call \in [Threads -> {"p", "p_with_deadline", "acquired", "expired"}]
  /\ posts \in [Posters -> Nat]
  /\ \A t \in Threads :
       /\ pc[t] # "wake"
       /\ pc[t] = "idle" <=> ~Calling(t)
       /\ pc[t] = "cas" => seen[t] > 0
       /\ pc[t] = "futex" => seen[t] = 0

\* The callers of P that are not asleep, and the callers of V that have added
\* their count and have not called FUTEX_WAKE yet.
Awake == {t \in Threads : pc[t] \in {"load", "futex", "cas"}}
Waking == {u \in Posters : pc[u] = "wake"}

\* A post is never missed: while a thread sleeps in FUTEX_WAIT, every count has a
\* caller of P on its way to take it or a caller of V on its way to wake one,
\* whatever timeouts, interruptions and failed comparisons happened.
NoMissedPost ==
  Sleepers # {} => i <= Cardinality(Awake) + Cardinality(Waking)

Abstract == INSTANCE Semaphore WITH count <- i

\* The futex semaphore is a semaphore as internal/sem.h describes it.
ImplementsSemaphore == Abstract!Spec

\* P returns: a caller does not stay in the loop while there is a count.
PostedCallReturns ==
  \A t \in Threads : Calling(t) /\ i > 0 ~> ~Calling(t) \/ i = 0
===========================================================================
