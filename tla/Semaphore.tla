----------------------------- MODULE Semaphore -----------------------------
(***************************************************************************)
(* What internal/sem.h promises of a semaphore, counting or binary: P      *)
(* consumes a count, P with a deadline may give up instead, and V makes    *)
(* sure that there is a count, adding one or leaving a positive one alone. *)
(***************************************************************************)
EXTENDS Naturals

CONSTANT Threads

VARIABLES
  count,  \* the count of the semaphore
  call    \* call[t]: how far the last call of P by thread t has come

InP == {"p", "p_with_deadline"}

Init ==
  /\ count = 0
  /\ call = [t \in Threads |-> "acquired"]

\* A call of P, possible when the thread's previous one has returned.
Ask(t, how) ==
  /\ call[t] \notin InP /\ how \in InP
  /\ call' = [call EXCEPT ![t] = how]
  /\ UNCHANGED count

Acquire(t) ==
  /\ call[t] \in InP /\ count > 0
  /\ count' = count - 1
  /\ call' = [call EXCEPT ![t] = "acquired"]

Expire(t) ==
  /\ call[t] = "p_with_deadline"
  /\ call' = [call EXCEPT ![t] = "expired"]
  /\ UNCHANGED count

Post ==
  /\ count' \in {n \in {count, count + 1} : n > 0}
  /\ UNCHANGED call

Next ==
  \/ \E t \in Threads : \/ \E how \in InP : Ask(t, how)
                        \/ Acquire(t) \/ Expire(t)
  \/ Post

Spec == Init /\ [][Next]_<<count, call>>
============================================================================
