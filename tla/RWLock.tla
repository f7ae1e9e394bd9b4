------------------------------- MODULE RWLock -------------------------------
(***************************************************************************)
(* What a reader/writer lock promises, whatever its implementation: the    *)
(* mode in which each thread holds it changes one thread at a time, and    *)
(* only in these ways.                                                     *)
(***************************************************************************)
CONSTANT Threads

VARIABLE mode  \* mode[t]: how thread t holds the lock

Modes == {"none", "reader", "writer"}

Init == mode = [t \in Threads |-> "none"]

NoOtherHolds(t) == \A u \in Threads \ {t} : mode[u] = "none"

NoOtherWrites(t) == \A u \in Threads \ {t} : mode[u] # "writer"

\* Acquire in write mode; a reader may convert if it is the only one.
BecomeWriter(t) ==
  /\ mode[t] # "writer" /\ NoOtherHolds(t)
  /\ mode' = [mode EXCEPT ![t] = "writer"]

\* Acquire in read mode, or convert from write mode.
BecomeReader(t) ==
  /\ mode[t] # "reader" /\ NoOtherWrites(t)
  /\ mode' = [mode EXCEPT ![t] = "reader"]

Release(t) ==
  /\ mode[t] # "none"
  /\ mode' = [mode EXCEPT ![t] = "none"]

Next == \E t \in Threads : BecomeWriter(t) \/ BecomeReader(t) \/ Release(t)

Spec == Init /\ [][Next]_mode
=============================================================================
