------------------------------ MODULE MCWaitN ------------------------------
(* Small instances of WaitN for TLC. *)
EXTENDS WaitN, TLC

CONSTANTS t1, t2, t3, c1, c2, v1

\* A thread waits for two counters, with deadlines, another for one of them; a
\* third adds.  The 2-bit counters reach zero, leave it and wrap.
CounterProgram ==
  [waitables |-> t1 :> <<c1, c2>> @@ t2 :> <<c1>> @@ t3 :> <<>>,
   deadlines |-> t1 :> {"past", "timed"} @@ t2 :> {"never"} @@ t3 :> {},
   deltas |-> t1 :> {} @@ t2 :> {1} @@ t3 :> {-1, 1, 2},
   wakers |-> {}, max_waits |-> 1, values |-> {1}]

\* Two threads wait for a condition variable, a third wakes them.
CvProgram ==
  [waitables |-> [t \in {t1, t2} |-> <<v1>>] @@ t3 :> <<>>,
   deadlines |-> [t \in {t1, t2} |-> {"never"}] @@ t3 :> {},
   deltas |-> [t \in Threads |-> {}],
   wakers |-> {t3}, max_waits |-> 2, values |-> {1}]

\* One waits for a counter and a condition variable, another for the latter.
MixedProgram ==
  [waitables |-> t1 :> <<c1, v1>> @@ t2 :> <<v1>> @@ t3 :> <<>>,
   deadlines |-> [t \in {t1, t2} |-> {"never"}] @@ t3 :> {},
   deltas |-> t1 :> {} @@ t2 :> {} @@ t3 :> {-1},
   wakers |-> {t3}, max_waits |-> 1, values |-> {1}]

WaitPrograms == {CounterProgram, CvProgram, MixedProgram}
============================================================================
