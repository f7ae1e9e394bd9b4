------------------------------ MODULE MCData ------------------------------
(* Small instances, for TLC, of the data structures that the callers' locks*)
(* make sequential: pointer lists, the waiter queue with its rings, and    *)
(* times.  A behaviour is about one of them.                               *)
EXTENDS Dll, WaiterQueue, TimeCalc, TLC

VARIABLE part

dataVars == <<part, listVars, queueVars, calcVars>>

Init ==
  /\ part \in {"lists", "queue", "times"}
  /\ ListInit /\ QueueInit
  /\ CalcInit /\ (part # "times" => exact = 0)

Next ==
  /\ UNCHANGED part
  /\ \/ part = "lists" /\ ListNext /\ UNCHANGED <<queueVars, calcVars>>
     \/ part = "queue" /\ QueueNext /\ UNCHANGED <<listVars, calcVars>>
     \/ part = "times" /\ CalcNext /\ UNCHANGED <<listVars, queueVars>>

Spec == Init /\ [][Next]_dataVars

Symmetry == Permutations(Threads) \cup Permutations(Conds)
===========================================================================
