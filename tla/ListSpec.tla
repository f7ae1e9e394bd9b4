------------------------------ MODULE ListSpec ------------------------------
(* What internal/dll.h promises: lists of distinct elements.               *)
EXTENDS SequencesExt

CONSTANTS Elements, Lists

VARIABLE lists    \* the elements of every list, in order

Init == lists = [l \in Lists |-> <<>>]

InNoList(e) == \A l \in Lists : e \notin ToSet(lists[l])

MakeFirst(l, e) == InNoList(e) /\ lists' = [lists EXCEPT ![l] = <<e>> \o @]

MakeLast(l, e) == InNoList(e) /\ lists' = [lists EXCEPT ![l] = Append(@, e)]

Delete(l, e) ==
  /\ e \in ToSet(lists[l])
  /\ lists' = [lists EXCEPT ![l] = SelectSeq(@, LAMBDA x : x # e)]

\* The elements of m come before, or after, those of l.
JoinFirst(l, m) == lists' = [lists EXCEPT ![l] = lists[m] \o @, ![m] = <<>>]

JoinLast(l, m) == lists' = [lists EXCEPT ![l] = @ \o lists[m], ![m] = <<>>]

Next ==
  \/ \E l \in Lists, e \in Elements : MakeFirst(l, e) \/ MakeLast(l, e) \/ Delete(l, e)
  \/ \E l, m \in Lists : l # m /\ (JoinFirst(l, m) \/ JoinLast(l, m))

Spec == Init /\ [][Next]_lists
=============================================================================
