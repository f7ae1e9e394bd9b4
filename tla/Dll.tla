-------------------------------- MODULE Dll --------------------------------
(***************************************************************************)
(* The doubly-linked lists of internal/dll.c, as pointers.  The elements of*)
(* a list form a circle; the list is a pointer to its last element.  An    *)
(* operation that makes an element first or last brings along the elements *)
(* of its circle: nsync_mu_unlock_slow_ joins whole lists that way.        *)
(*                                                                         *)
(* The operations are functions of the pointers, since their callers hold  *)
(* the spinlock or mutex that protects the list.                           *)
(***************************************************************************)
EXTENDS Integers, FiniteSets, Sequences

CONSTANTS Elements, Lists, NULL

VARIABLES
  heap,    \* the next and prev pointers of all elements
  head     \* the lists

listVars == <<heap, head>>

\* nsync_dll_init_ of every element.
ListInit ==
  /\ heap = [e \in Elements |-> [next |-> e, prev |-> e]]
  /\ head = [l \in Lists |-> NULL]

----------------------------------------------------------------------------

nsync_dll_is_empty_(list) == list = NULL

\* The list after the removal: its last element may be e, or all there is.
Removed(h, list, e) ==
  CASE list # e -> list
    [] list = e /\ h[list].prev = list -> NULL
    [] OTHER -> h[list].prev

\* The four stores, in order.
nsync_dll_remove_(h, list, e) ==
  LET a == [h EXCEPT ![h[e].next].prev = h[e].prev]
      b == [a EXCEPT ![a[e].prev].next = a[e].next]
  IN  [heap |-> [b EXCEPT ![e] = [next |-> e, prev |-> e]], list |-> Removed(h, list, e)]

nsync_dll_splice_after_(h, p, n) ==
  LET p_2nd == h[p].next
      n_last == h[n].prev
      a == [h EXCEPT ![p].next = n, ![n].prev = p]
      b == [a EXCEPT ![n_last].next = p_2nd]
  IN  [b EXCEPT ![p_2nd].prev = n_last]

nsync_dll_make_first_in_list_(h, list, e) ==
  CASE e = NULL -> [heap |-> h, list |-> list]
    [] e # NULL /\ list = NULL -> [heap |-> h, list |-> h[e].prev]
    [] OTHER -> [heap |-> nsync_dll_splice_after_(h, list, e), list |-> list]

\* Mutant: the elements of e's circle follow e instead of preceding it.
MakeLastBackwards(h, list, e) ==
  IF e = NULL THEN [heap |-> h, list |-> list]
  ELSE [heap |-> nsync_dll_make_first_in_list_(h, list, e).heap, list |-> e]

nsync_dll_make_last_in_list_(h, list, e) ==
  IF e = NULL THEN [heap |-> h, list |-> list]
  ELSE [heap |-> nsync_dll_make_first_in_list_(h, list, h[e].next).heap, list |-> e]

nsync_dll_first_(h, list) == IF list # NULL THEN h[list].next ELSE NULL

nsync_dll_last_(list) == list

nsync_dll_next_(h, list, e) == IF e # list THEN h[e].next ELSE NULL

nsync_dll_prev_(h, list, e) == IF e # h[list].next THEN h[e].prev ELSE NULL

----------------------------------------------------------------------------
(* The iteration that all users of the lists write,                        *)
(* for (p = first (list); p != NULL; p = next (list, p)), and its mirror   *)
(* image.  Both stop after as many steps as there are elements.            *)

Bound == Cardinality(Elements)

Walk(list) ==
  LET at[n \in 0..Bound] ==
        IF n = 0 THEN nsync_dll_first_(heap, list)
        ELSE IF at[n - 1] = NULL THEN NULL ELSE nsync_dll_next_(heap, list, at[n - 1])
  IN  [i \in 1..Cardinality({n \in 0..Bound : at[n] # NULL}) |-> at[i - 1]]

WalkBack(list) ==
  LET at[n \in 0..Bound] ==
        IF n = 0 THEN nsync_dll_last_(list)
        ELSE IF at[n - 1] = NULL THEN NULL ELSE nsync_dll_prev_(heap, list, at[n - 1])
  IN  [i \in 1..Cardinality({n \in 0..Bound : at[n] # NULL}) |-> at[i - 1]]

IsIn(l, e) == \E i \in DOMAIN Walk(head[l]) : Walk(head[l])[i] = e

----------------------------------------------------------------------------
(* The uses that the program makes of the lists.                           *)

Store(l, r) == heap' = r.heap /\ head' = [head EXCEPT ![l] = r.list]

InsertFirst(l, e) ==
  /\ \A m \in Lists : ~IsIn(m, e)
  /\ Store(l, nsync_dll_make_first_in_list_(heap, head[l], e))

InsertLast(l, e) ==
  /\ \A m \in Lists : ~IsIn(m, e)
  /\ Store(l, nsync_dll_make_last_in_list_(heap, head[l], e))

Remove(l, e) == IsIn(l, e) /\ Store(l, nsync_dll_remove_(heap, head[l], e))

\* A whole list is put before or after another, and taken from its own head.
JoinFirst(l, m) ==
  LET r == nsync_dll_make_first_in_list_(heap, head[l], nsync_dll_first_(heap, head[m]))
  IN  heap' = r.heap /\ head' = [head EXCEPT ![l] = r.list, ![m] = NULL]

JoinLast(l, m) ==
  LET r == nsync_dll_make_last_in_list_(heap, head[l], nsync_dll_last_(head[m]))
  IN  heap' = r.heap /\ head' = [head EXCEPT ![l] = r.list, ![m] = NULL]

ListNext ==
  \/ \E l \in Lists, e \in Elements : InsertFirst(l, e) \/ InsertLast(l, e) \/ Remove(l, e)
  \/ \E l, m \in Lists : l # m /\ (JoinFirst(l, m) \/ JoinLast(l, m))

ListsSpec == ListInit /\ [][ListNext]_listVars

----------------------------------------------------------------------------
(* Properties                                                              *)

\* Walking a list from its end with nsync_dll_last_ and nsync_dll_prev_ finds the
\* elements of the walk from its start, in the opposite order, and a list is
\* empty exactly if both find nothing.
WalksMirrorEachOther ==
  \A l \in Lists :
    LET s == Walk(head[l])
        n == Len(s)
    IN  /\ WalkBack(head[l]) = [i \in 1..n |-> s[n + 1 - i]]
        /\ nsync_dll_is_empty_(head[l]) <=> n = 0

\* next and prev are inverse everywhere: elements in no list are alone in their
\* circle, so that inserting one does not drag others along.
CirclesAreClosed ==
  \A e \in Elements :
    /\ heap[heap[e].next].prev = e /\ heap[heap[e].prev].next = e
    /\ (\A l \in Lists : ~IsIn(l, e)) => heap[e].next = e

AsLists == INSTANCE ListSpec WITH lists <- [l \in Lists |-> Walk(head[l])]

\* The pointers implement lists of distinct elements: every operation, however
\* they are mixed, has the effect on the walks that dll.h describes, and keeps
\* the circles closed in both directions.
ImplementsLists ==
  AsLists!Spec /\ [][(CirclesAreClosed /\ WalksMirrorEachOther)']_listVars
=============================================================================
