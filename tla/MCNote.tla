------------------------------- MODULE MCNote -------------------------------
(* Small instances of Note for TLC. *)
EXTENDS Note, TLC

CONSTANTS t1, t2, t3, n1, n2, n3, n4

\* A chain n1 - n2 - n3, and a note that may be added to it.
Chain == n1 :> NoNote @@ n2 :> n1 @@ n3 :> n2 @@ n4 :> NoNote

\* A root with two leaves.
Fork == n1 :> NoNote @@ n2 :> n1 @@ n3 :> n1 @@ n4 :> NoNote

\* n3 expires at time 1; n4 is not made yet.
LeafExpires == n1 :> 2 @@ n2 :> 2 @@ n3 :> 1 @@ n4 :> 0

NoneExpires == n1 :> 2 @@ n2 :> 2 @@ n3 :> 2 @@ n4 :> 0

RootExpires == n1 :> 1 @@ n2 :> 1 @@ n3 :> 1 @@ n4 :> 0

\* All three are notified, the leaf also by its deadline, while a note is added.
NotifyAll == t1 :> {<<"notify", n1>>} @@
             t2 :> {<<"notify", n2>>, <<"new", n4, n3, 2>>, <<"new", n4, n1, 1>>} @@
             t3 :> {<<"notify", n3>>, <<"is_notified", n3>>, <<"new", n4, n2, 2>>}

\* Waits while notes are notified.
WaitMenu == t1 :> {<<"notify", n1>>, <<"wait", n2, 1>>} @@
            t2 :> {<<"wait", n3, 1>>, <<"wait", n3, 2>>, <<"wait", n2, 0>>} @@
            t3 :> {<<"cancel", n3, 1>>, <<"cancel", n3, 2>>, <<"cancel", n2, 1>>}

\* The root is freed while its leaves are notified and freed.
FreeRoot == t1 :> {<<"free", n1>>} @@ t2 :> {<<"notify", n2>>, <<"free", n2>>} @@
            t3 :> {<<"notify", n3>>, <<"wait", n3, 2>>, <<"free", n3>>}

\* The middle of the chain is freed while the leaf is notified or freed.
FreeMiddle == t1 :> {<<"free", n2>>} @@ t2 :> {<<"notify", n3>>, <<"free", n3>>} @@
              t3 :> {<<"new", n4, n1, 2>>, <<"notify", n4>>, <<"free", n4>>}

\* The middle of the chain is freed while the root is notified.
FreeUnderNotify == t1 :> {<<"notify", n1>>} @@ t2 :> {<<"free", n2>>} @@ t3 :> {}

Program(menus, tree, deadlines, n) ==
  [calls |-> menus, parent |-> tree, expiry |-> deadlines, max_calls |-> n]

NotePrograms == {Program(NotifyAll, Chain, LeafExpires, 2),
                 Program(WaitMenu, Chain, LeafExpires, 1),
                 Program(FreeRoot, Fork, NoneExpires, 2),
                 Program(FreeMiddle, Chain, RootExpires, 2)}

AdoptedProgram == {Program(FreeUnderNotify, Chain, NoneExpires, 1)}
===========================================================================
