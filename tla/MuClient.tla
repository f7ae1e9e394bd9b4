------------------------------ MODULE MuClient ------------------------------
(***************************************************************************)
(* Clients of the mutex: which calls each thread makes is chosen at the    *)
(* start, so that one instance of Mu covers several client programs.  Menu *)
(* allows every call here.  A thread with "retire" on its menu stops       *)
(* calling at some time.                                                   *)
(***************************************************************************)
EXTENDS Mu

VARIABLE menu   \* menu[t]: the calls that thread t makes

\* What waits are for is false at first if no thread makes it true.
MenuInit(menus) ==
  /\ Init /\ menu \in menus
  /\ (\A t \in Threads : "change" \notin menu[t]) => \A c \in Conds : ~truth[c]

\* A thread with "once" on its menu makes one call to acquire the mutex.
HasCalled(t) == "once" \in menu[t] /\ pc[t] = "idle" /\ calls[t] > 0

MenuCall(t) ==
  /\ ~HasCalled(t)
  /\ \/ "lock" \in menu[t] /\ nsync_mu_lock(t)
     \/ "trylock" \in menu[t] /\ nsync_mu_trylock(t)
     \/ "rlock" \in menu[t] /\ nsync_mu_rlock(t)
     \/ "rtrylock" \in menu[t] /\ nsync_mu_rtrylock(t)
     \/ "mu_wait" \in menu[t] /\ nsync_mu_wait(t)
     \/ "mu_wait_with_deadline" \in menu[t] /\ nsync_mu_wait_with_deadline(t)
     \/ "change" \in menu[t] /\ Change(t)

MenuUnlock(t) ==
  \/ nsync_mu_unlock(t) \/ nsync_mu_runlock(t)
  \/ "unlock_without_wakeup" \in menu[t] /\ nsync_mu_unlock_without_wakeup(t)

Retire(t) ==
  /\ "retire" \in menu[t] /\ menu' = [menu EXCEPT ![t] = {}]
  /\ UNCHANGED vars

MenuTerminating == (\A t \in Threads : Finished(t) \/ HasCalled(t)) /\ UNCHANGED vars

MenuNext ==
  /\ (\E t \in Threads : MenuCall(t) \/ MenuUnlock(t) \/ Step(t)) \/ MenuTerminating
  /\ UNCHANGED menu
=============================================================================
