----------------------------- MODULE MuInvariant -----------------------------
(***************************************************************************)
(* The inductive invariants of Mu.                                         *)
(*                                                                         *)
(* IInv is about the lock word and who holds the lock.  Each action moves  *)
(* one thread, so the argument is about that thread only: LocalInv is what *)
(* the invariant tells one thread, StepOK relates what the thread holds    *)
(* before and after the step to the change of the word, and Good is what is*)
(* shown of every step.                                                    *)
(*                                                                         *)
(* MuInv adds the waiters: where they are listed, what the flags say about *)
(* them, and their rings.                                                  *)
(***************************************************************************)
EXTENDS Mu

\* What the state says about the other threads does not change.
OnlyMoves(t) ==
  \A u \in Threads \ {t} :
    /\ pc'[u] = pc[u] /\ l_type'[u] = l_type[u] /\ us'[u] = us[u]
    /\ old'[u] = old[u] /\ mw'[u] = mw[u]

\* The flag b follows the change of what one thread holds from "had" to "has".
BitFollows(b, had, has) ==
  /\ had => b \in word.bits
  /\ has => b \in word'.bits
  /\ (had <=> has) => (b \in word'.bits <=> b \in word.bits)
  /\ ~had /\ has => b \notin word.bits
  /\ had /\ ~has => b \notin word'.bits

\* The reader count follows it.
ReadersFollow(had, has) ==
  word'.readers = word.readers + (IF has THEN 1 ELSE 0) - (IF had THEN 1 ELSE 0)

\* A step of t changes the word as it changes what t holds; it keeps readers and
\* a writer apart; and if t holds nothing and some thread holds both the write
\* lock and the spinlock, it leaves the word alone.
StepOK(t) ==
  /\ BitFollows("WLOCK", HoldsWrite(t), HoldsWrite(t)')
  /\ ReadersFollow(HoldsRead(t), HoldsRead(t)')
  /\ BitFollows("SPINLOCK", HoldsSpinlock(t), HoldsSpinlock(t)')
  /\ "WLOCK" \in word'.bits => word'.readers = 0
  /\ ~HoldsWrite(t) /\ ~HoldsRead(t) /\ ~HoldsSpinlock(t)
       /\ "WLOCK" \in word.bits /\ "SPINLOCK" \in word.bits => word' = word

\* What RememberedStateIsGood says of thread t.
Remembers(t) ==
  /\ pc[t] = "lock_cas" => CanAcquire(old[t], l_type[t], {})
  /\ pc[t] = "mt_mark" => MtCanMark(old[t])
  /\ pc[t] \in {"mt_cas", "mt_check"} => MtCanAcquire(old[t])
  /\ pc[t] = "mt_check" => word = MtAcquired(old[t])
  /\ pc[t] \in {"us_loop", "us_scan"} /\ us[t].testing => us[t].late
  /\ pc[t] \in {"us_wake", "us_v"} => us[t].wake # <<>>
  /\ pc[t] \in {"mt_load", "mt_cas", "mt_mark", "mt_check"}
       => mw[t].outcome = "expired"
  /\ mw[t].outcome # "none" => mw[t].timed

\* What a thread holds shows in the word.
ShowsInWord(t) ==
  /\ HoldsWrite(t) => "WLOCK" \in word.bits /\ word.readers = 0
  /\ HoldsRead(t) => "WLOCK" \notin word.bits /\ word.readers > 0
  /\ HoldsSpinlock(t) => "SPINLOCK" \in word.bits
  /\ "WLOCK" \in word.bits => word.readers = 0
  /\ ~(HoldsWrite(t) /\ HoldsRead(t))

\* What every thread that holds something sees in the word; it follows from
\* WordCountsHolders by counting.
WordShows ==
  \A t \in Threads :
    /\ ShowsInWord(t)
    /\ \A u \in Threads \ {t} : HoldsRead(t) /\ HoldsRead(u) => word.readers > 1

\* The word and the threads that hold the lock.
IInv ==
  /\ TypeOK
  /\ MutualExclusion
  /\ WordCountsHolders
  /\ SpinlockExclusion
  /\ RememberedStateIsGood
  /\ WordShows

\* What the invariant says of one thread.
LocalInv(t) == TypeOK /\ Remembers(t) /\ ShowsInWord(t)

\* What is to be shown of a step of t.
Good(t) == TypeOK' /\ OnlyMoves(t) /\ StepOK(t) /\ Remembers(t)'

---------------------------------------------------------------------------
(* The queue, the lists of a thread in nsync_mu_unlock_slow_, the flags    *)
(* that speak of waiters, and the same_condition rings.                    *)

\* Where a thread is in nsync_mu_unlock_slow_, and where it sleeps.
UsPCs == {"us", "us_loop", "us_scan", "us_wake", "us_v"}
SleepPCs == {"ls_wait", "ls_p", "mw_wait", "mw_p", "mt_load", "mt_cas", "mt_mark",
             "mt_check"}

\* A thread that looks for waiters to wake, and one that holds the spinlock
\* while it does.
Scanning(t) == pc[t] \in {"us_loop", "us_scan"}
HoldsQueue(t) == pc[t] = "us_loop" \/ (pc[t] = "us_scan" /\ ~us[t].testing)

\* What the waiter and the locals of a thread are where it is.
LocalsFollowPc(t) ==
  /\ pc[t] \notin {"panic", "us_panic"}
  /\ waiting[t] => \/ pc[t] \in SleepPCs \cup {"mw_queue"}
                   \/ pc[t] \in UsPCs /\ ret[t] = "mu_wait"
  /\ pc[t] = "mw_queue" => waiting[t]
  /\ pc[t] \in {"mw_spin", "mw_queue", "mw_wait", "mw_p", "mw_eval", "mt_load",
                "mt_cas", "mt_mark", "mt_check"} => ret[t] = "mu_wait"
  /\ pc[t] \in {"slow", "ls_queue", "ls_wait", "ls_p"} => cond[t] = NoCond
  /\ ~Scanning(t) => us[t].new = <<>> /\ us[t].seen = <<>>
  /\ pc[t] \notin UsPCs \ {"us"} => us[t].wake = <<>>
  /\ pc[t] \in {"ul_load", "ul_cas", "us"} /\ ret[t] = "without_wakeup"
       => changed[t] # "made_true"

\* What a thread that holds the spinlock relies on: the flags it has set stay,
\* and no thread adds to the queue that it has taken.
SpinlockKeeps(t) ==
  /\ pc[t] \in {"ls_queue", "mw_queue"}
       => "WAITING" \in word.bits /\ "ALL_FALSE" \notin word.bits
  /\ pc[t] = "mw_queue" => "CONDITION" \in word.bits
  /\ HoldsQueue(t) => waiters = <<>>
  /\ Scanning(t) /\ ~us[t].late => "CONDITION" \notin word.bits

\* A thread has stopped testing conditions because no waiter has one, because it
\* has found a writer to wake, or because the first new waiter is such a writer.
StopsTesting(t) ==
  /\ pc[t] = "us_loop" /\ ~us[t].testing => ~us[t].late \/ us[t].wake_type = "writer"
  /\ pc[t] = "us_scan" /\ ~us[t].testing =>
       \/ ~us[t].late
       \/ us[t].wake_type = "writer"
       \/ /\ us[t].wake_type = "none" /\ us[t].i = 1 /\ us[t].new # <<>>
          /\ l_type[us[t].new[1]] = "writer" /\ cond[us[t].new[1]] = NoCond

\* While all_false is set, the waiters that a thread has passed over are waiting
\* for conditions that are still false.
SeenIsFalse(t) ==
  Scanning(t) /\ us[t].all_false =>
    /\ \A p \in Range(us[t].seen) : ~IsTrue(cond[p])
    /\ pc[t] = "us_scan" =>
         \A j \in DOMAIN us[t].new : j < us[t].i => ~IsTrue(cond[us[t].new[j]])

\* At most one thread looks for waiters to wake: it holds the spinlock, or the
\* lock that it has kept to test conditions.
OneScanner == \A t, u \in Threads : Scanning(t) /\ Scanning(u) => t = u

\* The waiters in the lists of thread u.
Local(u) == Range(us[u].new) \cup Range(us[u].seen) \cup Range(ToWake(u))

\* No waiter is twice in a list or in two lists.
ListsAreApart ==
  /\ IsInjective(waiters)
  /\ \A u \in Threads :
       /\ IsInjective(us[u].new) /\ IsInjective(us[u].seen) /\ IsInjective(ToWake(u))
       /\ Range(us[u].new) \cap Range(us[u].seen) = {}
       /\ Range(ToWake(u)) \cap (Range(us[u].new) \cup Range(us[u].seen)) = {}
       /\ Range(waiters) \cap Local(u) = {}
  /\ \A u, v \in Threads : u # v => Local(u) \cap Local(v) = {}

\* The waiters whose flag is set, once they are queued, are those in the lists.
Asleep(t) == waiting[t] /\ pc[t] # "mw_queue"
Listed(t) == t \in Range(waiters) \/ \E u \in Threads : t \in Local(u)
ListsAreComplete == \A t \in Threads : Asleep(t) <=> Listed(t)

\* A waiter to be woken is marked as removed, and one in the lists of another
\* thread does not look for waiters itself.
ListedStay ==
  \A u \in Threads :
    /\ \A p \in Range(ToWake(u)) : removed[p]
    /\ \A p \in Local(u) \ {u} : pc[p] \notin {"us", "us_loop", "us_scan"}

\* MU_ALL_FALSE is right unless a writer that is still to release has made a
\* condition true.
AllFalseIsRight ==
  /\ "ALL_FALSE" \in word.bits
  /\ \A t \in Threads :
       pc[t] \in HoldPCs /\ l_type[t] = "writer" => changed[t] # "made_true"
  => \A p \in Range(waiters) : ~IsTrue(cond[p])

\* Each ring is a block of neighbours in one queue.
Rings ==
  /\ same \in [Threads -> Threads]
  /\ \A t \in Threads : ~Queued(t) => same[t] = t
  /\ RingsAreBlocks(same, cond, waiters)
  /\ \A u \in Threads : /\ RingsAreBlocks(same, cond, us[u].new)
                        /\ RingsAreBlocks(same, cond, us[u].seen)

\* The whole inductive invariant of the mutex: the word says who holds it (IInv);
\* the queue, the local lists of a releasing thread and the waiting flags agree;
\* the flags that speak of waiters have their reasons; and the rings follow the
\* queues, so that every thread that sleeps in nsync_mu_lock_slow_ or
\* nsync_mu_wait_with_deadline is where a releasing thread will look for it.
MuInv ==
  /\ IInv
  /\ \A t \in Threads :
       LocalsFollowPc(t) /\ SpinlockKeeps(t) /\ StopsTesting(t) /\ SeenIsFalse(t)
  /\ OneScanner
  /\ ListsAreApart /\ ListsAreComplete /\ ListedStay
  /\ Rings
  /\ QueueBitsSet /\ AllFalseIsRight
  /\ WokenThreadGetsPost /\ LongWaitHasOwner /\ DesigWakerExists

==============================================================================
