---------------------------- MODULE MuSleepProofs ----------------------------
(***************************************************************************)
(* Mu preserves MuInv, for every set of threads and conditions: no sanity  *)
(* check fails, the flags have their reasons, and a thread that sleeps is  *)
(* in exactly one place where a releasing thread looks for it.             *)
(*                                                                         *)
(* Most steps are calm: they change neither a list nor a waiting flag, and *)
(* CalmStep is the argument for all of them.  The steps that queue a       *)
(* waiter, move the queue or wake a waiter are treated one by one.         *)
(***************************************************************************)
EXTENDS MuInvariant, MuQueueProofs

-----------------------------------------------------------------------------
(* What a step of thread t does to the rest of the state.                  *)

\* The locals and the waiter of the other threads stay, apart from their lists.
Moves(t) ==
  /\ OnlyMoves(t)
  /\ \A u \in Threads \ {t} :
       /\ ret'[u] = ret[u] /\ cond'[u] = cond[u]
       /\ changed'[u] = changed[u] /\ ls'[u] = ls[u]

\* A thread that has claimed MU_LONG_WAIT or is about to, and one that has been
\* woken and has neither acquired nor slept again.
WaitsLong(t) == /\ ls[t].wait_count = LONG_WAIT_THRESHOLD
                /\ pc[t] \in {"slow", "ls_queue", "ls_wait", "ls_p"}
WasWoken(t) == \/ pc[t] = "slow" /\ ls[t].clear
               \/ ~waiting[t] /\ pc[t] \in SleepPCs
               \/ ~waiting[t] /\ pc[t] \in {"us_wake", "us_v"} /\ ret[t] = "mu_wait"

\* What every step of t does: a thread that holds the spinlock is not disturbed,
\* no thread starts to wait on behalf of another, and MU_LONG_WAIT keeps an owner.
Simple(t) ==
  /\ Moves(t)
  /\ LocalsFollowPc(t)'
  /\ SpinlockKeeps(t)'
  /\ \A u \in Threads \ {t} : /\ waiting'[u] => waiting[u]
                              /\ pc[u] = "mw_queue" /\ waiting[u] => waiting'[u]
  /\ "SPINLOCK" \in word.bits /\ ~HoldsSpinlock(t) =>
       /\ waiters' = waiters
       /\ "WAITING" \in word.bits => "WAITING" \in word'.bits
       /\ "CONDITION" \in word'.bits => "CONDITION" \in word.bits
       /\ "CONDITION" \in word.bits => "CONDITION" \in word'.bits
       /\ "ALL_FALSE" \in word'.bits => "ALL_FALSE" \in word.bits
  /\ "LONG_WAIT" \in word'.bits => \/ WaitsLong(t)'
                                   \/ "LONG_WAIT" \in word.bits /\ ~WaitsLong(t)

\* What a calm step does besides.
Calm(t) ==
  /\ waiters' = waiters /\ us' = us /\ waiting' = waiting /\ removed' = removed
  /\ same' = same /\ truth' = truth
  /\ \A u \in Threads \ {t} : sem'[u] = sem[u]
  /\ pc[t] \notin {"mw_queue", "us_loop", "us_scan", "us_wake", "us_v"}
  /\ pc'[t] \notin {"mw_queue", "us_loop", "us_scan", "us_wake", "us_v"}
  /\ waiting[t] => /\ cond'[t] = cond[t] /\ l_type'[t] = l_type[t]
                   /\ pc'[t] = "us" => pc[t] = "us"
  /\ pc'[t] \in {"ls_p", "mw_p"} => waiting[t]
  /\ "WAITING" \in word.bits => "WAITING" \in word'.bits
  /\ "CONDITION" \in word.bits => "CONDITION" \in word'.bits
  /\ "ALL_FALSE" \in word'.bits =>
       /\ "ALL_FALSE" \in word.bits
       /\ pc[t] \in HoldPCs /\ l_type[t] = "writer" /\ changed[t] = "made_true"
            => pc'[t] \in HoldPCs /\ l_type'[t] = "writer" /\ changed'[t] = "made_true"
  /\ "DESIG_WAKER" \in word'.bits => /\ "DESIG_WAKER" \in word.bits
                                     /\ WasWoken(t) => WasWoken(t)'

\* The value of condition c where tr says which conditions are true.
Holds(tr, c) == IF c = NoCond THEN TRUE ELSE tr[c]

\* The invariant gives every thread what its steps need.
LEMMA HoldersShow ==
  ASSUME IInv, NEW t \in Threads
  PROVE  LocalInv(t)
BY Zenon DEF IInv, WordShows, LocalInv, RememberedStateIsGood, Remembers

\* What a simple step preserves.
LEMMA SimpleStep ==
  ASSUME MuInv, IInv', NEW t \in Threads, Simple(t)
  PROVE  /\ \A u \in Threads : LocalsFollowPc(u)' /\ SpinlockKeeps(u)'
         /\ LongWaitHasOwner'
<1>1. ASSUME NEW u \in Threads, u # t PROVE LocalsFollowPc(u)'
  <2>1. /\ pc'[u] = pc[u] /\ us'[u] = us[u] /\ ret'[u] = ret[u]
        /\ cond'[u] = cond[u] /\ changed'[u] = changed[u]
        /\ waiting'[u] => waiting[u]
        /\ pc[u] = "mw_queue" /\ waiting[u] => waiting'[u]
    BY Zenon, <1>1 DEF Simple, Moves, OnlyMoves
  <2>2. LocalsFollowPc(u)
    BY Zenon DEF MuInv
  <2> QED
    BY Zenon, <2>1, <2>2 DEF LocalsFollowPc, Scanning
<1>2. ASSUME NEW u \in Threads, u # t PROVE SpinlockKeeps(u)'
  <2>1. pc'[u] = pc[u] /\ us'[u] = us[u]
    BY Zenon, <1>2 DEF Simple, Moves, OnlyMoves
  <2>2. SpinlockKeeps(u) /\ Remembers(u)
    BY Zenon, HoldersShow DEF MuInv, LocalInv
  <2>3. CASE HoldsSpinlock(u)
    <3>1. "SPINLOCK" \in word.bits /\ ~HoldsSpinlock(t)
      BY Zenon, <1>2, <2>3 DEF MuInv, IInv, SpinlockExclusion
    <3>2. /\ waiters' = waiters
          /\ "WAITING" \in word.bits => "WAITING" \in word'.bits
          /\ "CONDITION" \in word'.bits => "CONDITION" \in word.bits
          /\ "CONDITION" \in word.bits => "CONDITION" \in word'.bits
          /\ "ALL_FALSE" \in word'.bits => "ALL_FALSE" \in word.bits
      BY Zenon, <3>1 DEF Simple
    <3> QED
      BY Zenon, <2>1, <2>2, <3>2 DEF SpinlockKeeps, HoldsQueue, Scanning
  <2>4. CASE ~HoldsSpinlock(u)
    <3>1. pc[u] \notin {"ls_queue", "mw_queue", "us_loop"} /\ ~HoldsQueue(u)
      BY Zenon, <2>4 DEF HoldsSpinlock, HoldsQueue
    <3>2. Scanning(u) => us[u].late
      BY Zenon, <2>2, <2>4 DEF Scanning, HoldsSpinlock, Remembers
    <3> QED
      BY Zenon, <2>1, <3>1, <3>2 DEF SpinlockKeeps, HoldsQueue, Scanning
  <2> QED
    BY Zenon, <2>3, <2>4
<1>3. LongWaitHasOwner'
  <2> SUFFICES ASSUME "LONG_WAIT" \in word'.bits PROVE \E u \in Threads : WaitsLong(u)'
    BY Zenon DEF LongWaitHasOwner, WaitsLong
  <2>1. CASE WaitsLong(t)'
    BY Zenon, <2>1
  <2>2. CASE "LONG_WAIT" \in word.bits /\ ~WaitsLong(t)
    <3>1. PICK u \in Threads : WaitsLong(u)
      BY Zenon, <2>2 DEF MuInv, LongWaitHasOwner, WaitsLong
    <3>2. u # t
      BY Zenon, <2>2, <3>1
    <3>3. pc'[u] = pc[u] /\ ls'[u] = ls[u]
      BY Zenon, <3>2 DEF Simple, Moves, OnlyMoves
    <3>4. WaitsLong(u)'
      BY Zenon, <3>1, <3>3 DEF WaitsLong
    <3> QED
      BY Zenon, <3>4
  <2> QED
    BY Zenon, <2>1, <2>2 DEF Simple
<1> QED
  BY Zenon, <1>1, <1>2, <1>3 DEF Simple

\* A thread in a list is waiting, and has queued itself.
LEMMA ListedWait ==
  ASSUME MuInv
  PROVE  /\ \A x \in Range(waiters) : x \in Threads /\ Asleep(x)
         /\ \A u \in Threads : \A x \in Local(u) : x \in Threads /\ Asleep(x)
         /\ \A x \in Threads : Queued(x) => Asleep(x)
         /\ \A u \in Threads : /\ us[u] \in UsType /\ ToWake(u) \in Seq(Threads)
                               /\ us[u].new \in Seq(Threads) /\ us[u].seen \in Seq(Threads)
                               /\ us[u].wake \in Seq(Threads)
         /\ waiters \in Seq(Threads)
<1>1. TypeOK /\ waiters \in Seq(Threads)
  BY Zenon DEF MuInv, IInv, TypeOK
<1>2. ASSUME NEW u \in Threads
      PROVE  /\ us[u] \in UsType /\ ToWake(u) \in Seq(Threads)
             /\ us[u].new \in Seq(Threads) /\ us[u].seen \in Seq(Threads)
             /\ us[u].wake \in Seq(Threads)
  <2>1. /\ us[u] \in UsType /\ us[u].new \in Seq(Threads) /\ us[u].seen \in Seq(Threads)
        /\ us[u].wake \in Seq(Threads)
    BY Zenon, <1>1 DEF TypeOK, UsType
  <2>2. pc[u] = "us_v" => us[u].wake # <<>>
    BY Zenon, HoldersShow DEF MuInv, LocalInv, Remembers
  <2> QED
    BY Zenon, <2>1, <2>2, TailFacts DEF ToWake
<1>3. \A x \in Threads : Asleep(x) <=> Listed(x)
  BY Zenon DEF MuInv, ListsAreComplete
<1>4. \A x \in Range(waiters) : x \in Threads /\ Asleep(x)
  BY Zenon, <1>1, <1>3, InRange DEF Listed
<1>5. ASSUME NEW u \in Threads, NEW x \in Local(u) PROVE x \in Threads /\ Asleep(x)
  <2>1. x \in Threads
    BY Zenon, <1>2, InRange DEF Local
  <2> QED
    BY Zenon, <1>3, <2>1 DEF Listed
<1>6. \A x \in Threads : Queued(x) => Asleep(x)
  BY Zenon, <1>3 DEF Queued, Listed, Local
<1> QED
  BY Zenon, <1>1, <1>2, <1>4, <1>5, <1>6

\* A calm step leaves the lists alone, and the modes and conditions of waiters.
LEMMA CalmLists ==
  ASSUME MuInv, NEW t \in Threads, Simple(t), Calm(t)
  PROVE  /\ \A u \in Threads : ToWake(u)' = ToWake(u) /\ Local(u)' = Local(u)
         /\ \A x \in Threads : /\ Queued(x)' <=> Queued(x)
                               /\ BeingWoken(x)' <=> BeingWoken(x)
                               /\ Listed(x)' <=> Listed(x)
                               /\ Asleep(x)' <=> Asleep(x)
                               /\ Scanning(x)' <=> Scanning(x)
                               /\ Asleep(x) => cond'[x] = cond[x] /\ l_type'[x] = l_type[x]
<1>1. \A x \in Threads \ {t} : pc'[x] = pc[x] /\ cond'[x] = cond[x] /\ l_type'[x] = l_type[x]
  BY Zenon DEF Simple, Moves, OnlyMoves
<1>2. ASSUME NEW u \in Threads PROVE ToWake(u)' = ToWake(u) /\ Local(u)' = Local(u)
  <2>1. pc'[u] = "us_v" <=> pc[u] = "us_v"
    BY Zenon, <1>1 DEF Calm
  <2>2. us' = us
    BY Zenon DEF Calm
  <2>3. ToWake(u)' = ToWake(u)
    BY Zenon, <2>1, <2>2 DEF ToWake
  <2> QED
    BY Zenon, <2>2, <2>3 DEF Local
<1>3. waiters' = waiters /\ us' = us /\ waiting' = waiting
  BY Zenon DEF Calm
<1>4. ASSUME NEW x \in Threads
      PROVE  /\ Queued(x)' <=> Queued(x)
             /\ BeingWoken(x)' <=> BeingWoken(x)
             /\ Listed(x)' <=> Listed(x)
  BY Zenon, <1>2, <1>3 DEF Queued, BeingWoken, Listed
<1>5. ASSUME NEW x \in Threads
      PROVE  /\ Asleep(x)' <=> Asleep(x)
             /\ Scanning(x)' <=> Scanning(x)
             /\ Asleep(x) => cond'[x] = cond[x] /\ l_type'[x] = l_type[x]
  BY Zenon, <1>1, <1>3 DEF Calm, Asleep, Scanning
<1> QED
  BY Zenon, <1>2, <1>4, <1>5

\* A calm step keeps the lists apart, complete and quiet.
LEMMA CalmKeepsLists ==
  ASSUME MuInv, NEW t \in Threads, Simple(t), Calm(t)
  PROVE  OneScanner' /\ ListsAreApart' /\ ListsAreComplete' /\ ListedStay'
<1>1. /\ \A u \in Threads : ToWake(u)' = ToWake(u) /\ Local(u)' = Local(u)
      /\ \A x \in Threads : /\ Listed(x)' <=> Listed(x)
                            /\ Asleep(x)' <=> Asleep(x)
                            /\ Scanning(x)' <=> Scanning(x)
  BY Zenon, CalmLists
<1>2. waiters' = waiters /\ us' = us /\ removed' = removed
  BY Zenon DEF Calm
<1>3. OneScanner'
  BY Zenon, <1>1 DEF MuInv, OneScanner
<1>4. ListsAreApart'
  BY Zenon, <1>1, <1>2 DEF MuInv, ListsAreApart
<1>5. ListsAreComplete'
  BY Zenon, <1>1 DEF MuInv, ListsAreComplete
<1>6. ListedStay'
  <2> SUFFICES ASSUME NEW u \in Threads
               PROVE  /\ \A p \in Range(ToWake(u)) : removed[p]
                      /\ \A p \in Local(u) \ {u} : pc'[p] \notin {"us", "us_loop", "us_scan"}
    BY Zenon, <1>1, <1>2 DEF ListedStay
  <2>1. \A p \in Range(ToWake(u)) : removed[p]
    BY Zenon DEF MuInv, ListedStay
  <2>2. ASSUME NEW p \in Local(u) \ {u} PROVE pc'[p] \notin {"us", "us_loop", "us_scan"}
    <3>1. p \in Threads /\ waiting[p]
      BY Zenon, ListedWait DEF Asleep
    <3>2. pc[p] \notin {"us", "us_loop", "us_scan"}
      BY Zenon DEF MuInv, ListedStay
    <3>3. p # t => pc'[p] = pc[p]
      BY Zenon, <3>1 DEF Simple, Moves, OnlyMoves
    <3> QED
      BY Zenon, <3>1, <3>2, <3>3 DEF Calm
  <2> QED
    BY Zenon, <2>1, <2>2
<1> QED
  BY Zenon, <1>3, <1>4, <1>5, <1>6

\* A calm step keeps what the flags and the rings say.
LEMMA CalmKeepsFlags ==
  ASSUME MuInv, IInv', NEW t \in Threads, Simple(t), Calm(t)
  PROVE  /\ QueueBitsSet' /\ WokenThreadGetsPost' /\ DesigWakerExists' /\ AllFalseIsRight'
         /\ Rings'
<1>1. /\ \A x \in Threads : /\ Queued(x)' <=> Queued(x)
                            /\ BeingWoken(x)' <=> BeingWoken(x)
                            /\ Asleep(x) => cond'[x] = cond[x] /\ l_type'[x] = l_type[x]
  BY Zenon, CalmLists
<1>2. \A u \in Threads \ {t} : /\ pc'[u] = pc[u] /\ l_type'[u] = l_type[u] /\ us'[u] = us[u]
                               /\ ret'[u] = ret[u] /\ cond'[u] = cond[u]
                               /\ changed'[u] = changed[u] /\ ls'[u] = ls[u]
                               /\ sem'[u] = sem[u]
  BY Zenon DEF Simple, Moves, OnlyMoves, Calm
<1>3. waiters' = waiters /\ us' = us /\ waiting' = waiting /\ truth' = truth /\ same' = same
  BY Zenon DEF Calm
<1>4. QueueBitsSet'
  <2> SUFFICES ASSUME NEW x \in Threads, Queued(x)
               PROVE  /\ "WAITING" \in word'.bits
                      /\ cond'[x] # NoCond => "CONDITION" \in word'.bits
    BY Zenon, <1>1 DEF QueueBitsSet
  <2>1. cond'[x] = cond[x]
    BY Zenon, <1>1, ListedWait
  <2>2. "WAITING" \in word.bits /\ (cond[x] # NoCond => "CONDITION" \in word.bits)
    BY Zenon DEF MuInv, QueueBitsSet
  <2> QED
    BY Zenon, <2>1, <2>2 DEF Calm
<1>5. WokenThreadGetsPost'
  <2> SUFFICES ASSUME NEW x \in Threads, pc'[x] \in {"ls_p", "mw_p"}, ~waiting[x]
               PROVE  \/ sem'[x] > 0
                      \/ \E u \in Threads : pc'[u] = "us_v" /\ Head(us[u].wake) = x
    BY Zenon, <1>3 DEF WokenThreadGetsPost
  <2>1. x # t
    BY Zenon DEF Calm
  <2>2. pc'[x] = pc[x] /\ sem'[x] = sem[x]
    BY Zenon, <1>2, <2>1
  <2>3. \/ sem[x] > 0
        \/ \E u \in Threads : pc[u] = "us_v" /\ Head(us[u].wake) = x
    BY Zenon, <2>2 DEF MuInv, WokenThreadGetsPost
  <2>4. \A u \in Threads : pc[u] = "us_v" => pc'[u] = "us_v"
    BY Zenon, <1>2 DEF Calm
  <2> QED
    BY Zenon, <2>2, <2>3, <2>4
<1>6. DesigWakerExists'
  <2> SUFFICES ASSUME "DESIG_WAKER" \in word'.bits
               PROVE  \E x \in Threads : Scanning(x)' \/ BeingWoken(x)' \/ WasWoken(x)'
    BY Zenon DEF DesigWakerExists, Scanning, WasWoken, SleepPCs
  <2>1. "DESIG_WAKER" \in word.bits /\ (WasWoken(t) => WasWoken(t)')
    BY Zenon DEF Calm
  <2>2. PICK x \in Threads : Scanning(x) \/ BeingWoken(x) \/ WasWoken(x)
    BY Zenon, <2>1 DEF MuInv, DesigWakerExists, Scanning, WasWoken, SleepPCs
  <2>3. Scanning(x) => Scanning(x)'
    BY Zenon, <1>2 DEF Scanning, Calm
  <2>4. WasWoken(x) => WasWoken(x)'
    <3>1. CASE x = t
      BY Zenon, <2>1, <3>1
    <3>2. CASE x # t
      BY Zenon, <1>2, <1>3, <3>2 DEF WasWoken
    <3> QED
      BY Zenon, <3>1, <3>2
  <2> QED
    BY Zenon, <1>1, <2>2, <2>3, <2>4
<1>7. AllFalseIsRight'
  <2> SUFFICES ASSUME "ALL_FALSE" \in word'.bits,
                      \A u \in Threads : pc'[u] \in HoldPCs /\ l_type'[u] = "writer"
                                           => changed'[u] # "made_true",
                      NEW p \in Range(waiters)
               PROVE  ~IsTrue(cond[p])'
    BY Zenon, <1>3 DEF AllFalseIsRight
  <2>1. "ALL_FALSE" \in word.bits
    BY Zenon DEF Calm
  <2>2. \A u \in Threads : pc[u] \in HoldPCs /\ l_type[u] = "writer"
                             => changed[u] # "made_true"
    BY Zenon, <1>2 DEF Calm
  <2>3. ~IsTrue(cond[p])
    BY Zenon, <2>1, <2>2 DEF MuInv, AllFalseIsRight
  <2>4. cond'[p] = cond[p]
    BY Zenon, <1>1, ListedWait
  <2> QED
    BY Zenon, <1>3, <2>3, <2>4 DEF IsTrue
<1>8. Rings'
  <2>1. /\ same \in [Threads -> Threads]
        /\ \A x \in Threads : ~Queued(x) => same[x] = x
        /\ RingsAreBlocks(same, cond, waiters)
        /\ \A u \in Threads : /\ RingsAreBlocks(same, cond, us[u].new)
                              /\ RingsAreBlocks(same, cond, us[u].seen)
    BY Zenon DEF MuInv, Rings
  <2>2. RingsAreBlocks(same, cond', waiters)
    <3>1. \A x \in Range(waiters) : same[x] = same[x] /\ cond'[x] = cond[x]
      BY Zenon, <1>1, ListedWait
    <3>2. waiters \in Seq(Threads)
      BY Zenon, ListedWait
    <3> QED
      BY Zenon, <2>1, <3>1, <3>2, SameBlocks
  <2>3. ASSUME NEW u \in Threads
        PROVE  /\ RingsAreBlocks(same, cond', us[u].new)
               /\ RingsAreBlocks(same, cond', us[u].seen)
    <3>1. \A x \in Local(u) : same[x] = same[x] /\ cond'[x] = cond[x]
      BY Zenon, <1>1, ListedWait
    <3>2. us[u].new \in Seq(Threads) /\ us[u].seen \in Seq(Threads)
      BY Zenon, ListedWait
    <3>3. /\ \A x \in Range(us[u].new) : same[x] = same[x] /\ cond'[x] = cond[x]
          /\ \A x \in Range(us[u].seen) : same[x] = same[x] /\ cond'[x] = cond[x]
      BY Zenon, <3>1 DEF Local
    <3> QED
      BY Zenon, <2>1, <3>2, <3>3, SameBlocks
  <2> QED
    BY Zenon, <1>1, <1>3, <2>1, <2>2, <2>3 DEF Rings
<1> QED
  BY Zenon, <1>4, <1>5, <1>6, <1>7, <1>8

\* A thread that looks for waiters relies on their modes and conditions, which
\* change only once they have left the lists.
LEMMA OthersScan ==
  ASSUME MuInv, NEW t \in Threads, Moves(t), truth' = truth,
         Asleep(t) => cond'[t] = cond[t] /\ l_type'[t] = l_type[t],
         NEW u \in Threads, u # t
  PROVE  StopsTesting(u)' /\ SeenIsFalse(u)'
<1>1. pc'[u] = pc[u] /\ us'[u] = us[u]
  BY Zenon DEF Moves, OnlyMoves
<1>2. ASSUME NEW x \in Range(us[u].new) \cup Range(us[u].seen)
      PROVE  cond'[x] = cond[x] /\ l_type'[x] = l_type[x]
  <2>1. x \in Threads /\ Asleep(x)
    BY Zenon, ListedWait DEF Local
  <2> QED
    BY Zenon, <2>1 DEF Moves, OnlyMoves
<1>3. us[u].new \in Seq(Threads) /\ us[u].seen \in Seq(Threads)
  BY Zenon, ListedWait
<1>4. \A j \in 1..Len(us[u].new) : us[u].new[j] \in Range(us[u].new)
  BY <1>3, InRange
<1>5. StopsTesting(u)'
  <2>1. StopsTesting(u)
    BY Zenon DEF MuInv
  <2>2. us[u].new # <<>> => us[u].new[1] \in Range(us[u].new)
    <3>1. us[u].new # <<>> => 1 \in 1..Len(us[u].new)
      BY <1>3, QueueFacts
    <3> QED
      BY Zenon, <1>4, <3>1
  <2> QED
    BY <1>1, <1>2, <2>1, <2>2 DEF StopsTesting
<1>6. SeenIsFalse(u)'
  <2>1. DOMAIN us[u].new = 1..Len(us[u].new)
    BY <1>3
  <2> SUFFICES ASSUME Scanning(u), us[u].all_false
               PROVE  /\ \A p \in Range(us[u].seen) : ~Holds(truth, cond'[p])
                      /\ pc[u] = "us_scan" => \A j \in 1..Len(us[u].new) :
                           j < us[u].i => ~Holds(truth, cond'[us[u].new[j]])
    BY Zenon, <1>1, <2>1 DEF SeenIsFalse, Scanning, IsTrue, Holds
  <2>2. /\ \A p \in Range(us[u].seen) : ~Holds(truth, cond[p])
        /\ pc[u] = "us_scan" => \A j \in 1..Len(us[u].new) :
             j < us[u].i => ~Holds(truth, cond[us[u].new[j]])
    <3>1. SeenIsFalse(u)
      BY Zenon DEF MuInv
    <3> QED
      BY Zenon, <2>1, <3>1 DEF SeenIsFalse, IsTrue, Holds
  <2>3. /\ \A p \in Range(us[u].seen) : cond'[p] = cond[p]
        /\ \A j \in 1..Len(us[u].new) : cond'[us[u].new[j]] = cond[us[u].new[j]]
    BY Zenon, <1>2, <1>4
  <2> QED
    BY Zenon, <2>2, <2>3
<1> QED
  BY Zenon, <1>5, <1>6

\* A calm step preserves the whole invariant.
LEMMA CalmStep ==
  ASSUME MuInv, IInv', NEW t \in Threads, Simple(t), Calm(t)
  PROVE  MuInv'
<1>1. \A u \in Threads : LocalsFollowPc(u)' /\ SpinlockKeeps(u)'
  BY Zenon, SimpleStep
<1>2. \A u \in Threads : StopsTesting(u)' /\ SeenIsFalse(u)'
  <2>1. ASSUME NEW u \in Threads, u # t PROVE StopsTesting(u)' /\ SeenIsFalse(u)'
    <3>1. /\ Moves(t) /\ truth' = truth
          /\ Asleep(t) => cond'[t] = cond[t] /\ l_type'[t] = l_type[t]
      BY Zenon DEF Simple, Calm, Asleep
    <3> QED
      BY Zenon, <2>1, <3>1, OthersScan
  <2>2. StopsTesting(t)' /\ SeenIsFalse(t)'
    BY Zenon DEF StopsTesting, SeenIsFalse, Scanning, Calm
  <2> QED
    BY Zenon, <2>1, <2>2
<1> QED
  BY Zenon, <1>1, <1>2, SimpleStep, CalmKeepsLists, CalmKeepsFlags DEF MuInv

-----------------------------------------------------------------------------
(* The calm steps.                                                         *)

\* What the invariant tells the thread that moves.
LEMMA ThreadKnows ==
  ASSUME MuInv, NEW t \in Threads
  PROVE  /\ TypeOK /\ LocalInv(t) /\ Remembers(t) /\ ShowsInWord(t)
         /\ LocalsFollowPc(t) /\ SpinlockKeeps(t)
BY Zenon, HoldersShow DEF MuInv, LocalInv

\* What is left to show of a calm step.
LEMMA CalmIsSimple ==
  ASSUME NEW t \in Threads, Moves(t), LocalsFollowPc(t)', Calm(t),
         "CONDITION" \in word'.bits => "CONDITION" \in word.bits,
         pc'[t] = "ls_queue" => "WAITING" \in word'.bits /\ "ALL_FALSE" \notin word'.bits,
         "LONG_WAIT" \in word'.bits => \/ WaitsLong(t)'
                                       \/ "LONG_WAIT" \in word.bits /\ ~WaitsLong(t)
  PROVE  Simple(t)
<1>1. SpinlockKeeps(t)'
  BY Zenon DEF SpinlockKeeps, HoldsQueue, Scanning, Calm
<1> QED
  BY Zenon, <1>1 DEF Simple, Calm

\* The start of nsync_mu_lock, nsync_mu_rlock and their try variants.
LEMMA LockCallCalm ==
  ASSUME MuInv, NEW t \in Threads, OnlyMoves(t), NEW l \in LockTypes,
         NEW how \in {"lock", "trylock"}, LockCall(t, l, how)
  PROVE  Simple(t) /\ Calm(t)
<1>1. TypeOK /\ LocalInv(t) /\ LocalsFollowPc(t)
  BY Zenon, ThreadKnows
<1>2. /\ pc[t] = "idle" /\ pc'[t] \in {"held", "lock_load"} /\ ret'[t] = how
      /\ waiters' = waiters /\ us' = us /\ waiting' = waiting /\ removed' = removed
      /\ same' = same /\ truth' = truth /\ sem' = sem /\ cond' = cond /\ ls' = ls
  BY Zenon, <1>1 DEF TypeOK, LockCall, Goto, waiterVars
<1>3. Moves(t)
  BY Zenon, <1>1, <1>2 DEF TypeOK, Moves, LockCall
<1>4. LocalsFollowPc(t)'
  BY Zenon, <1>1, <1>2 DEF LocalsFollowPc, SleepPCs, UsPCs, Scanning
<1>5. word' = word \/ (word.bits = {} /\ word'.bits \subseteq {"WLOCK"})
  BY <1>1 DEF TypeOK, LockCall, Goto, AddToAcquire, ZeroWord, LockTypes
<1>6. Calm(t)
  BY Zenon, <1>1, <1>2, <1>5 DEF Calm, LocalsFollowPc, SleepPCs, UsPCs, HoldPCs, WasWoken
<1> QED
  BY Zenon, <1>2, <1>3, <1>4, <1>5, <1>6, CalmIsSimple DEF WaitsLong

\* The load of the fast path.
LEMMA LockLoadCalm ==
  ASSUME MuInv, NEW t \in Threads, OnlyMoves(t), LockLoad(t)
  PROVE  Simple(t) /\ Calm(t)
<1>1. TypeOK /\ LocalInv(t) /\ LocalsFollowPc(t)
  BY Zenon, ThreadKnows
<1>2. /\ pc[t] = "lock_load" /\ pc'[t] \in {"lock_cas", "idle", "slow"} /\ word' = word
      /\ waiters' = waiters /\ us' = us /\ waiting' = waiting /\ removed' = removed
      /\ same' = same /\ truth' = truth /\ sem' = sem /\ ls' = ls /\ ret' = ret
      /\ changed' = changed /\ (pc'[t] = "slow" => cond'[t] = NoCond)
      /\ \A u \in Threads \ {t} : cond'[u] = cond[u]
  BY Zenon, <1>1 DEF TypeOK, LockLoad, FastPathFailed, Goto, muVars, clientVars
<1>3. Moves(t)
  BY Zenon, <1>1, <1>2 DEF Moves
<1>4. LocalsFollowPc(t)'
  BY Zenon, <1>1, <1>2 DEF LocalsFollowPc, SleepPCs, UsPCs, Scanning
<1>5. Calm(t)
  BY Zenon, <1>1, <1>2 DEF Calm, LocalsFollowPc, SleepPCs, UsPCs, HoldPCs, WasWoken
<1> QED
  BY Zenon, <1>2, <1>3, <1>4, <1>5, CalmIsSimple DEF WaitsLong

\* The second CAS of the fast path.
LEMMA LockCasCalm ==
  ASSUME MuInv, NEW t \in Threads, OnlyMoves(t), LockCas(t)
  PROVE  Simple(t) /\ Calm(t)
<1>1. TypeOK /\ LocalInv(t) /\ LocalsFollowPc(t)
  BY Zenon, ThreadKnows
<1>2. /\ pc[t] = "lock_cas" /\ pc'[t] \in {"held", "mw_eval", "idle", "slow"}
      /\ waiters' = waiters /\ us' = us /\ waiting' = waiting /\ removed' = removed
      /\ same' = same /\ truth' = truth /\ sem' = sem /\ ret' = ret
      /\ pc'[t] = "slow" => cond'[t] = NoCond
      /\ pc'[t] = "mw_eval" => ret[t] = "mu_wait"
      /\ \A u \in Threads \ {t} : cond'[u] = cond[u] /\ ls'[u] = ls[u] /\ changed'[u] = changed[u]
  BY <1>1 DEF TypeOK, LockCas, FastPathFailed, Acquired, Goto
<1>3. Moves(t)
  BY Zenon, <1>1, <1>2 DEF Moves
<1>4. LocalsFollowPc(t)'
  BY Zenon, <1>1, <1>2 DEF LocalsFollowPc, SleepPCs, UsPCs, Scanning
<1>5. \A b \in {"WAITING", "CONDITION", "ALL_FALSE", "DESIG_WAKER", "LONG_WAIT"} :
        b \in word'.bits <=> b \in word.bits
  BY <1>1 DEF TypeOK, LockCas, FastPathFailed, AddToAcquire, SetClear, ClearOnAcquire,
     LockTypes
<1>6. Calm(t)
  BY Zenon, <1>1, <1>2, <1>5 DEF Calm, LocalsFollowPc, SleepPCs, UsPCs, HoldPCs, WasWoken
<1> QED
  BY Zenon, <1>2, <1>3, <1>4, <1>5, <1>6, CalmIsSimple DEF WaitsLong

\* nsync_mu_lock_slow_ acquires.
LEMMA SlowAcquireCalm ==
  ASSUME MuInv, NEW t \in Threads, OnlyMoves(t), SlowAcquire(t)
  PROVE  Simple(t) /\ Calm(t)
<1>1. TypeOK /\ LocalInv(t) /\ Remembers(t) /\ ShowsInWord(t) /\ LocalsFollowPc(t)
  BY Zenon, ThreadKnows
<1>2. /\ pc[t] = "slow" /\ pc'[t] \in {"held", "mw_eval"}
      /\ waiters' = waiters /\ us' = us /\ waiting' = waiting /\ removed' = removed
      /\ same' = same /\ truth' = truth
      /\ sem' = sem /\ ret' = ret /\ cond' = cond /\ l_type' = l_type
      /\ pc'[t] = "mw_eval" => ret[t] = "mu_wait"
      /\ \A u \in Threads \ {t} : ls'[u] = ls[u] /\ changed'[u] = changed[u]
  BY Zenon, <1>1 DEF TypeOK, SlowAcquire, Acquired, Goto, waiterVars
<1>3. Moves(t)
  BY Zenon, <1>1, <1>2 DEF Moves
<1>4. LocalsFollowPc(t)'
  BY Zenon, <1>1, <1>2 DEF LocalsFollowPc, SleepPCs, UsPCs, Scanning
<1>5. /\ \A b \in {"WAITING", "CONDITION", "ALL_FALSE"} : b \in word'.bits <=> b \in word.bits
      /\ "DESIG_WAKER" \in word'.bits => "DESIG_WAKER" \in word.bits /\ ~ls[t].clear
      /\ "LONG_WAIT" \in word'.bits =>
           "LONG_WAIT" \in word.bits /\ ls[t].wait_count # LONG_WAIT_THRESHOLD
  BY Zenon, <1>1, <1>2 DEF TypeOK, SlowAcquire, AddToAcquire, SetClear, ClearOnAcquire,
     ClearDesig, LongWait, LockTypes
<1>6. Calm(t)
  BY Zenon, <1>1, <1>2, <1>5 DEF Calm, LocalsFollowPc, SleepPCs, UsPCs, HoldPCs, WasWoken
<1> QED
  BY Zenon, <1>2, <1>3, <1>4, <1>5, <1>6, CalmIsSimple DEF WaitsLong

\* It takes the spinlock to queue itself.
LEMMA SlowSpinlockCalm ==
  ASSUME MuInv, NEW t \in Threads, OnlyMoves(t), SlowSpinlock(t)
  PROVE  Simple(t) /\ Calm(t)
<1>1. TypeOK /\ LocalInv(t) /\ Remembers(t) /\ ShowsInWord(t) /\ LocalsFollowPc(t)
  BY Zenon, ThreadKnows
<1>2. /\ pc[t] = "slow" /\ pc'[t] = "ls_queue"
      /\ waiters' = waiters /\ us' = us /\ waiting' = waiting /\ removed' = removed
      /\ same' = same /\ truth' = truth
      /\ sem' = sem /\ ret' = ret /\ cond' = cond /\ l_type' = l_type /\ ls' = ls /\ changed' = changed
  BY Zenon, <1>1 DEF TypeOK, SlowSpinlock, Goto, waiterVars, localVars,
     clientVars
<1>3. Moves(t)
  BY Zenon, <1>1, <1>2 DEF Moves
<1>4. LocalsFollowPc(t)'
  BY Zenon, <1>1, <1>2 DEF LocalsFollowPc, SleepPCs, UsPCs, Scanning
<1>5. /\ "WAITING" \in word'.bits /\ "ALL_FALSE" \notin word'.bits
      /\ "CONDITION" \in word'.bits <=> "CONDITION" \in word.bits
      /\ "DESIG_WAKER" \in word'.bits => "DESIG_WAKER" \in word.bits /\ ~ls[t].clear
      /\ "LONG_WAIT" \in word'.bits =>
           "LONG_WAIT" \in word.bits \/ ls[t].wait_count = LONG_WAIT_THRESHOLD
  BY Zenon, <1>1, <1>2 DEF TypeOK, SlowSpinlock, SetClear, SetToQueue, ClearToQueue,
     SetWhenWaiting, ClearDesig, LongWait, LockTypes
<1>6. Calm(t)
  BY Zenon, <1>1, <1>2, <1>5 DEF Calm, LocalsFollowPc, SleepPCs, UsPCs, HoldPCs, WasWoken
<1> QED
  BY Zenon, <1>2, <1>3, <1>4, <1>5, <1>6, CalmIsSimple DEF WaitsLong

\* The test of its wait loop.
LEMMA SlowTestCalm ==
  ASSUME MuInv, NEW t \in Threads, OnlyMoves(t), SlowTest(t)
  PROVE  Simple(t) /\ Calm(t)
<1>1. TypeOK /\ LocalInv(t) /\ Remembers(t) /\ ShowsInWord(t) /\ LocalsFollowPc(t)
  BY Zenon, ThreadKnows
<1>2. /\ pc[t] = "ls_wait" /\ word' = word
      /\ waiters' = waiters /\ us' = us /\ waiting' = waiting /\ removed' = removed
      /\ same' = same /\ truth' = truth
      /\ sem' = sem /\ ret' = ret /\ cond' = cond /\ l_type' = l_type /\ changed' = changed
      /\ \/ pc'[t] = "ls_p" /\ waiting[t] /\ ls' = ls
         \/ pc'[t] = "slow" /\ ~waiting[t] /\ ls'[t].clear
      /\ ls[t].wait_count = LONG_WAIT_THRESHOLD
           => ls'[t].wait_count = LONG_WAIT_THRESHOLD
      /\ \A u \in Threads \ {t} : ls'[u] = ls[u]
  BY <1>1 DEF TypeOK, LsType, SlowTest, Goto, muVars, waiterVars,
     clientVars
<1>3. Moves(t)
  BY Zenon, <1>1, <1>2 DEF Moves
<1>4. LocalsFollowPc(t)'
  BY Zenon, <1>1, <1>2 DEF LocalsFollowPc, SleepPCs, UsPCs, Scanning
<1>5. \A b \in {"WAITING", "CONDITION", "ALL_FALSE", "DESIG_WAKER", "LONG_WAIT"} :
        b \in word'.bits <=> b \in word.bits
  BY Zenon, <1>1, <1>2 DEF TypeOK, SlowTest
<1>6. Calm(t)
  BY Zenon, <1>1, <1>2, <1>5 DEF Calm, LocalsFollowPc, SleepPCs, UsPCs, HoldPCs, WasWoken
<1> QED
  BY Zenon, <1>2, <1>3, <1>4, <1>5, <1>6, CalmIsSimple DEF WaitsLong

\* Its semaphore wait ends.
LEMMA SlowPCalm ==
  ASSUME MuInv, NEW t \in Threads, OnlyMoves(t), SlowP(t)
  PROVE  Simple(t) /\ Calm(t)
<1>1. TypeOK /\ LocalInv(t) /\ Remembers(t) /\ ShowsInWord(t) /\ LocalsFollowPc(t)
  BY Zenon, ThreadKnows
<1>2. /\ pc[t] = "ls_p" /\ pc'[t] = "ls_wait" /\ word' = word
      /\ waiters' = waiters /\ us' = us /\ waiting' = waiting /\ removed' = removed
      /\ same' = same /\ truth' = truth
      /\ ret' = ret /\ cond' = cond /\ l_type' = l_type /\ ls' = ls /\ changed' = changed
      /\ \A u \in Threads \ {t} : sem'[u] = sem[u]
  BY Zenon, <1>1 DEF TypeOK, SlowP, SemP, Goto, muVars, localVars, clientVars
<1>3. Moves(t)
  BY Zenon, <1>1, <1>2 DEF Moves
<1>4. LocalsFollowPc(t)'
  BY Zenon, <1>1, <1>2 DEF LocalsFollowPc, SleepPCs, UsPCs, Scanning
<1>5. \A b \in {"WAITING", "CONDITION", "ALL_FALSE", "DESIG_WAKER", "LONG_WAIT"} :
        b \in word'.bits <=> b \in word.bits
  BY Zenon, <1>1, <1>2 DEF TypeOK, SlowP
<1>6. Calm(t)
  BY Zenon, <1>1, <1>2, <1>5 DEF Calm, LocalsFollowPc, SleepPCs, UsPCs, HoldPCs, WasWoken
<1> QED
  BY Zenon, <1>2, <1>3, <1>4, <1>5, <1>6, CalmIsSimple DEF WaitsLong

\* The start of nsync_mu_unlock, nsync_mu_runlock and
\* nsync_mu_unlock_without_wakeup.
LEMMA UnlockCallCalm ==
  ASSUME MuInv, NEW t \in Threads, OnlyMoves(t), NEW how \in {"unlock", "without_wakeup"},
         how = "without_wakeup" => changed[t] # "made_true", UnlockCall(t, how)
  PROVE  Simple(t) /\ Calm(t)
<1>1. TypeOK /\ LocalInv(t) /\ Remembers(t) /\ ShowsInWord(t) /\ LocalsFollowPc(t)
  BY Zenon, ThreadKnows
<1>2. /\ pc[t] = "held" /\ pc'[t] \in {"idle", "ul_load"}
      /\ waiters' = waiters /\ us' = us /\ waiting' = waiting /\ removed' = removed
      /\ same' = same /\ truth' = truth
      /\ sem' = sem /\ cond' = cond /\ ls' = ls /\ changed' = changed
      /\ pc'[t] = "ul_load" => ret'[t] = how /\ l_type' = l_type /\ word' = word
      /\ pc'[t] = "idle" => word'.bits = {}
      /\ \A u \in Threads \ {t} : ret'[u] = ret[u]
  BY <1>1 DEF TypeOK, UnlockCall, Goto, waiterVars, clientVars, ZeroWord
<1>3. Moves(t)
  BY Zenon, <1>1, <1>2 DEF Moves
<1>4. LocalsFollowPc(t)'
  BY Zenon, <1>1, <1>2 DEF LocalsFollowPc, SleepPCs, UsPCs, Scanning
<1>5. \/ word' = word
      \/ /\ word'.bits = {} /\ pc'[t] = "idle"
         /\ word.bits \subseteq {"WLOCK"}
  <2>1. CASE word = AddToAcquire(ZeroWord, l_type[t])
    <3>1. word.bits \subseteq {"WLOCK"}
      BY Zenon, <2>1 DEF AddToAcquire, ZeroWord
    <3> QED
      BY Zenon, <1>2, <2>1, <3>1 DEF UnlockCall
  <2>2. CASE word # AddToAcquire(ZeroWord, l_type[t])
    BY Zenon, <2>2 DEF UnlockCall
  <2> QED
    BY Zenon, <2>1, <2>2
<1>6. Calm(t)
  BY Zenon, <1>1, <1>2, <1>5 DEF Calm, LocalsFollowPc, SleepPCs, UsPCs, HoldPCs, WasWoken
<1> QED
  BY Zenon, <1>2, <1>3, <1>4, <1>5, <1>6, CalmIsSimple DEF WaitsLong

\* The load of a release call.
LEMMA UnlockLoadCalm ==
  ASSUME MuInv, NEW t \in Threads, OnlyMoves(t), UnlockLoad(t)
  PROVE  Simple(t) /\ Calm(t)
<1>1. TypeOK /\ LocalInv(t) /\ Remembers(t) /\ ShowsInWord(t) /\ LocalsFollowPc(t)
  BY Zenon, ThreadKnows
<1>0. ~UnlockPanics(word, l_type[t])
  BY Zenon, <1>1 DEF TypeOK, ShowsInWord, HoldsWrite, HoldsRead, HoldPCs, UnlockPanics,
     UnlockLoad, LockTypes, Word
<1>2. /\ pc[t] = "ul_load" /\ pc'[t] \in {"us", "ul_cas"} /\ word' = word
      /\ waiters' = waiters /\ us' = us /\ waiting' = waiting /\ removed' = removed
      /\ same' = same /\ truth' = truth
      /\ sem' = sem /\ ret' = ret /\ cond' = cond /\ l_type' = l_type /\ ls' = ls /\ changed' = changed
  BY Zenon, <1>0, <1>1 DEF TypeOK, UnlockLoad, Goto, muVars, waiterVars, clientVars
<1>3. Moves(t)
  BY Zenon, <1>1, <1>2 DEF Moves
<1>4. LocalsFollowPc(t)'
  BY Zenon, <1>1, <1>2 DEF LocalsFollowPc, SleepPCs, UsPCs, Scanning
<1>5. \A b \in {"WAITING", "CONDITION", "ALL_FALSE", "DESIG_WAKER", "LONG_WAIT"} :
        b \in word'.bits <=> b \in word.bits
  BY Zenon, <1>1, <1>2 DEF TypeOK, UnlockLoad
<1>6. Calm(t)
  BY Zenon, <1>1, <1>2, <1>5 DEF Calm, LocalsFollowPc, SleepPCs, UsPCs, HoldPCs, WasWoken
<1> QED
  BY Zenon, <1>2, <1>3, <1>4, <1>5, <1>6, CalmIsSimple DEF WaitsLong

\* The CAS of a release call.
LEMMA UnlockCasCalm ==
  ASSUME MuInv, NEW t \in Threads, OnlyMoves(t), UnlockCas(t)
  PROVE  Simple(t) /\ Calm(t)
<1>1. TypeOK /\ LocalInv(t) /\ Remembers(t) /\ ShowsInWord(t) /\ LocalsFollowPc(t)
  BY Zenon, ThreadKnows
<1>2. /\ pc[t] = "ul_cas" /\ pc'[t] \in {"us", "mw_wait", "idle"}
      /\ waiters' = waiters /\ us' = us /\ waiting' = waiting /\ removed' = removed
      /\ same' = same /\ truth' = truth
      /\ sem' = sem /\ cond' = cond /\ ls' = ls /\ changed' = changed
      /\ pc'[t] = "us" => ret' = ret /\ l_type' = l_type /\ word' = word
      /\ pc'[t] = "mw_wait" => ret'[t] = "mu_wait"
      /\ \A u \in Threads \ {t} : ret'[u] = ret[u]
  BY <1>1 DEF TypeOK, UnlockCas, Released, Goto, waiterVars, clientVars
<1>3. Moves(t)
  BY Zenon, <1>1, <1>2 DEF Moves
<1>4. LocalsFollowPc(t)'
  BY Zenon, <1>1, <1>2 DEF LocalsFollowPc, SleepPCs, UsPCs, Scanning
<1>5. /\ \A b \in {"WAITING", "CONDITION", "DESIG_WAKER", "LONG_WAIT"} :
           b \in word'.bits <=> b \in word.bits
      /\ "ALL_FALSE" \in word'.bits =>
           /\ "ALL_FALSE" \in word.bits
           /\ pc'[t] = "us" \/ l_type[t] = "reader" \/ ret[t] = "without_wakeup"
  BY <1>1, <1>2 DEF TypeOK, UnlockCas, Released, Goto, UnlockedWord, SubToRelease, SetClear,
     ClearOnUncontendedRelease, LockTypes
<1>6. Calm(t)
  BY Zenon, <1>1, <1>2, <1>5 DEF Calm, LocalsFollowPc, SleepPCs, UsPCs, HoldPCs, WasWoken
<1> QED
  BY Zenon, <1>2, <1>3, <1>4, <1>5, <1>6, CalmIsSimple DEF WaitsLong

\* nsync_mu_unlock_slow_ releases with nobody to wake.
LEMMA UsJustReleaseCalm ==
  ASSUME MuInv, NEW t \in Threads, OnlyMoves(t), UsJustRelease(t)
  PROVE  Simple(t) /\ Calm(t)
<1>1. TypeOK /\ LocalInv(t) /\ Remembers(t) /\ ShowsInWord(t) /\ LocalsFollowPc(t)
  BY Zenon, ThreadKnows
<1>2. /\ pc[t] = "us" /\ pc'[t] \in {"mw_wait", "idle"}
      /\ waiters' = waiters /\ us' = us /\ waiting' = waiting /\ removed' = removed
      /\ same' = same /\ truth' = truth
      /\ sem' = sem /\ cond' = cond /\ ls' = ls /\ changed' = changed
      /\ ret[t] = "mu_wait" => pc'[t] = "mw_wait" /\ ret' = ret /\ l_type' = l_type
      /\ ret[t] # "mu_wait" => pc'[t] = "idle"
      /\ \A u \in Threads \ {t} : ret'[u] = ret[u]
  BY Zenon, <1>1 DEF TypeOK, UsJustRelease, Released, Goto, waiterVars, clientVars
<1>3. Moves(t)
  BY Zenon, <1>1, <1>2 DEF Moves
<1>4. LocalsFollowPc(t)'
  BY Zenon, <1>1, <1>2 DEF LocalsFollowPc, SleepPCs, UsPCs, Scanning
<1>5. /\ \A b \in {"WAITING", "CONDITION", "DESIG_WAKER", "LONG_WAIT"} :
           b \in word'.bits <=> b \in word.bits
      /\ "ALL_FALSE" \in word'.bits =>
           "ALL_FALSE" \in word.bits /\ l_type[t] = "reader"
  BY Zenon, <1>1, <1>2 DEF TypeOK, UsJustRelease, SubToRelease, SetClear,
     ClearOnUncontendedRelease, LockTypes
<1>6. Calm(t)
  BY Zenon, <1>1, <1>2, <1>5 DEF Calm, LocalsFollowPc, SleepPCs, UsPCs, HoldPCs, WasWoken
<1> QED
  BY Zenon, <1>2, <1>3, <1>4, <1>5, <1>6, CalmIsSimple DEF WaitsLong

\* A call of nsync_mu_wait or nsync_mu_wait_with_deadline.
LEMMA MuWaitCallCalm ==
  ASSUME MuInv, NEW t \in Threads, OnlyMoves(t), NEW c \in Conds \cup {NoCond},
         NEW timed \in BOOLEAN, MuWaitCall(t, c, timed)
  PROVE  Simple(t) /\ Calm(t)
<1>1. TypeOK /\ LocalInv(t) /\ Remembers(t) /\ ShowsInWord(t) /\ LocalsFollowPc(t)
  BY Zenon, ThreadKnows
<1>0. AnyLock(word) /\ (l_type[t] = "writer" => word.readers = 0)
  BY Zenon, <1>1 DEF TypeOK, ShowsInWord, HoldsWrite, HoldsRead, HoldPCs, AnyLock,
     MuWaitCall, LockTypes, Word
<1>2. /\ pc[t] = "held" /\ pc'[t] \in {"held", "mw_spin"} /\ word' = word
      /\ waiters' = waiters /\ us' = us /\ waiting' = waiting /\ removed' = removed
      /\ same' = same /\ truth' = truth
      /\ sem' = sem /\ cond' = cond /\ ls' = ls /\ changed' = changed
      /\ pc'[t] = "mw_spin" => ret'[t] = "mu_wait"
      /\ l_type[t] = "writer" => l_type'[t] = "writer"
      /\ \A u \in Threads \ {t} : ret'[u] = ret[u]
  BY <1>0, <1>1 DEF TypeOK, MuWaitCall, Goto, muVars, waiterVars, Word
<1>3. Moves(t)
  BY Zenon, <1>1, <1>2 DEF Moves
<1>4. LocalsFollowPc(t)'
  BY Zenon, <1>1, <1>2 DEF LocalsFollowPc, SleepPCs, UsPCs, Scanning
<1>5. \A b \in {"WAITING", "CONDITION", "ALL_FALSE", "DESIG_WAKER", "LONG_WAIT"} :
        b \in word'.bits <=> b \in word.bits
  BY Zenon, <1>1, <1>2 DEF TypeOK, MuWaitCall
<1>6. Calm(t)
  BY Zenon, <1>1, <1>2, <1>5 DEF Calm, LocalsFollowPc, SleepPCs, UsPCs, HoldPCs, WasWoken
<1> QED
  BY Zenon, <1>2, <1>3, <1>4, <1>5, <1>6, CalmIsSimple DEF WaitsLong

\* The test of the wait loop.
LEMMA MwTestCalm ==
  ASSUME MuInv, NEW t \in Threads, OnlyMoves(t), MwTest(t)
  PROVE  Simple(t) /\ Calm(t)
<1>1. TypeOK /\ LocalInv(t) /\ Remembers(t) /\ ShowsInWord(t) /\ LocalsFollowPc(t)
  BY Zenon, ThreadKnows
<1>2. /\ pc[t] = "mw_wait" /\ word' = word
      /\ waiters' = waiters /\ us' = us /\ waiting' = waiting /\ removed' = removed
      /\ same' = same /\ truth' = truth
      /\ sem' = sem /\ ret' = ret /\ l_type' = l_type /\ changed' = changed
      /\ \/ pc'[t] = "mw_p" /\ waiting[t] /\ cond' = cond /\ ls' = ls
         \/ pc'[t] = "slow" /\ ~waiting[t] /\ cond'[t] = NoCond /\ ls'[t].clear
      /\ \A u \in Threads \ {t} : cond'[u] = cond[u] /\ ls'[u] = ls[u]
  BY <1>1 DEF TypeOK, MwTest, Goto, muVars, clientVars
<1>3. Moves(t)
  BY Zenon, <1>1, <1>2 DEF Moves
<1>4. LocalsFollowPc(t)'
  BY Zenon, <1>1, <1>2 DEF LocalsFollowPc, SleepPCs, UsPCs, Scanning
<1>5. \A b \in {"WAITING", "CONDITION", "ALL_FALSE", "DESIG_WAKER", "LONG_WAIT"} :
        b \in word'.bits <=> b \in word.bits
  BY Zenon, <1>1, <1>2 DEF TypeOK, MwTest
<1>6. Calm(t)
  BY Zenon, <1>1, <1>2, <1>5 DEF Calm, LocalsFollowPc, SleepPCs, UsPCs, HoldPCs, WasWoken
<1> QED
  BY Zenon, <1>2, <1>3, <1>4, <1>5, <1>6, CalmIsSimple DEF WaitsLong

\* Its semaphore wait ends.
LEMMA MwPCalm ==
  ASSUME MuInv, NEW t \in Threads, OnlyMoves(t), MwP(t)
  PROVE  Simple(t) /\ Calm(t)
<1>1. TypeOK /\ LocalInv(t) /\ Remembers(t) /\ ShowsInWord(t) /\ LocalsFollowPc(t)
  BY Zenon, ThreadKnows
<1>2. /\ pc[t] = "mw_p" /\ pc'[t] = "mw_wait" /\ word' = word
      /\ waiters' = waiters /\ us' = us /\ waiting' = waiting /\ removed' = removed
      /\ same' = same /\ truth' = truth
      /\ ret' = ret /\ cond' = cond /\ l_type' = l_type /\ ls' = ls /\ changed' = changed
      /\ \A u \in Threads \ {t} : sem'[u] = sem[u]
  BY Zenon, <1>1 DEF TypeOK, MwP, SemP, Goto, muVars, localVars, clientVars
<1>3. Moves(t)
  BY Zenon, <1>1, <1>2 DEF Moves
<1>4. LocalsFollowPc(t)'
  BY Zenon, <1>1, <1>2 DEF LocalsFollowPc, SleepPCs, UsPCs, Scanning
<1>5. \A b \in {"WAITING", "CONDITION", "ALL_FALSE", "DESIG_WAKER", "LONG_WAIT"} :
        b \in word'.bits <=> b \in word.bits
  BY Zenon, <1>1, <1>2 DEF TypeOK, MwP
<1>6. Calm(t)
  BY Zenon, <1>1, <1>2, <1>5 DEF Calm, LocalsFollowPc, SleepPCs, UsPCs, HoldPCs, WasWoken
<1> QED
  BY Zenon, <1>2, <1>3, <1>4, <1>5, <1>6, CalmIsSimple DEF WaitsLong

\* The deadline passes.
LEMMA MwExpireCalm ==
  ASSUME MuInv, NEW t \in Threads, OnlyMoves(t), MwExpire(t)
  PROVE  Simple(t) /\ Calm(t)
<1>1. TypeOK /\ LocalInv(t) /\ Remembers(t) /\ ShowsInWord(t) /\ LocalsFollowPc(t)
  BY Zenon, ThreadKnows
<1>2. /\ pc[t] = "mw_p" /\ pc'[t] \in {"mt_load", "mw_wait"} /\ word' = word
      /\ waiters' = waiters /\ us' = us /\ waiting' = waiting /\ removed' = removed
      /\ same' = same /\ truth' = truth
      /\ sem' = sem /\ ret' = ret /\ cond' = cond /\ l_type' = l_type /\ ls' = ls /\ changed' = changed
  BY Zenon, <1>1 DEF TypeOK, MwExpire, Goto, muVars, waiterVars, clientVars
<1>3. Moves(t)
  BY Zenon, <1>1, <1>2 DEF Moves
<1>4. LocalsFollowPc(t)'
  BY Zenon, <1>1, <1>2 DEF LocalsFollowPc, SleepPCs, UsPCs, Scanning
<1>5. \A b \in {"WAITING", "CONDITION", "ALL_FALSE", "DESIG_WAKER", "LONG_WAIT"} :
        b \in word'.bits <=> b \in word.bits
  BY Zenon, <1>1, <1>2 DEF TypeOK, MwExpire
<1>6. Calm(t)
  BY Zenon, <1>1, <1>2, <1>5 DEF Calm, LocalsFollowPc, SleepPCs, UsPCs, HoldPCs, WasWoken
<1> QED
  BY Zenon, <1>2, <1>3, <1>4, <1>5, <1>6, CalmIsSimple DEF WaitsLong

\* The load after the deadline.
LEMMA MtLoadCalm ==
  ASSUME MuInv, NEW t \in Threads, OnlyMoves(t), MtLoad(t)
  PROVE  Simple(t) /\ Calm(t)
<1>1. TypeOK /\ LocalInv(t) /\ Remembers(t) /\ ShowsInWord(t) /\ LocalsFollowPc(t)
  BY Zenon, ThreadKnows
<1>2. /\ pc[t] = "mt_load" /\ pc'[t] \in {"mt_cas", "mt_mark"} /\ word' = word
      /\ waiters' = waiters /\ us' = us /\ waiting' = waiting /\ removed' = removed
      /\ same' = same /\ truth' = truth
      /\ sem' = sem /\ ret' = ret /\ cond' = cond /\ l_type' = l_type /\ ls' = ls /\ changed' = changed
  BY Zenon, <1>1 DEF TypeOK, MtLoad, Goto, muVars, waiterVars, clientVars
<1>3. Moves(t)
  BY Zenon, <1>1, <1>2 DEF Moves
<1>4. LocalsFollowPc(t)'
  BY Zenon, <1>1, <1>2 DEF LocalsFollowPc, SleepPCs, UsPCs, Scanning
<1>5. \A b \in {"WAITING", "CONDITION", "ALL_FALSE", "DESIG_WAKER", "LONG_WAIT"} :
        b \in word'.bits <=> b \in word.bits
  BY Zenon, <1>1, <1>2 DEF TypeOK, MtLoad
<1>6. Calm(t)
  BY Zenon, <1>1, <1>2, <1>5 DEF Calm, LocalsFollowPc, SleepPCs, UsPCs, HoldPCs, WasWoken
<1> QED
  BY Zenon, <1>2, <1>3, <1>4, <1>5, <1>6, CalmIsSimple DEF WaitsLong

\* The CAS that takes the spinlock and the write lock.
LEMMA MtCasCalm ==
  ASSUME MuInv, NEW t \in Threads, OnlyMoves(t), MtCas(t)
  PROVE  Simple(t) /\ Calm(t)
<1>1. TypeOK /\ LocalInv(t) /\ Remembers(t) /\ ShowsInWord(t) /\ LocalsFollowPc(t)
  BY Zenon, ThreadKnows
<1>2. /\ pc[t] = "mt_cas" /\ pc'[t] \in {"mt_check", "mt_mark", "mt_load"}
      /\ waiters' = waiters /\ us' = us /\ waiting' = waiting /\ removed' = removed
      /\ same' = same /\ truth' = truth
      /\ sem' = sem /\ ret' = ret /\ cond' = cond /\ l_type' = l_type /\ ls' = ls /\ changed' = changed
  BY Zenon, <1>1 DEF TypeOK, MtCas, Goto, waiterVars, localVars, clientVars
<1>3. Moves(t)
  BY Zenon, <1>1, <1>2 DEF Moves
<1>4. LocalsFollowPc(t)'
  BY Zenon, <1>1, <1>2 DEF LocalsFollowPc, SleepPCs, UsPCs, Scanning
<1>5. \A b \in {"WAITING", "CONDITION", "ALL_FALSE", "DESIG_WAKER", "LONG_WAIT"} :
        b \in word'.bits <=> b \in word.bits
  <2>1. word' = word \/ word' = MtAcquired(word)
    BY Zenon DEF MtCas
  <2>2. MtAcquired(word).bits
          = ((word.bits \cup {"WLOCK"}) \cup {"SPINLOCK"}) \ {"WRITER_WAITING"}
    BY Zenon DEF MtAcquired, SetClear, AddToAcquire, ClearOnAcquire
  <2> QED
    BY Zenon, <2>1, <2>2
<1>6. Calm(t)
  BY Zenon, <1>1, <1>2, <1>5 DEF Calm, LocalsFollowPc, SleepPCs, UsPCs, HoldPCs, WasWoken
<1> QED
  BY Zenon, <1>2, <1>3, <1>4, <1>5, <1>6, CalmIsSimple DEF WaitsLong

\* The CAS that sets MU_WRITER_WAITING.
LEMMA MtMarkCalm ==
  ASSUME MuInv, NEW t \in Threads, OnlyMoves(t), MtMark(t)
  PROVE  Simple(t) /\ Calm(t)
<1>1. TypeOK /\ LocalInv(t) /\ Remembers(t) /\ ShowsInWord(t) /\ LocalsFollowPc(t)
  BY Zenon, ThreadKnows
<1>2. /\ pc[t] = "mt_mark" /\ pc'[t] = "mt_load"
      /\ waiters' = waiters /\ us' = us /\ waiting' = waiting /\ removed' = removed
      /\ same' = same /\ truth' = truth
      /\ sem' = sem /\ ret' = ret /\ cond' = cond /\ l_type' = l_type /\ ls' = ls /\ changed' = changed
  BY Zenon, <1>1 DEF TypeOK, MtMark, Goto, waiterVars, localVars, clientVars
<1>3. Moves(t)
  BY Zenon, <1>1, <1>2 DEF Moves
<1>4. LocalsFollowPc(t)'
  BY Zenon, <1>1, <1>2 DEF LocalsFollowPc, SleepPCs, UsPCs, Scanning
<1>5. \A b \in {"WAITING", "CONDITION", "ALL_FALSE", "DESIG_WAKER", "LONG_WAIT"} :
        b \in word'.bits <=> b \in word.bits
  BY Zenon, <1>1, <1>2 DEF TypeOK, MtMark, SetClear
<1>6. Calm(t)
  BY Zenon, <1>1, <1>2, <1>5 DEF Calm, LocalsFollowPc, SleepPCs, UsPCs, HoldPCs, WasWoken
<1> QED
  BY Zenon, <1>2, <1>3, <1>4, <1>5, <1>6, CalmIsSimple DEF WaitsLong

\* The condition is evaluated again.
LEMMA MwEvalCalm ==
  ASSUME MuInv, NEW t \in Threads, OnlyMoves(t), MwEval(t)
  PROVE  Simple(t) /\ Calm(t)
<1>1. TypeOK /\ LocalInv(t) /\ Remembers(t) /\ ShowsInWord(t) /\ LocalsFollowPc(t)
  BY Zenon, ThreadKnows
<1>2. /\ pc[t] = "mw_eval" /\ pc'[t] \in {"held", "mw_spin"} /\ word' = word
      /\ waiters' = waiters /\ us' = us /\ waiting' = waiting /\ removed' = removed
      /\ same' = same /\ truth' = truth
      /\ sem' = sem /\ ret' = ret /\ cond' = cond /\ l_type' = l_type /\ ls' = ls /\ changed' = changed
  BY Zenon, <1>1 DEF TypeOK, Remembers, MwEval, Goto, muVars, waiterVars,
     clientVars
<1>3. Moves(t)
  BY Zenon, <1>1, <1>2 DEF Moves
<1>4. LocalsFollowPc(t)'
  BY Zenon, <1>1, <1>2 DEF LocalsFollowPc, SleepPCs, UsPCs, Scanning
<1>5. \A b \in {"WAITING", "CONDITION", "ALL_FALSE", "DESIG_WAKER", "LONG_WAIT"} :
        b \in word'.bits <=> b \in word.bits
  BY Zenon, <1>1, <1>2 DEF TypeOK, MwEval
<1>6. Calm(t)
  BY Zenon, <1>1, <1>2, <1>5 DEF Calm, LocalsFollowPc, SleepPCs, UsPCs, HoldPCs, WasWoken
<1> QED
  BY Zenon, <1>2, <1>3, <1>4, <1>5, <1>6, CalmIsSimple DEF WaitsLong


-----------------------------------------------------------------------------
(* A step of t rearranges mu->waiters and the lists of t, and leaves the   *)
(* lists of the other threads alone.                                       *)

\* The queues, and the lists, that a step of t can change.
Queues(t) == Range(waiters) \cup Range(us[t].new) \cup Range(us[t].seen)
Own(t) == Range(waiters) \cup Local(t)

\* What ListsAreApart says of them.
OwnApart(t) ==
  /\ IsInjective(waiters)
  /\ IsInjective(us[t].new) /\ IsInjective(us[t].seen) /\ IsInjective(ToWake(t))
  /\ Range(us[t].new) \cap Range(us[t].seen) = {}
  /\ Range(ToWake(t)) \cap (Range(us[t].new) \cup Range(us[t].seen)) = {}
  /\ Range(waiters) \cap Local(t) = {}

\* A waiter that enters the lists was not asleep, one that leaves them is no
\* longer, and nothing else changes.
SleepersAreOwned(t) ==
  /\ \A x \in Own(t)' : x \in Own(t) \/ ~Asleep(x)
  /\ \A x \in Threads : Asleep(x)' <=> x \in Own(t)' \/ (x \notin Own(t) /\ Asleep(x))

\* The lists of the other threads.
LEMMA OtherLists ==
  ASSUME NEW t \in Threads, Moves(t), NEW u \in Threads, u # t
  PROVE  /\ pc'[u] = pc[u] /\ us'[u] = us[u]
         /\ ToWake(u)' = ToWake(u) /\ Local(u)' = Local(u)
<1>1. pc'[u] = pc[u] /\ us'[u] = us[u]
  BY Zenon DEF Moves, OnlyMoves
<1>2. ToWake(u)' = ToWake(u)
  BY Zenon, <1>1 DEF ToWake
<1> QED
  BY Zenon, <1>1, <1>2 DEF Local

\* The lists stay apart and complete.
LEMMA ListsFollow ==
  ASSUME MuInv, NEW t \in Threads, Moves(t), OwnApart(t)', SleepersAreOwned(t)
  PROVE  ListsAreApart' /\ ListsAreComplete'
<1>1. \A u \in Threads \ {t} : Local(u)' = Local(u) /\ us'[u] = us[u] /\ ToWake(u)' = ToWake(u)
  BY Zenon, OtherLists
<1>2. ASSUME NEW u \in Threads \ {t} PROVE Local(u) \cap Own(t)' = {} /\ Local(u) \cap Own(t) = {}
  <2>1. Local(u) \cap Own(t) = {}
    BY Zenon DEF MuInv, ListsAreApart, Own
  <2>2. ASSUME NEW x \in Local(u), x \in Own(t)' PROVE FALSE
    <3>1. Asleep(x)
      BY Zenon, ListedWait
    <3> QED
      BY Zenon, <2>1, <2>2, <3>1 DEF SleepersAreOwned
  <2> QED
    BY Zenon, <2>1, <2>2
<1>3. ListsAreApart'
  <2>1. ASSUME NEW u \in Threads
        PROVE  /\ IsInjective(us[u].new)' /\ IsInjective(us[u].seen)' /\ IsInjective(ToWake(u))'
               /\ (Range(us[u].new) \cap Range(us[u].seen))' = {}
               /\ (Range(ToWake(u)) \cap (Range(us[u].new) \cup Range(us[u].seen)))' = {}
               /\ (Range(waiters) \cap Local(u))' = {}
    <3>1. CASE u = t
      BY Zenon, <3>1 DEF OwnApart
    <3>2. CASE u # t
      <4>1. u \in Threads \ {t}
        BY Zenon, <3>2
      <4>2. /\ IsInjective(us[u].new) /\ IsInjective(us[u].seen) /\ IsInjective(ToWake(u))
            /\ Range(us[u].new) \cap Range(us[u].seen) = {}
            /\ Range(ToWake(u)) \cap (Range(us[u].new) \cup Range(us[u].seen)) = {}
        BY Zenon DEF MuInv, ListsAreApart
      <4>3. us'[u] = us[u] /\ ToWake(u)' = ToWake(u) /\ Local(u)' = Local(u)
        BY Zenon, <1>1, <4>1
      <4>4. Range(waiters)' \cap Local(u) = {}
        BY Zenon, <1>2, <4>1 DEF Own
      <4> QED
        BY Zenon, <4>2, <4>3, <4>4
    <3> QED
      BY Zenon, <3>1, <3>2
  <2>2. ASSUME NEW u \in Threads, NEW v \in Threads, u # v PROVE Local(u)' \cap Local(v)' = {}
    <3>1. Local(t)' \subseteq Own(t)'
      BY Zenon DEF Own
    <3>2. CASE u = t
      BY Zenon, <1>1, <1>2, <2>2, <3>1, <3>2
    <3>3. CASE v = t
      BY Zenon, <1>1, <1>2, <2>2, <3>1, <3>3
    <3>4. CASE u # t /\ v # t
      <4>1. Local(u) \cap Local(v) = {}
        BY Zenon, <2>2 DEF MuInv, ListsAreApart
      <4>2. Local(u)' = Local(u) /\ Local(v)' = Local(v)
        BY Zenon, <1>1, <3>4
      <4> QED
        BY Zenon, <4>1, <4>2
    <3> QED
      BY Zenon, <3>2, <3>3, <3>4
  <2>3. IsInjective(waiters)'
    BY Zenon DEF OwnApart
  <2> QED
    BY Zenon, <2>1, <2>2, <2>3 DEF ListsAreApart
<1>4. ListsAreComplete'
  <2> SUFFICES ASSUME NEW x \in Threads PROVE Asleep(x)' <=> Listed(x)'
    BY Zenon DEF ListsAreComplete
  <2>1. Listed(x)' <=> x \in Own(t)' \/ \E u \in Threads \ {t} : x \in Local(u)
    BY Zenon, <1>1 DEF Listed, Own
  <2>2. Listed(x) <=> x \in Own(t) \/ \E u \in Threads \ {t} : x \in Local(u)
    BY Zenon DEF Listed, Own
  <2>3. Asleep(x) <=> Listed(x)
    BY Zenon DEF MuInv, ListsAreComplete
  <2>4. Asleep(x)' <=> x \in Own(t)' \/ (x \notin Own(t) /\ Asleep(x))
    BY Zenon DEF SleepersAreOwned
  <2>5. \A u \in Threads \ {t} : x \in Local(u) => x \notin Own(t)
    BY Zenon, <1>2
  <2> QED
    BY Zenon, <2>1, <2>2, <2>3, <2>4, <2>5
<1> QED
  BY Zenon, <1>3, <1>4

\* The waiters to be woken stay marked, and those in the lists stay quiet.
LEMMA StayFollows ==
  ASSUME MuInv, NEW t \in Threads, Moves(t),
         \A p \in Range(ToWake(t))' : removed'[p],
         \A p \in Threads : Asleep(p) /\ removed[p] => removed'[p],
         \A p \in Local(t)' : p # t => pc'[p] \notin {"us", "us_loop", "us_scan"},
         Asleep(t) /\ pc'[t] \in {"us", "us_loop", "us_scan"}
           => pc[t] \in {"us", "us_loop", "us_scan"}
  PROVE  ListedStay'
<1> SUFFICES ASSUME NEW u \in Threads
             PROVE  /\ \A p \in Range(ToWake(u))' : removed'[p]
                    /\ \A p \in Local(u)' \ {u} : pc'[p] \notin {"us", "us_loop", "us_scan"}
  BY Zenon DEF ListedStay
<1>1. CASE u = t
  BY Zenon, <1>1
<1>2. CASE u # t
  <2>1. Local(u)' = Local(u) /\ ToWake(u)' = ToWake(u)
    BY Zenon, <1>2, OtherLists
  <2>2. ASSUME NEW p \in Range(ToWake(u)) PROVE removed'[p]
    <3>1. p \in Threads /\ Asleep(p)
      BY Zenon, ListedWait DEF Local
    <3>2. removed[p]
      BY Zenon DEF MuInv, ListedStay
    <3> QED
      BY Zenon, <3>1, <3>2
  <2>3. ASSUME NEW p \in Local(u) \ {u} PROVE pc'[p] \notin {"us", "us_loop", "us_scan"}
    <3>1. p \in Threads /\ Asleep(p)
      BY Zenon, ListedWait
    <3>2. pc[p] \notin {"us", "us_loop", "us_scan"}
      BY Zenon DEF MuInv, ListedStay
    <3>3. CASE p = t
      BY Zenon, <3>1, <3>2, <3>3
    <3>4. CASE p # t
      BY Zenon, <3>1, <3>2, <3>4 DEF Moves, OnlyMoves
    <3> QED
      BY Zenon, <3>3, <3>4
  <2> QED
    BY Zenon, <2>1, <2>2, <2>3
<1> QED
  BY Zenon, <1>1, <1>2

\* The rings of the other threads' lists stay.
LEMMA RingsFollow ==
  ASSUME MuInv, NEW t \in Threads, Moves(t), SleepersAreOwned(t), ListsAreApart',
         same' \in [Threads -> Threads],
         \A x \in Threads : x \notin Queues(t) /\ x \notin Queues(t)' => same'[x] = same[x],
         \A x \in Queues(t) : x \notin Queues(t)' => same'[x] = x,
         Asleep(t) => cond'[t] = cond[t],
         RingsAreBlocks(same', cond', waiters'),
         RingsAreBlocks(same', cond', us'[t].new),
         RingsAreBlocks(same', cond', us'[t].seen)
  PROVE  Rings'
<1>1. ASSUME NEW x \in Threads, ~Queued(x)' PROVE same'[x] = x
  <2>1. x \notin Queues(t)'
    BY Zenon, <1>1 DEF Queued, Queues
  <2>2. CASE x \in Queues(t)
    BY Zenon, <2>1, <2>2
  <2>3. CASE x \notin Queues(t)
    <3>1. \A u \in Threads \ {t} : us'[u] = us[u]
      BY Zenon, OtherLists
    <3>2. ~Queued(x)
      BY Zenon, <1>1, <2>3, <3>1 DEF Queued, Queues
    <3>3. same[x] = x
      BY Zenon, <3>2 DEF MuInv, Rings
    <3> QED
      BY Zenon, <2>1, <2>3, <3>3
  <2> QED
    BY Zenon, <2>2, <2>3
<1>2. ASSUME NEW u \in Threads
      PROVE  RingsAreBlocks(same', cond', us'[u].new) /\ RingsAreBlocks(same', cond', us'[u].seen)
  <2>1. CASE u = t
    BY Zenon, <2>1
  <2>2. CASE u # t
    <3>1. us'[u] = us[u] /\ Local(u)' = Local(u)
      BY Zenon, <2>2, OtherLists
    <3>2. ASSUME NEW x \in Range(us[u].new) \cup Range(us[u].seen)
          PROVE  same'[x] = same[x] /\ cond'[x] = cond[x]
      <4>1. x \in Local(u)
        BY Zenon DEF Local
      <4>2. x \in Threads /\ Asleep(x)
        BY Zenon, <4>1, ListedWait
      <4>3. x \notin Queues(t)
        BY Zenon, <2>2, <4>1 DEF MuInv, ListsAreApart, Queues, Local
      <4>4. x \notin Queues(t)'
        <5>1. (Local(u)' \cap Local(t)') = {} /\ Range(waiters)' \cap Local(u)' = {}
          BY Zenon, <2>2 DEF ListsAreApart
        <5>2. Queues(t)' \subseteq Range(waiters)' \cup Local(t)'
          BY Zenon DEF Queues, Local
        <5> QED
          BY Zenon, <3>1, <4>1, <5>1, <5>2
      <4>5. cond'[x] = cond[x]
        BY Zenon, <4>2 DEF Moves
      <4> QED
        BY Zenon, <4>2, <4>3, <4>4, <4>5
    <3>3. /\ us[u].new \in Seq(Threads) /\ us[u].seen \in Seq(Threads)
          /\ RingsAreBlocks(same, cond, us[u].new) /\ RingsAreBlocks(same, cond, us[u].seen)
      BY Zenon, ListedWait DEF MuInv, Rings
    <3>4. RingsAreBlocks(same', cond', us[u].new)
      BY <3>2, <3>3, SameBlocks
    <3>5. RingsAreBlocks(same', cond', us[u].seen)
      BY <3>2, <3>3, SameBlocks
    <3> QED
      BY Zenon, <3>1, <3>4, <3>5
  <2> QED
    BY Zenon, <2>1, <2>2
<1> QED
  BY Zenon, <1>1, <1>2 DEF Rings

\* A queue is closed under its rings: no waiter outside points into it.
LEMMA QueuesClosed ==
  ASSUME MuInv, NEW u \in Threads
  PROVE  Closed(same, waiters) /\ Closed(same, us[u].new) /\ Closed(same, us[u].seen)
<1> DEFINE Qs == {waiters} \cup {us[v].new : v \in Threads} \cup {us[v].seen : v \in Threads}
<1>1. /\ same \in [Threads -> Threads]
      /\ \A x \in Threads : ~Queued(x) => same[x] = x
  BY Zenon DEF MuInv, Rings
<1>2. ASSUME NEW q \in Qs PROVE q \in Seq(Threads) /\ RingsAreBlocks(same, cond, q)
  BY Zenon, ListedWait DEF MuInv, Rings
<1>3. ASSUME NEW q \in Qs, NEW x \in Range(q) PROVE same[x] \in Range(q)
  BY Zenon, <1>1, <1>2, RingsStay
<1>4. ASSUME NEW q \in Qs, NEW p \in Qs, Range(q) \cap Range(p) # {} PROVE Range(q) = Range(p)
  <2>1. /\ \A v \in Threads : /\ Range(us[v].new) \cap Range(us[v].seen) = {}
                              /\ Range(us[v].new) \subseteq Local(v)
                              /\ Range(us[v].seen) \subseteq Local(v)
                              /\ Range(waiters) \cap Local(v) = {}
        /\ \A v, w \in Threads : v # w => Local(v) \cap Local(w) = {}
    BY Zenon DEF MuInv, ListsAreApart, Local
  <2>2. q = waiters \/ \E v \in Threads : q = us[v].new \/ q = us[v].seen
    BY Zenon
  <2>3. p = waiters \/ \E v \in Threads : p = us[v].new \/ p = us[v].seen
    BY Zenon
  <2> HIDE DEF Qs
  <2> QED
    BY Zenon, <1>4, <2>1, <2>2, <2>3
<1>5. ASSUME NEW x \in Threads, Queued(x) PROVE \E q \in Qs : x \in Range(q)
  BY Zenon, <1>5 DEF Queued
<1>6. ASSUME NEW q \in Qs PROVE Closed(same, q)
  <2> SUFFICES ASSUME NEW x \in Threads \ Range(q), same[x] \in Range(q) PROVE FALSE
    BY Zenon DEF Closed
  <2>1. CASE ~Queued(x)
    BY Zenon, <1>1, <2>1
  <2>2. CASE Queued(x)
    <3>1. PICK p \in Qs : x \in Range(p)
      BY Zenon, <1>5, <2>2
    <3>2. same[x] \in Range(p)
      BY Zenon, <1>3, <3>1
    <3>3. Range(q) = Range(p)
      BY Zenon, <1>4, <3>2
    <3> QED
      BY Zenon, <3>1, <3>3
  <2> QED
    BY Zenon, <2>1, <2>2
<1>7. waiters \in Qs /\ us[u].new \in Qs /\ us[u].seen \in Qs
  BY Zenon
<1> QED
  BY Zenon, <1>6, <1>7

\* A waiter that is in no queue is in no other waiter's ring.
LEMMA AloneInRing ==
  ASSUME MuInv, NEW t \in Threads, ~Queued(t)
  PROVE  same[t] = t /\ \A x \in Threads : same[x] = t => x = t
<1>1. /\ same \in [Threads -> Threads]
      /\ \A x \in Threads : ~Queued(x) => same[x] = x
      /\ RingsAreBlocks(same, cond, waiters)
      /\ \A u \in Threads : /\ RingsAreBlocks(same, cond, us[u].new)
                            /\ RingsAreBlocks(same, cond, us[u].seen)
  BY Zenon DEF MuInv, Rings
<1>2. ASSUME NEW x \in Threads, same[x] = t, Queued(x) PROVE FALSE
  <2>1. CASE x \in Range(waiters)
    <3>1. same[x] \in Range(waiters)
      BY Zenon, <1>1, <2>1, ListedWait, RingsStay
    <3> QED
      BY Zenon, <1>2, <3>1 DEF Queued
  <2>2. ASSUME NEW u \in Threads, x \in Range(us[u].new) PROVE FALSE
    <3>1. same[x] \in Range(us[u].new)
      BY Zenon, <1>1, <2>2, ListedWait, RingsStay
    <3> QED
      BY Zenon, <1>2, <3>1 DEF Queued
  <2>3. ASSUME NEW u \in Threads, x \in Range(us[u].seen) PROVE FALSE
    <3>1. same[x] \in Range(us[u].seen)
      BY Zenon, <1>1, <2>3, ListedWait, RingsStay
    <3> QED
      BY Zenon, <1>2, <3>1 DEF Queued
  <2> QED
    BY Zenon, <1>2, <2>1, <2>2, <2>3 DEF Queued
<1> QED
  BY Zenon, <1>1, <1>2

-----------------------------------------------------------------------------
(* What the flags say.                                                     *)

\* MU_WAITING and MU_CONDITION stay while there are waiters.
LEMMA QueueBitsKept ==
  ASSUME MuInv, NEW t \in Threads, Moves(t), Asleep(t) => cond'[t] = cond[t],
         "WAITING" \in word.bits => "WAITING" \in word'.bits,
         "CONDITION" \in word.bits => "CONDITION" \in word'.bits,
         \A x \in Threads : Queued(x)' =>
           Queued(x) \/ ("WAITING" \in word.bits /\ (cond'[x] # NoCond => "CONDITION" \in word.bits))
  PROVE  QueueBitsSet'
<1> SUFFICES ASSUME NEW x \in Threads, Queued(x)'
             PROVE  "WAITING" \in word'.bits /\ (cond'[x] # NoCond => "CONDITION" \in word'.bits)
  BY Zenon DEF QueueBitsSet
<1>1. CASE Queued(x)
  <2>1. Asleep(x)
    BY Zenon, <1>1, ListedWait
  <2>2. cond'[x] = cond[x]
    BY Zenon, <2>1 DEF Moves
  <2>3. "WAITING" \in word.bits /\ (cond[x] # NoCond => "CONDITION" \in word.bits)
    BY Zenon, <1>1 DEF MuInv, QueueBitsSet
  <2> QED
    BY Zenon, <2>2, <2>3
<1>2. CASE ~Queued(x)
  BY Zenon, <1>2
<1> QED
  BY Zenon, <1>1, <1>2

\* MU_ALL_FALSE stays right when waiters only leave the queue.
LEMMA AllFalseKept ==
  ASSUME MuInv, NEW t \in Threads, Moves(t), truth' = truth,
         Asleep(t) => cond'[t] = cond[t],
         Range(waiters') \subseteq Range(waiters),
         "ALL_FALSE" \in word'.bits => "ALL_FALSE" \in word.bits,
         pc[t] \notin HoldPCs
  PROVE  AllFalseIsRight'
<1> SUFFICES ASSUME "ALL_FALSE" \in word'.bits,
                    \A u \in Threads : pc'[u] \in HoldPCs /\ l_type'[u] = "writer"
                                         => changed'[u] # "made_true",
                    NEW p \in Range(waiters')
             PROVE  ~IsTrue(cond[p])'
  BY Zenon DEF AllFalseIsRight
<1>1. \A u \in Threads : pc[u] \in HoldPCs /\ l_type[u] = "writer" => changed[u] # "made_true"
  BY Zenon DEF Moves, OnlyMoves
<1>2. ~IsTrue(cond[p])
  BY Zenon, <1>1 DEF MuInv, AllFalseIsRight
<1>3. p \in Threads /\ Asleep(p)
  BY Zenon, ListedWait
<1>4. cond'[p] = cond[p]
  BY Zenon, <1>3 DEF Moves
<1> QED
  BY Zenon, <1>2, <1>4 DEF IsTrue

\* MU_DESIG_WAKER keeps its reason.
LEMMA DesigKept ==
  ASSUME MuInv, NEW t \in Threads, Moves(t),
         \A u \in Threads \ {t} : waiting'[u] => waiting[u],
         "DESIG_WAKER" \in word'.bits => "DESIG_WAKER" \in word.bits,
         Scanning(t) => Scanning(t)', WasWoken(t) => WasWoken(t)',
         \A x \in Threads : BeingWoken(x) => BeingWoken(x)' \/ WasWoken(x)'
  PROVE  DesigWakerExists'
<1> SUFFICES ASSUME "DESIG_WAKER" \in word'.bits
             PROVE  \E x \in Threads : Scanning(x)' \/ BeingWoken(x)' \/ WasWoken(x)'
  BY Zenon DEF DesigWakerExists, Scanning, WasWoken, SleepPCs
<1>1. PICK x \in Threads : Scanning(x) \/ BeingWoken(x) \/ WasWoken(x)
  BY Zenon DEF MuInv, DesigWakerExists, Scanning, WasWoken, SleepPCs
<1>2. CASE x = t
  BY Zenon, <1>1, <1>2
<1>3. CASE x # t
  <2>1. pc'[x] = pc[x] /\ ls'[x] = ls[x] /\ ret'[x] = ret[x] /\ (waiting'[x] => waiting[x])
    BY Zenon, <1>3 DEF Moves, OnlyMoves
  <2>2. Scanning(x) => Scanning(x)'
    BY Zenon, <2>1 DEF Scanning
  <2>3. WasWoken(x) => WasWoken(x)'
    BY Zenon, <2>1 DEF WasWoken
  <2> QED
    BY Zenon, <1>1, <2>2, <2>3
<1> QED
  BY Zenon, <1>2, <1>3

\* A thread that waits for a semaphore it is to get keeps it.
LEMMA PostsKept ==
  ASSUME MuInv, NEW t \in Threads, Moves(t), sem' = sem,
         \A x \in Threads \ {t} : waiting'[x] <=> waiting[x],
         pc'[t] \notin {"ls_p", "mw_p"}, pc[t] # "us_v"
  PROVE  WokenThreadGetsPost'
<1> SUFFICES ASSUME NEW x \in Threads, pc'[x] \in {"ls_p", "mw_p"}, ~waiting'[x]
             PROVE  \/ sem'[x] > 0
                    \/ \E u \in Threads : pc'[u] = "us_v" /\ Head(us'[u].wake) = x
  BY Zenon DEF WokenThreadGetsPost
<1>1. x # t
  BY Zenon
<1>2. pc'[x] = pc[x] /\ ~waiting[x]
  BY Zenon, <1>1 DEF Moves, OnlyMoves
<1>3. \/ sem[x] > 0
      \/ \E u \in Threads : pc[u] = "us_v" /\ Head(us[u].wake) = x
  BY Zenon, <1>2 DEF MuInv, WokenThreadGetsPost
<1>4. \A u \in Threads : pc[u] = "us_v" => pc'[u] = "us_v" /\ us'[u] = us[u]
  BY Zenon DEF Moves, OnlyMoves
<1> QED
  BY Zenon, <1>3, <1>4

-----------------------------------------------------------------------------
(* The frames of the steps.                                                *)

\* What is left to show of a step that is not calm.
LEMMA StepKeeps ==
  ASSUME MuInv, IInv', NEW t \in Threads, Simple(t), truth' = truth,
         Asleep(t) => cond'[t] = cond[t] /\ l_type'[t] = l_type[t],
         StopsTesting(t)', SeenIsFalse(t)', OneScanner', ListsAreApart', ListsAreComplete',
         ListedStay', Rings', QueueBitsSet', AllFalseIsRight', WokenThreadGetsPost',
         DesigWakerExists'
  PROVE  MuInv'
<1>1. \A u \in Threads : LocalsFollowPc(u)' /\ SpinlockKeeps(u)'
  BY Zenon, SimpleStep
<1>2. LongWaitHasOwner'
  BY Zenon, SimpleStep
<1>3. ASSUME NEW u \in Threads PROVE StopsTesting(u)' /\ SeenIsFalse(u)'
  <2>1. CASE u = t
    BY Zenon, <2>1
  <2>2. CASE u # t
    BY Zenon, <2>2, OthersScan DEF Simple
  <2> QED
    BY Zenon, <2>1, <2>2
<1> QED
  BY Zenon, <1>1, <1>2, <1>3 DEF MuInv

\* A thread that does not start to look for waiters leaves the scanner alone.
LEMMA SameScanner ==
  ASSUME MuInv, NEW t \in Threads, Moves(t), Scanning(t)' => Scanning(t)
  PROVE  OneScanner'
<1>1. \A u \in Threads : Scanning(u)' => Scanning(u)
  BY Zenon DEF Moves, OnlyMoves, Scanning
<1> QED
  BY Zenon, <1>1 DEF MuInv, OneScanner

\* The queues and the waiters to be woken, before and after.
LEMMA QueuedBy ==
  ASSUME NEW t \in Threads, Moves(t), NEW x \in Threads
  PROVE  /\ Queued(x)  <=> x \in Queues(t)
                           \/ \E u \in Threads \ {t} : x \in Range(us[u].new) \cup Range(us[u].seen)
         /\ Queued(x)' <=> x \in Queues(t)'
                           \/ \E u \in Threads \ {t} : x \in Range(us[u].new) \cup Range(us[u].seen)
         /\ BeingWoken(x)  <=> x \in Range(ToWake(t))
                               \/ \E u \in Threads \ {t} : x \in Range(ToWake(u))
         /\ BeingWoken(x)' <=> x \in Range(ToWake(t))'
                               \/ \E u \in Threads \ {t} : x \in Range(ToWake(u))
<1>1. \A u \in Threads \ {t} : us'[u] = us[u] /\ ToWake(u)' = ToWake(u)
  BY Zenon, OtherLists
<1> QED
  BY Zenon, <1>1 DEF Queued, Queues, BeingWoken

\* A step that leaves the lists alone.
LEMMA ListsKept ==
  ASSUME MuInv, NEW t \in Threads, Moves(t), waiters' = waiters, same' = same,
         us'[t].new = us[t].new, us'[t].seen = us[t].seen, ToWake(t)' = ToWake(t),
         \A x \in Threads : Asleep(x)' <=> Asleep(x),
         \A x \in Threads : Asleep(x) => removed'[x] = removed[x],
         Asleep(t) => cond'[t] = cond[t],
         Asleep(t) /\ pc'[t] \in {"us", "us_loop", "us_scan"}
           => pc[t] \in {"us", "us_loop", "us_scan"}
  PROVE  /\ ListsAreApart' /\ ListsAreComplete' /\ ListedStay' /\ Rings'
         /\ \A x \in Threads : /\ Queued(x)' <=> Queued(x)
                               /\ BeingWoken(x)' <=> BeingWoken(x)
<1>1. Local(t)' = Local(t) /\ Own(t)' = Own(t) /\ Queues(t)' = Queues(t)
  BY Zenon DEF Local, Own, Queues
<1>2. OwnApart(t)'
  <2>1. OwnApart(t)
    BY Zenon DEF MuInv, ListsAreApart, OwnApart
  <2> QED
    BY Zenon, <1>1, <2>1 DEF OwnApart
<1>3. SleepersAreOwned(t)
  <2>1. \A x \in Own(t) : x \in Threads /\ Asleep(x)
    BY Zenon, ListedWait DEF Own
  <2> QED
    BY Zenon, <1>1, <2>1 DEF SleepersAreOwned
<1>4. ListsAreApart' /\ ListsAreComplete'
  BY Zenon, <1>2, <1>3, ListsFollow
<1>5. ListedStay'
  <2>1. \A p \in Range(ToWake(t))' : removed'[p]
    <3>1. \A p \in Range(ToWake(t)) : removed[p] /\ p \in Threads /\ Asleep(p)
      BY Zenon, ListedWait DEF MuInv, ListedStay, Local
    <3> QED
      BY Zenon, <3>1
  <2>2. \A p \in Local(t)' : p # t => pc'[p] \notin {"us", "us_loop", "us_scan"}
    <3>1. \A p \in Local(t) : p \in Threads
      BY Zenon, ListedWait
    <3>2. \A p \in Local(t) \ {t} : pc[p] \notin {"us", "us_loop", "us_scan"}
      BY Zenon DEF MuInv, ListedStay
    <3> QED
      BY Zenon, <1>1, <3>1, <3>2 DEF Moves, OnlyMoves
  <2>3. \A p \in Threads : Asleep(p) /\ removed[p] => removed'[p]
    BY Zenon
  <2> QED
    BY Zenon, <2>1, <2>2, <2>3, StayFollows
<1>6. Rings'
  <2>1. /\ same \in [Threads -> Threads]
        /\ RingsAreBlocks(same, cond, waiters)
        /\ RingsAreBlocks(same, cond, us[t].new)
        /\ RingsAreBlocks(same, cond, us[t].seen)
    BY Zenon DEF MuInv, Rings
  <2>2. \A x \in Own(t) : cond'[x] = cond[x] /\ same'[x] = same[x]
    <3>1. \A x \in Own(t) : x \in Threads /\ Asleep(x)
      BY Zenon, ListedWait DEF Own
    <3> QED
      BY Zenon, <3>1 DEF Moves
  <2>3. /\ \A x \in Range(waiters) : same'[x] = same[x] /\ cond'[x] = cond[x]
        /\ \A x \in Range(us[t].new) : same'[x] = same[x] /\ cond'[x] = cond[x]
        /\ \A x \in Range(us[t].seen) : same'[x] = same[x] /\ cond'[x] = cond[x]
    BY Zenon, <2>2 DEF Own, Local
  <2>4. RingsAreBlocks(same', cond', waiters)
    BY Zenon, <2>1, <2>3, ListedWait, SameBlocks
  <2>5. RingsAreBlocks(same', cond', us[t].new)
    BY <2>1, <2>3, ListedWait, SameBlocks
  <2>6. RingsAreBlocks(same', cond', us[t].seen)
    BY <2>1, <2>3, ListedWait, SameBlocks
  <2> QED
    BY Zenon, <1>1, <1>3, <1>4, <2>1, <2>4, <2>5, <2>6, RingsFollow
<1>7. ASSUME NEW x \in Threads
      PROVE  (Queued(x)' <=> Queued(x)) /\ (BeingWoken(x)' <=> BeingWoken(x))
  BY Zenon, <1>1, QueuedBy
<1> QED
  BY Zenon, <1>4, <1>5, <1>6, <1>7

\* A thread that was not asleep queues itself.
LEMMA EnqueueKeeps ==
  ASSUME MuInv, NEW t \in Threads, Moves(t), NEW first \in BOOLEAN,
         ~Asleep(t), Asleep(t)', \A x \in Threads \ {t} : waiting'[x] <=> waiting[x],
         us' = us, cond' = cond, removed' = removed, pc[t] # "us_v", pc'[t] # "us_v",
         waiters' = Enqueue(waiters, t, first),
         same' = RingAfterEnqueue(same, cond, waiters, t, first)
  PROVE  /\ ListsAreApart' /\ ListsAreComplete' /\ ListedStay' /\ Rings'
         /\ \A x \in Threads : /\ Queued(x)' <=> Queued(x) \/ x = t
                               /\ BeingWoken(x)' <=> BeingWoken(x)
<1>1. ToWake(t)' = ToWake(t) /\ Local(t)' = Local(t)
  <2>1. ToWake(t)' = ToWake(t)
    BY Zenon DEF ToWake
  <2> QED
    BY Zenon, <2>1 DEF Local
<1>2. /\ waiters \in Seq(Threads) /\ IsInjective(waiters)
      /\ us[t].new \in Seq(Threads) /\ us[t].seen \in Seq(Threads)
  BY Zenon, ListedWait DEF MuInv, ListsAreApart
<1>3. t \notin Range(waiters) /\ t \notin Local(t) /\ ~Queued(t)
  BY Zenon, ListedWait
<1>4. Range(waiters') = Range(waiters) \cup {t} /\ IsInjective(waiters')
  <2>1. /\ <<t>> \in Seq(Threads) /\ Range(<<t>>) = {t} /\ IsInjective(<<t>>)
        /\ Append(waiters, t) = waiters \o <<t>>
    BY <1>2, SingleQueue, AppendFacts
  <2>2. PICK s \in Seq(Threads) :
          /\ Range(s) = {t} /\ IsInjective(s)
          /\ waiters' = waiters \o s \/ waiters' = s \o waiters
    BY Zenon, <2>1 DEF Enqueue
  <2>3. Range(waiters) \cap Range(s) = {} /\ Range(s) \cap Range(waiters) = {}
    BY Zenon, <1>3, <2>2
  <2>4. \A p, q \in Seq(Threads) :
          /\ Range(p \o q) = Range(p) \cup Range(q)
          /\ IsInjective(p) /\ IsInjective(q) /\ Range(p) \cap Range(q) = {}
               => IsInjective(p \o q)
    BY Zenon, ConcatRange
  <2>5. /\ Range(waiters \o s) = Range(waiters) \cup {t} /\ IsInjective(waiters \o s)
        /\ Range(s \o waiters) = {t} \cup Range(waiters) /\ IsInjective(s \o waiters)
    BY <1>2, <2>2, <2>3, <2>4
  <2> QED
    BY Zenon, <2>2, <2>5
<1>5. Own(t)' = Own(t) \cup {t} /\ Queues(t)' = Queues(t) \cup {t}
  BY Zenon, <1>1, <1>4 DEF Own, Queues
<1>6. OwnApart(t)'
  <2>1. OwnApart(t)
    BY Zenon DEF MuInv, ListsAreApart, OwnApart
  <2>2. us'[t] = us[t]
    BY Zenon
  <2>3. Range(waiters') \cap Local(t) = {}
    BY Zenon, <1>3, <1>4, <2>1 DEF OwnApart
  <2> QED
    BY Zenon, <1>1, <1>4, <2>1, <2>2, <2>3 DEF OwnApart
<1>7. SleepersAreOwned(t)
  <2>1. \A x \in Own(t) : x \in Threads /\ Asleep(x)
    BY Zenon, ListedWait DEF Own
  <2>2. \A x \in Threads \ {t} : Asleep(x)' <=> Asleep(x)
    BY Zenon DEF Moves, OnlyMoves, Asleep
  <2> QED
    BY Zenon, <1>5, <2>1, <2>2 DEF SleepersAreOwned
<1>8. ListsAreApart' /\ ListsAreComplete'
  BY Zenon, <1>6, <1>7, ListsFollow
<1>9. ListedStay'
  <2>1. \A p \in Range(ToWake(t))' : removed'[p]
    BY Zenon, <1>1 DEF MuInv, ListedStay
  <2>2. \A p \in Local(t)' : p # t => pc'[p] \notin {"us", "us_loop", "us_scan"}
    <3>1. \A p \in Local(t) : p \in Threads
      BY Zenon, ListedWait
    <3>2. \A p \in Local(t) \ {t} : pc[p] \notin {"us", "us_loop", "us_scan"}
      BY Zenon DEF MuInv, ListedStay
    <3> QED
      BY Zenon, <1>1, <3>1, <3>2 DEF Moves, OnlyMoves
  <2> QED
    BY Zenon, <2>1, <2>2, StayFollows
<1>10. Rings'
  <2>1. /\ same \in [Threads -> Threads]
        /\ RingsAreBlocks(same, cond, waiters)
        /\ RingsAreBlocks(same, cond, us[t].new)
        /\ RingsAreBlocks(same, cond, us[t].seen)
    BY Zenon DEF MuInv, Rings
  <2>2. same[t] = t /\ \A x \in Threads : same[x] = t => x = t
    BY Zenon, <1>3, AloneInRing
  <2>3. Closed(same, waiters)
    BY Zenon, QueuesClosed
  <2>4. /\ same' \in [Threads -> Threads]
        /\ RingsAreBlocks(same', cond, waiters')
        /\ \A x \in Threads \ (Range(waiters) \cup {t}) : same'[x] = same[x]
    BY <1>2, <1>3, <2>1, <2>2, <2>3, EnqueueBlocks
  <2>5. \A x \in Local(t) : x \in Threads \ (Range(waiters) \cup {t})
    BY Zenon, <1>3, ListedWait DEF MuInv, ListsAreApart
  <2>6. /\ \A x \in Range(us[t].new) : same'[x] = same[x] /\ cond[x] = cond[x]
        /\ \A x \in Range(us[t].seen) : same'[x] = same[x] /\ cond[x] = cond[x]
    BY Zenon, <2>4, <2>5 DEF Local
  <2>7. RingsAreBlocks(same', cond, us[t].new)
    BY Zenon, <1>2, <2>1, <2>6, SameBlocks
  <2>8. RingsAreBlocks(same', cond, us[t].seen)
    BY Zenon, <1>2, <2>1, <2>6, SameBlocks
  <2>9. \A x \in Threads : x \notin Queues(t) /\ x \notin Queues(t)' => same'[x] = same[x]
    BY Zenon, <1>5, <2>4 DEF Queues
  <2>10. \A x \in Queues(t) : x \notin Queues(t)' => same'[x] = x
    BY Zenon, <1>5
  <2> QED
    BY Zenon, <1>7, <1>8, <2>4, <2>7, <2>8, <2>9, <2>10, RingsFollow
<1>11. ASSUME NEW x \in Threads
       PROVE  (Queued(x)' <=> Queued(x) \/ x = t) /\ (BeingWoken(x)' <=> BeingWoken(x))
  BY Zenon, <1>1, <1>5, QueuedBy
<1> QED
  BY Zenon, <1>8, <1>9, <1>10, <1>11

-----------------------------------------------------------------------------
(* The steps that queue a waiter, and the client's change.                 *)

\* The word with only MU_SPINLOCK changed keeps the flags about waiters.
LEMMA SpinlockOnly ==
  ASSUME NEW w \in Word
  PROVE  /\ \A b \in MU_BITS \ {"SPINLOCK"} :
              /\ b \in SetClear(w, {}, {"SPINLOCK"}).bits <=> b \in w.bits
              /\ b \in SetClear(w, {"SPINLOCK"}, {}).bits <=> b \in w.bits
         /\ {"WAITING", "CONDITION", "ALL_FALSE", "DESIG_WAKER", "LONG_WAIT"}
              \subseteq MU_BITS \ {"SPINLOCK"}
BY Zenon DEF SetClear, Word, MU_BITS

\* nsync_mu_lock_slow_ queues its waiter.
LEMMA SlowQueueKeeps ==
  ASSUME MuInv, IInv', NEW t \in Threads, OnlyMoves(t), SlowQueue(t)
  PROVE  MuInv'
<1>1. TypeOK /\ LocalInv(t) /\ LocalsFollowPc(t) /\ SpinlockKeeps(t)
  BY Zenon, ThreadKnows
<1>2. /\ pc[t] = "ls_queue" /\ pc'[t] = "ls_wait"
      /\ waiting'[t] = TRUE /\ \A u \in Threads \ {t} : waiting'[u] = waiting[u]
      /\ us' = us /\ removed' = removed /\ same' = same /\ truth' = truth /\ sem' = sem
      /\ ret' = ret /\ cond' = cond /\ l_type' = l_type /\ ls' = ls /\ changed' = changed
      /\ waiters' = Enqueue(waiters, t, ls[t].wait_count = 0)
  BY Zenon, <1>1 DEF TypeOK, SlowQueue, Goto, localVars, clientVars
<1>3. Moves(t)
  BY Zenon, <1>1, <1>2 DEF Moves
<1>4. \A b \in {"WAITING", "CONDITION", "ALL_FALSE", "DESIG_WAKER", "LONG_WAIT"} :
        b \in word'.bits <=> b \in word.bits
  BY Zenon, <1>1, SpinlockOnly DEF TypeOK, SlowQueue
<1>5. /\ cond[t] = NoCond /\ ~waiting[t] /\ ~Asleep(t) /\ Asleep(t)'
      /\ "WAITING" \in word.bits /\ "ALL_FALSE" \notin word.bits
  BY Zenon, <1>1, <1>2 DEF LocalsFollowPc, SpinlockKeeps, SleepPCs, UsPCs, Asleep
<1>6. PICK first \in BOOLEAN : first = (ls[t].wait_count = 0)
  BY Zenon
<1>7. same' = RingAfterEnqueue(same, cond, waiters, t, first)
  <2>1. \A c : ~ConditionEq(c, NoCond) /\ ~ConditionEq(NoCond, c)
    BY Zenon DEF ConditionEq
  <2>2. LastOf(<<t>>) = t /\ Head(<<t>>) = t
    BY DEF LastOf
  <2> QED
    BY Zenon, <1>2, <1>5, <2>1, <2>2 DEF RingAfterEnqueue, MergeQueues, MergeConditions
<1>8. /\ ListsAreApart' /\ ListsAreComplete' /\ ListedStay' /\ Rings'
      /\ \A x \in Threads : /\ Queued(x)' <=> Queued(x) \/ x = t
                            /\ BeingWoken(x)' <=> BeingWoken(x)
  <2>1. waiters' = Enqueue(waiters, t, first)
    BY Zenon, <1>2, <1>6
  <2> QED
    BY Zenon, <1>2, <1>3, <1>5, <1>7, <2>1, EnqueueKeeps
<1>9. Simple(t)
  <2>1. LocalsFollowPc(t)' /\ SpinlockKeeps(t)'
    BY Zenon, <1>1, <1>2 DEF LocalsFollowPc, SpinlockKeeps, SleepPCs, UsPCs, Scanning,
       HoldsQueue
  <2>2. HoldsSpinlock(t)
    BY Zenon, <1>2 DEF HoldsSpinlock
  <2>3. WaitsLong(t) => WaitsLong(t)'
    BY Zenon, <1>2 DEF WaitsLong
  <2> QED
    BY Zenon, <1>2, <1>3, <1>4, <2>1, <2>2, <2>3 DEF Simple
<1>10. StopsTesting(t)' /\ SeenIsFalse(t)'
  BY Zenon, <1>2 DEF StopsTesting, SeenIsFalse, Scanning
<1>11. OneScanner'
  BY Zenon, <1>2, <1>3, SameScanner DEF Scanning
<1>12. QueueBitsSet'
  BY Zenon, <1>2, <1>3, <1>4, <1>5, <1>8, QueueBitsKept
<1>13. AllFalseIsRight'
  BY Zenon, <1>4, <1>5 DEF AllFalseIsRight
<1>14. WokenThreadGetsPost'
  BY Zenon, <1>2, <1>3, PostsKept
<1>15. DesigWakerExists'
  <2>1. ~Scanning(t) /\ ~WasWoken(t)
    BY Zenon, <1>2 DEF Scanning, WasWoken, SleepPCs
  <2> QED
    BY Zenon, <1>2, <1>3, <1>4, <1>8, <2>1, DesigKept
<1> QED
  BY <1>2, <1>8, <1>9, <1>10, <1>11, <1>12, <1>13, <1>14, <1>15, StepKeeps

\* nsync_mu_wait_with_deadline queues its waiter.
LEMMA MwQueueKeeps ==
  ASSUME MuInv, IInv', NEW t \in Threads, OnlyMoves(t), MwQueue(t)
  PROVE  MuInv'
<1>1. TypeOK /\ LocalInv(t) /\ LocalsFollowPc(t) /\ SpinlockKeeps(t)
  BY Zenon, ThreadKnows
<1>2. /\ pc[t] = "mw_queue" /\ pc'[t] \in {"us", "mw_wait"}
      /\ us' = us /\ removed' = removed /\ waiting' = waiting /\ truth' = truth /\ sem' = sem
      /\ ret' = ret /\ cond' = cond /\ l_type' = l_type /\ ls' = ls /\ changed' = changed
      /\ waiters' = Enqueue(waiters, t, mw[t].first_wait)
      /\ same' = RingAfterEnqueue(same, cond, waiters, t, mw[t].first_wait)
      /\ mw[t].first_wait \in BOOLEAN
  BY Zenon, <1>1 DEF TypeOK, MwType, MwQueue, Goto, clientVars
<1>3. Moves(t)
  BY Zenon, <1>1, <1>2 DEF Moves
<1>4. \A b \in {"WAITING", "CONDITION", "ALL_FALSE", "DESIG_WAKER", "LONG_WAIT"} :
        b \in word'.bits <=> b \in word.bits
  BY Zenon, <1>1 DEF TypeOK, MwQueue, SetClear, SubToRelease, Word, MU_BITS
<1>5. /\ ret[t] = "mu_wait" /\ waiting[t] /\ ~Asleep(t) /\ Asleep(t)'
      /\ "WAITING" \in word.bits /\ "CONDITION" \in word.bits /\ "ALL_FALSE" \notin word.bits
  BY Zenon, <1>1, <1>2 DEF LocalsFollowPc, SpinlockKeeps, Asleep
<1>6. /\ ListsAreApart' /\ ListsAreComplete' /\ ListedStay' /\ Rings'
      /\ \A x \in Threads : /\ Queued(x)' <=> Queued(x) \/ x = t
                            /\ BeingWoken(x)' <=> BeingWoken(x)
  <2>1. PICK first \in BOOLEAN : first = mw[t].first_wait
    BY Zenon, <1>2
  <2> QED
    BY Zenon, <1>2, <1>3, <1>5, <2>1, EnqueueKeeps
<1>7. Simple(t)
  <2>1. LocalsFollowPc(t)' /\ SpinlockKeeps(t)'
    BY Zenon, <1>1, <1>2, <1>5 DEF LocalsFollowPc, SpinlockKeeps, SleepPCs, UsPCs, Scanning,
       HoldsQueue
  <2>2. HoldsSpinlock(t)
    BY Zenon, <1>2 DEF HoldsSpinlock
  <2>3. ~WaitsLong(t)
    BY Zenon, <1>2 DEF WaitsLong
  <2> QED
    BY Zenon, <1>2, <1>3, <1>4, <2>1, <2>2, <2>3 DEF Simple
<1>8. StopsTesting(t)' /\ SeenIsFalse(t)'
  BY Zenon, <1>2 DEF StopsTesting, SeenIsFalse, Scanning
<1>9. OneScanner'
  BY Zenon, <1>2, <1>3, SameScanner DEF Scanning
<1>10. QueueBitsSet'
  BY Zenon, <1>2, <1>3, <1>4, <1>5, <1>6, QueueBitsKept
<1>11. AllFalseIsRight'
  BY Zenon, <1>4, <1>5 DEF AllFalseIsRight
<1>12. WokenThreadGetsPost'
  BY Zenon, <1>2, <1>3, PostsKept
<1>13. DesigWakerExists'
  <2>1. ~Scanning(t) /\ ~WasWoken(t)
    BY Zenon, <1>2 DEF Scanning, WasWoken, SleepPCs
  <2> QED
    BY Zenon, <1>2, <1>3, <1>4, <1>6, <2>1, DesigKept
<1> QED
  BY SMTT(30), <1>2, <1>6, <1>7, <1>8, <1>9, <1>10, <1>11, <1>12, <1>13, StepKeeps

\* nsync_mu_wait_with_deadline prepares its waiter and takes the spinlock.
LEMMA MwSpinlockKeeps ==
  ASSUME MuInv, IInv', NEW t \in Threads, OnlyMoves(t), MwSpinlock(t)
  PROVE  MuInv'
<1>1. TypeOK /\ LocalInv(t) /\ LocalsFollowPc(t)
  BY Zenon, ThreadKnows
<1>2. /\ pc[t] = "mw_spin" /\ pc'[t] = "mw_queue"
      /\ waiting'[t] = TRUE /\ \A u \in Threads \ {t} : waiting'[u] = waiting[u]
      /\ \A u \in Threads \ {t} : removed'[u] = removed[u] /\ cond'[u] = cond[u]
      /\ waiters' = waiters /\ us' = us /\ same' = same /\ truth' = truth /\ sem' = sem
      /\ ret' = ret /\ l_type' = l_type /\ ls' = ls /\ changed' = changed
      /\ "SPINLOCK" \notin word.bits
  BY Zenon, <1>1 DEF TypeOK, MwSpinlock, Goto, clientVars
<1>3. Moves(t)
  BY Zenon, <1>1, <1>2 DEF Moves
<1>4. /\ "WAITING" \in word'.bits /\ "CONDITION" \in word'.bits /\ "ALL_FALSE" \notin word'.bits
      /\ "DESIG_WAKER" \in word'.bits <=> "DESIG_WAKER" \in word.bits
      /\ "LONG_WAIT" \in word'.bits <=> "LONG_WAIT" \in word.bits
  BY Zenon, <1>1 DEF TypeOK, MwSpinlock, SetClear
<1>5. ret[t] = "mu_wait" /\ ~waiting[t] /\ ~Asleep(t) /\ ~Asleep(t)'
  BY Zenon, <1>1, <1>2 DEF LocalsFollowPc, SleepPCs, UsPCs, Asleep
<1>6. /\ ListsAreApart' /\ ListsAreComplete' /\ ListedStay' /\ Rings'
      /\ \A x \in Threads : /\ Queued(x)' <=> Queued(x)
                            /\ BeingWoken(x)' <=> BeingWoken(x)
  <2>1. us'[t].new = us[t].new /\ us'[t].seen = us[t].seen /\ ToWake(t)' = ToWake(t)
    BY Zenon, <1>2 DEF ToWake
  <2>2. \A x \in Threads : Asleep(x)' <=> Asleep(x)
    BY Zenon, <1>2, <1>3, <1>5 DEF Asleep, Moves, OnlyMoves
  <2>3. \A x \in Threads : Asleep(x) => removed'[x] = removed[x]
    BY Zenon, <1>2, <1>5
  <2> QED
    BY Zenon, <1>2, <1>3, <1>5, <2>1, <2>2, <2>3, ListsKept
<1>7. Simple(t)
  <2>1. LocalsFollowPc(t)' /\ SpinlockKeeps(t)'
    BY Zenon, <1>1, <1>2, <1>4, <1>5
       DEF LocalsFollowPc, SpinlockKeeps, SleepPCs, UsPCs, Scanning, HoldsQueue
  <2>2. ~WaitsLong(t)
    BY Zenon, <1>2 DEF WaitsLong
  <2> QED
    BY Zenon, <1>2, <1>3, <1>4, <2>1, <2>2 DEF Simple
<1>8. StopsTesting(t)' /\ SeenIsFalse(t)'
  BY Zenon, <1>2 DEF StopsTesting, SeenIsFalse, Scanning
<1>9. OneScanner'
  BY Zenon, <1>2, <1>3, SameScanner DEF Scanning
<1>10. QueueBitsSet'
  BY Zenon, <1>4 DEF QueueBitsSet
<1>11. AllFalseIsRight'
  BY Zenon, <1>4 DEF AllFalseIsRight
<1>12. WokenThreadGetsPost'
  BY Zenon, <1>2, <1>3, PostsKept
<1>13. DesigWakerExists'
  <2>1. ~Scanning(t) /\ ~WasWoken(t)
    BY Zenon, <1>2 DEF Scanning, WasWoken, SleepPCs
  <2> QED
    BY Zenon, <1>2, <1>3, <1>4, <1>6, <2>1, DesigKept
<1> QED
  BY SMTT(30), <1>2, <1>5, <1>6, <1>7, <1>8, <1>9, <1>10, <1>11, <1>12, <1>13, StepKeeps

\* The client changes the protected state: it holds the write lock, so no thread
\* is testing conditions.
LEMMA ChangeKeeps ==
  ASSUME MuInv, IInv', NEW t \in Threads, OnlyMoves(t), Change(t)
  PROVE  MuInv'
<1>1. TypeOK /\ LocalInv(t) /\ LocalsFollowPc(t)
  BY Zenon, ThreadKnows
<1>2. /\ pc[t] = "held" /\ l_type[t] = "writer" /\ changed[t] = "nothing" /\ pc' = pc
      /\ word' = word /\ waiters' = waiters /\ us' = us /\ waiting' = waiting
      /\ removed' = removed /\ same' = same /\ sem' = sem /\ ret' = ret /\ cond' = cond
      /\ l_type' = l_type /\ ls' = ls
      /\ \A u \in Threads \ {t} : changed'[u] = changed[u]
  BY Zenon, <1>1 DEF TypeOK, Change, muVars, waiterVars, localVars
<1>3. /\ truth \in [Conds -> BOOLEAN]
      /\ changed'[t] = "made_true" \/ \A c \in Conds : truth'[c] => truth[c]
  BY Zenon, <1>1 DEF TypeOK, Change
<1>4. Moves(t)
  BY Zenon, <1>1, <1>2 DEF Moves
<1>5. Simple(t)
  <2>1. LocalsFollowPc(t)' /\ SpinlockKeeps(t)'
    BY Zenon, <1>1, <1>2 DEF LocalsFollowPc, SpinlockKeeps, SleepPCs, UsPCs, Scanning,
       HoldsQueue
  <2> QED
    BY Zenon, <1>2, <1>4, <2>1 DEF Simple, WaitsLong
<1>6. /\ ListsAreApart' /\ ListsAreComplete' /\ ListedStay' /\ Rings'
      /\ \A x \in Threads : /\ Queued(x)' <=> Queued(x)
                            /\ BeingWoken(x)' <=> BeingWoken(x)
  <2>1. us'[t].new = us[t].new /\ us'[t].seen = us[t].seen /\ ToWake(t)' = ToWake(t)
    BY Zenon, <1>2 DEF ToWake
  <2>2. \A x \in Threads : Asleep(x)' <=> Asleep(x)
    BY Zenon, <1>2 DEF Asleep
  <2> QED
    BY Zenon, <1>2, <1>4, <2>1, <2>2, ListsKept
<1>7. ASSUME NEW u \in Threads PROVE StopsTesting(u)'
  <2>1. StopsTesting(u)
    BY Zenon DEF MuInv
  <2> QED
    BY Zenon, <1>2, <2>1 DEF StopsTesting
<1>8. ASSUME NEW u \in Threads, Scanning(u), NEW x \in Range(us[u].new) \cup Range(us[u].seen)
      PROVE  cond[x] = NoCond
  <2>1. Remembers(u) /\ SpinlockKeeps(u)
    BY Zenon, ThreadKnows
  <2>2. ~us[u].late
    <3>1. HoldsWrite(t) /\ u # t
      BY Zenon, <1>2, <1>8 DEF HoldsWrite, HoldPCs, Scanning
    <3>2. ~HoldsWrite(u)
      BY Zenon, <3>1 DEF MuInv, IInv, MutualExclusion
    <3> QED
      BY Zenon, <1>8, <3>2 DEF HoldsWrite, Scanning
  <2>3. "CONDITION" \notin word.bits
    BY Zenon, <1>8, <2>1, <2>2 DEF SpinlockKeeps
  <2>4. x \in Threads /\ Queued(x)
    BY Zenon, ListedWait DEF Queued, Local
  <2> QED
    BY Zenon, <2>3, <2>4 DEF MuInv, QueueBitsSet
<1>9. ASSUME NEW u \in Threads PROVE SeenIsFalse(u)'
  <2>1. DOMAIN us[u].new = 1..Len(us[u].new) /\ us[u].new \in Seq(Threads)
    BY ListedWait
  <2> SUFFICES ASSUME Scanning(u), us[u].all_false
               PROVE  /\ \A p \in Range(us[u].seen) : ~Holds(truth', cond[p])
                      /\ pc[u] = "us_scan" => \A j \in 1..Len(us[u].new) :
                           j < us[u].i => ~Holds(truth', cond[us[u].new[j]])
    BY Zenon, <1>2, <2>1 DEF SeenIsFalse, Scanning, IsTrue, Holds
  <2>2. /\ \A p \in Range(us[u].seen) : ~Holds(truth, cond[p])
        /\ pc[u] = "us_scan" => \A j \in 1..Len(us[u].new) :
             j < us[u].i => ~Holds(truth, cond[us[u].new[j]])
    <3>1. SeenIsFalse(u)
      BY Zenon DEF MuInv
    <3> QED
      BY Zenon, <2>1, <3>1 DEF SeenIsFalse, IsTrue, Holds
  <2>3. \A j \in 1..Len(us[u].new) : us[u].new[j] \in Range(us[u].new)
    BY <2>1, InRange
  <2>4. \A x \in Range(us[u].new) \cup Range(us[u].seen) :
          Holds(truth', cond[x]) <=> Holds(truth, cond[x])
    BY Zenon, <1>8 DEF Holds
  <2> QED
    BY Zenon, <2>2, <2>3, <2>4
<1>10. OneScanner'
  BY Zenon, <1>2, <1>4, SameScanner DEF Scanning
<1>11. QueueBitsSet'
  BY Zenon, <1>2, <1>4, <1>6, QueueBitsKept
<1>12. AllFalseIsRight'
  <2> SUFFICES ASSUME "ALL_FALSE" \in word.bits,
                      \A u \in Threads : pc[u] \in HoldPCs /\ l_type[u] = "writer"
                                           => changed'[u] # "made_true",
                      NEW p \in Range(waiters)
               PROVE  ~Holds(truth', cond[p])
    BY Zenon, <1>2 DEF AllFalseIsRight, IsTrue, Holds
  <2>1. changed'[t] # "made_true"
    BY Zenon, <1>2 DEF HoldPCs
  <2>2. \A u \in Threads : pc[u] \in HoldPCs /\ l_type[u] = "writer"
                             => changed[u] # "made_true"
    BY Zenon, <1>2
  <2>3. ~Holds(truth, cond[p])
    BY Zenon, <2>2 DEF MuInv, AllFalseIsRight, IsTrue, Holds
  <2>4. p \in Threads
    BY Zenon, ListedWait
  <2>5. cond[p] \in Conds \cup {NoCond}
    BY Zenon, <1>1, <2>4 DEF TypeOK
  <2> QED
    BY Zenon, <1>3, <2>1, <2>3, <2>5 DEF Holds
<1>13. WokenThreadGetsPost'
  BY Zenon, <1>2, <1>4, PostsKept
<1>14. DesigWakerExists'
  <2>1. ~Scanning(t) /\ ~WasWoken(t)
    BY Zenon, <1>2 DEF Scanning, WasWoken, SleepPCs
  <2> QED
    BY Zenon, <1>2, <1>4, <1>6, <2>1, DesigKept
<1> QED
  BY SMTT(30), <1>5, <1>6, <1>7, <1>9, <1>10, <1>11, <1>12, <1>13, <1>14, SimpleStep DEF MuInv
=============================================================================
