---------------------------- MODULE MuWakeProofs ----------------------------
(***************************************************************************)
(* The steps of nsync_mu_unlock_slow_, which moves the queue to lists of   *)
(* its own, tests conditions, picks the waiters to wake, gives back the    *)
(* rest and wakes them, preserve MuInv.                                    *)
(***************************************************************************)
EXTENDS MuSleepProofs

-----------------------------------------------------------------------------
(* nsync_mu_unlock_slow_                                                   *)

\* A thread that is about to look for waiters, and may take the spinlock, is the
\* only one.
LEMMA NoOtherScanner ==
  ASSUME MuInv, NEW t \in Threads, HoldsWrite(t) \/ HoldsRead(t),
         "SPINLOCK" \notin word.bits \/ HoldsSpinlock(t)
  PROVE  \A u \in Threads \ {t} : ~Scanning(u)
<1> SUFFICES ASSUME NEW u \in Threads \ {t}, Scanning(u) PROVE FALSE
  BY Zenon
<1>1. Remembers(u)
  BY Zenon, ThreadKnows
<1>2. CASE us[u].late
  <2>1. HoldsWrite(u)
    BY Zenon, <1>2 DEF HoldsWrite, Scanning
  <2> QED
    BY Zenon, <2>1 DEF MuInv, IInv, MutualExclusion
<1>3. CASE ~us[u].late
  <2>1. HoldsSpinlock(u)
    BY Zenon, <1>1, <1>3 DEF HoldsSpinlock, Scanning, Remembers
  <2> QED
    BY Zenon, <2>1 DEF MuInv, IInv, SpinlockExclusion
<1> QED
  BY Zenon, <1>2, <1>3

\* Two readers show in the count of readers.
LEMMA TwoReaders ==
  ASSUME MuInv, NEW t \in Threads, HoldsRead(t), NEW u \in Threads \ {t}, HoldsRead(u)
  PROVE  word.readers > 1
BY Zenon DEF MuInv, IInv, WordShows

\* It takes the spinlock and the queue.
LEMMA UsBeginKeeps ==
  ASSUME MuInv, IInv', NEW t \in Threads, OnlyMoves(t), UsBegin(t)
  PROVE  MuInv'
<1>1. TypeOK /\ LocalInv(t) /\ LocalsFollowPc(t)
  BY Zenon, ThreadKnows
<1>2. /\ pc[t] = "us" /\ pc'[t] = "us_loop" /\ waiters' = <<>>
      /\ waiting' = waiting /\ removed' = removed /\ same' = same /\ truth' = truth
      /\ sem' = sem /\ ret' = ret /\ cond' = cond /\ l_type' = l_type /\ ls' = ls
      /\ changed' = changed
      /\ "SPINLOCK" \notin word.bits /\ ~NoNeedToWake(word)
  BY Zenon, <1>1 DEF TypeOK, UsBegin, Goto, waiterVars, clientVars
<1>3. /\ us'[t].new = waiters /\ us'[t].seen = <<>> /\ us'[t].wake = <<>>
      /\ us'[t].late <=> "CONDITION" \in word.bits
      /\ us'[t].testing <=> "CONDITION" \in word.bits
  BY Zenon, <1>1 DEF TypeOK, UsBegin, NoUs
<1>4. Moves(t)
  BY Zenon, <1>1, <1>2 DEF Moves
<1>5. \A b \in {"WAITING", "CONDITION", "ALL_FALSE", "LONG_WAIT"} :
        b \in word'.bits <=> b \in word.bits
  BY Zenon, <1>1 DEF TypeOK, UsBegin, EarlyRelease, AddToAcquire, SubToRelease, SetClear
<1>6. us[t].new = <<>> /\ us[t].seen = <<>> /\ us[t].wake = <<>>
  BY Zenon, <1>1, <1>2 DEF LocalsFollowPc, Scanning, UsPCs
<1>7. ToWake(t) = <<>> /\ ToWake(t)' = <<>>
  BY Zenon, <1>2, <1>3, <1>6 DEF ToWake
<1>8. /\ Local(t) = {} /\ Local(t)' = Range(waiters) /\ Own(t) = Range(waiters)
      /\ Own(t)' = Range(waiters) /\ Queues(t) = Range(waiters) /\ Queues(t)' = Range(waiters)
  <2>1. Local(t) = {} /\ Local(t)' = Range(waiters)
    BY Zenon, <1>3, <1>6, <1>7, EmptyQueue DEF Local
  <2>2. Range(waiters)' = {}
    BY Zenon, <1>2, EmptyQueue
  <2> QED
    BY Zenon, <1>3, <1>6, <2>1, <2>2, EmptyQueue DEF Own, Queues
<1>9. HoldsWrite(t) \/ HoldsRead(t)
  BY Zenon, <1>1, <1>2 DEF HoldsWrite, HoldsRead, HoldPCs, TypeOK, LockTypes
<1>10. \A u \in Threads \ {t} : ~Scanning(u)
  BY Zenon, <1>2, <1>9, NoOtherScanner
<1>11. OneScanner'
  <2>1. \A u \in Threads \ {t} : ~Scanning(u)'
    BY Zenon, <1>4, <1>10 DEF Moves, OnlyMoves, Scanning
  <2> QED
    BY Zenon, <2>1 DEF OneScanner
<1>12. SleepersAreOwned(t)
  <2>1. \A x \in Threads : Asleep(x)' <=> Asleep(x)
    BY Zenon, <1>2, <1>4 DEF Asleep, Moves, OnlyMoves
  <2>2. \A x \in Range(waiters) : Asleep(x)
    BY Zenon, ListedWait
  <2> QED
    BY Zenon, <1>8, <2>1, <2>2 DEF SleepersAreOwned
<1>13. OwnApart(t)'
  <2>1. IsInjective(waiters)
    BY Zenon DEF MuInv, ListsAreApart
  <2>2. IsInjective(us'[t].new) /\ IsInjective(us'[t].seen) /\ IsInjective(ToWake(t)')
    BY Zenon, <1>3, <1>7, <2>1, EmptyQueue
  <2>3. /\ Range(us'[t].seen) = {} /\ Range(ToWake(t)') = {} /\ Range(waiters') = {}
        /\ IsInjective(waiters')
    BY Zenon, <1>2, <1>3, <1>7, EmptyQueue
  <2> QED
    BY Zenon, <2>2, <2>3 DEF OwnApart
<1>14. ListsAreApart' /\ ListsAreComplete'
  BY Zenon, <1>4, <1>12, <1>13, ListsFollow
<1>15. ListedStay'
  <2>1. ASSUME NEW p \in Range(waiters), p # t PROVE pc'[p] \notin {"us", "us_loop", "us_scan"}
    <3>1. p \in Threads \ {t}
      BY Zenon, <2>1, ListedWait
    <3>2. pc[p] \notin {"us_loop", "us_scan"}
      BY Zenon, <1>10, <3>1 DEF Scanning
    <3>3. pc[p] # "us"
      <4> SUFFICES ASSUME pc[p] = "us" PROVE FALSE
        BY Zenon
      <4>1. HoldsWrite(p) \/ HoldsRead(p)
        BY Zenon, <1>1, <3>1 DEF HoldsWrite, HoldsRead, HoldPCs, TypeOK, LockTypes
      <4>2. HoldsRead(t) /\ HoldsRead(p)
        BY Zenon, <1>9, <3>1, <4>1 DEF MuInv, IInv, MutualExclusion
      <4>3. word.readers > 1
        BY Zenon, <3>1, <4>2, TwoReaders
      <4> QED
        BY Zenon, <1>2, <4>3 DEF NoNeedToWake
    <3>4. pc'[p] = pc[p]
      BY Zenon, <1>4, <3>1 DEF Moves, OnlyMoves
    <3> QED
      BY Zenon, <3>2, <3>3, <3>4
  <2>2. Range(ToWake(t)') = {}
    BY Zenon, <1>7, EmptyQueue
  <2> QED
    BY Zenon, <1>2, <1>4, <1>8, <2>1, <2>2, StayFollows
<1>16. Rings'
  <2>1. same \in [Threads -> Threads] /\ RingsAreBlocks(same, cond, waiters)
    BY Zenon DEF MuInv, Rings
  <2>2. RingsAreBlocks(same', cond', waiters') /\ RingsAreBlocks(same', cond', us'[t].seen)
    BY Zenon, <1>2, <1>3, EmptyQueue
  <2>3. RingsAreBlocks(same', cond', us'[t].new)
    BY Zenon, <1>2, <1>3, <2>1
  <2> QED
    BY <1>2, <1>4, <1>8, <1>12, <1>14, <2>1, <2>2, <2>3, RingsFollow
<1>17. Simple(t)
  <2>1. LocalsFollowPc(t)'
    BY Zenon, <1>1, <1>2, <1>3 DEF LocalsFollowPc, SleepPCs, UsPCs, Scanning
  <2>2. SpinlockKeeps(t)'
    BY Zenon, <1>2, <1>3, <1>5 DEF SpinlockKeeps, Scanning, HoldsQueue
  <2>3. ~WaitsLong(t)
    BY Zenon, <1>2 DEF WaitsLong
  <2> QED
    BY Zenon, <1>2, <1>4, <1>5, <2>1, <2>2, <2>3 DEF Simple
<1>18. StopsTesting(t)' /\ SeenIsFalse(t)'
  <2>1. Range(us'[t].seen) = {}
    BY Zenon, <1>3, EmptyQueue
  <2> QED
    BY Zenon, <1>2, <1>3, <2>1 DEF StopsTesting, SeenIsFalse, Scanning
<1>19. QueueBitsSet'
  <2>1. \A x \in Threads : Queued(x)' => Queued(x)
    BY Zenon, <1>4, <1>8, QueuedBy
  <2> QED
    BY Zenon, <1>2, <1>4, <1>5, <2>1, QueueBitsKept
<1>20. AllFalseIsRight'
  <2>1. Range(waiters') = {}
    BY Zenon, <1>2, EmptyQueue
  <2> QED
    BY Zenon, <2>1 DEF AllFalseIsRight
<1>21. WokenThreadGetsPost'
  BY Zenon, <1>2, <1>4, PostsKept
<1>22. DesigWakerExists'
  BY Zenon, <1>2 DEF DesigWakerExists
<1> QED
  BY <1>2, <1>11, <1>14, <1>15, <1>16, <1>17, <1>18, <1>19, <1>20, <1>21, <1>22, StepKeeps

\* It starts on the new waiters, and may give the spinlock up.
LEMMA UsStartScanKeeps ==
  ASSUME MuInv, IInv', NEW t \in Threads, OnlyMoves(t), UsStartScan(t)
  PROVE  MuInv'
<1>1. TypeOK /\ LocalInv(t) /\ LocalsFollowPc(t) /\ SpinlockKeeps(t) /\ us[t] \in UsType
  BY Zenon, ThreadKnows, ListedWait
<1>2. /\ pc[t] = "us_loop" /\ pc'[t] = "us_scan" /\ waiters' = waiters
      /\ waiting' = waiting /\ removed' = removed /\ same' = same /\ truth' = truth
      /\ sem' = sem /\ ret' = ret /\ cond' = cond /\ l_type' = l_type /\ ls' = ls
      /\ changed' = changed /\ us[t].new # <<>>
  BY Zenon, <1>1 DEF TypeOK, UsStartScan, Goto, waiterVars, clientVars
<1>3. /\ us'[t].new = us[t].new /\ us'[t].seen = us[t].seen /\ us'[t].wake = us[t].wake
      /\ us'[t].late = us[t].late /\ us'[t].wake_type = us[t].wake_type /\ us'[t].i = 1
      /\ us'[t].all_false = us[t].all_false
      /\ us'[t].testing = KeepTesting(us[t], Head(us[t].new))
  BY Zenon, <1>1 DEF TypeOK, UsType, UsStartScan
<1>4. Moves(t)
  BY Zenon, <1>1, <1>2 DEF Moves
<1>5. \A b \in {"WAITING", "CONDITION", "ALL_FALSE", "DESIG_WAKER", "LONG_WAIT"} :
        b \in word'.bits <=> b \in word.bits
  BY Zenon, <1>1, SpinlockOnly DEF TypeOK, UsStartScan
<1>6. /\ ListsAreApart' /\ ListsAreComplete' /\ ListedStay' /\ Rings'
      /\ \A x \in Threads : /\ Queued(x)' <=> Queued(x)
                            /\ BeingWoken(x)' <=> BeingWoken(x)
  <2>1. ToWake(t)' = ToWake(t)
    BY Zenon, <1>2, <1>3 DEF ToWake
  <2>2. \A x \in Threads : Asleep(x)' <=> Asleep(x)
    BY Zenon, <1>2, <1>4 DEF Asleep, Moves, OnlyMoves
  <2> QED
    BY Zenon, <1>2, <1>3, <1>4, <2>1, <2>2, ListsKept
<1>7. Simple(t)
  <2>1. LocalsFollowPc(t)'
    BY Zenon, <1>1, <1>2, <1>3 DEF LocalsFollowPc, SleepPCs, UsPCs, Scanning
  <2>2. SpinlockKeeps(t)'
    BY Zenon, <1>1, <1>2, <1>3, <1>5 DEF SpinlockKeeps, Scanning, HoldsQueue
  <2>3. ~WaitsLong(t) /\ HoldsSpinlock(t)
    BY Zenon, <1>2 DEF WaitsLong, HoldsSpinlock
  <2> QED
    BY Zenon, <1>2, <1>4, <1>5, <2>1, <2>2, <2>3 DEF Simple
<1>8. StopsTesting(t)'
  <2>1. StopsTesting(t)
    BY Zenon DEF MuInv
  <2>2. Head(us[t].new) = us[t].new[1]
    OBVIOUS
  <2> QED
    BY Zenon, <1>2, <1>3, <2>1, <2>2 DEF StopsTesting, KeepTesting
<1>9. SeenIsFalse(t)'
  <2>1. SeenIsFalse(t)
    BY Zenon DEF MuInv
  <2>2. DOMAIN us[t].new = 1..Len(us[t].new)
    BY <1>1 DEF UsType
  <2>3. \A j \in DOMAIN us[t].new : ~(j < 1)
    BY <2>2
  <2> QED
    BY Zenon, <1>2, <1>3, <2>1, <2>3 DEF SeenIsFalse, Scanning, IsTrue
<1>10. OneScanner'
  BY Zenon, <1>2, <1>4, SameScanner DEF Scanning
<1>11. QueueBitsSet'
  BY Zenon, <1>2, <1>4, <1>5, <1>6, QueueBitsKept
<1>12. AllFalseIsRight'
  <2>1. pc[t] \notin HoldPCs
    BY Zenon, <1>2 DEF HoldPCs
  <2> QED
    BY Zenon, <1>2, <1>4, <1>5, <2>1, AllFalseKept
<1>13. WokenThreadGetsPost'
  BY Zenon, <1>2, <1>4, PostsKept
<1>14. DesigWakerExists'
  <2>1. Scanning(t)' /\ ~WasWoken(t)
    BY Zenon, <1>2 DEF Scanning, WasWoken, SleepPCs
  <2> QED
    BY Zenon, <1>2, <1>4, <1>5, <1>6, <2>1, DesigKept
<1> QED
  BY <1>2, <1>6, <1>7, <1>8, <1>9, <1>10, <1>11, <1>12, <1>13, <1>14, StepKeeps

\* The waiter that the scan has come to.
Current(t) == us[t].new[us[t].i]

\* It is in the new list; if conditions are not tested it has none, so that the
\* sanity check passes; and the step stays in the scan.
LEMMA ScanFacts ==
  ASSUME MuInv, NEW t \in Threads, OnlyMoves(t), UsScan(t)
  PROVE  /\ us[t].i \in 1..Len(us[t].new) /\ us[t].new \in Seq(Threads)
         /\ Current(t) \in Range(us[t].new) /\ Current(t) \in Threads
         /\ Asleep(Current(t)) /\ Queued(Current(t))
         /\ cond[Current(t)] # NoCond => us[t].testing
         /\ us[t].wake_type # "writer"
         /\ pc[t] = "us_scan" /\ pc' = pc
         /\ word' = word /\ waiters' = waiters /\ waiting' = waiting /\ truth' = truth
         /\ sem' = sem /\ ret' = ret /\ cond' = cond /\ l_type' = l_type /\ ls' = ls
         /\ changed' = changed
         /\ Moves(t)
<1>1. /\ TypeOK /\ LocalInv(t) /\ LocalsFollowPc(t) /\ SpinlockKeeps(t) /\ us[t] \in UsType
      /\ us[t].new \in Seq(Threads)
  BY Zenon, ThreadKnows, ListedWait
<1>2. /\ pc[t] = "us_scan" /\ us[t].i \in Nat \ {0} /\ us[t].i <= Len(us[t].new)
      /\ us[t].wake_type # "writer"
  BY <1>1 DEF UsScan, ScanEnded, UsType
<1>3. us[t].i \in 1..Len(us[t].new)
  BY <1>1, <1>2
<1>4. Current(t) \in Range(us[t].new) /\ Current(t) \in Threads
  BY Zenon, <1>1, <1>3, InRange DEF Current
<1>5. Asleep(Current(t)) /\ Queued(Current(t))
  BY Zenon, <1>4, ListedWait DEF Local, Queued
<1>6. ASSUME cond[Current(t)] # NoCond, ~us[t].testing PROVE FALSE
  <2>1. StopsTesting(t)
    BY Zenon DEF MuInv
  <2>2. CASE ~us[t].late
    <3>1. "CONDITION" \notin word.bits
      BY Zenon, <1>1, <1>2, <2>2 DEF SpinlockKeeps, Scanning
    <3> QED
      BY Zenon, <1>4, <1>5, <1>6, <3>1 DEF MuInv, QueueBitsSet
  <2>3. CASE us[t].i = 1 /\ cond[us[t].new[1]] = NoCond
    BY Zenon, <1>6, <2>3 DEF Current
  <2> QED
    BY Zenon, <1>2, <1>6, <2>1, <2>2, <2>3 DEF StopsTesting
<1>7. pc' = pc
  BY Zenon, <1>6 DEF UsScan, Current
<1>8. /\ word' = word /\ waiters' = waiters /\ waiting' = waiting /\ truth' = truth
      /\ sem' = sem /\ ret' = ret /\ cond' = cond /\ l_type' = l_type /\ ls' = ls
      /\ changed' = changed
  BY Zenon DEF UsScan, muVars, clientVars
<1>9. Moves(t)
  BY Zenon, <1>1, <1>8 DEF Moves
<1> QED
  BY <1>1, <1>2, <1>3, <1>4, <1>5, <1>6, <1>7, <1>8, <1>9

\* An iteration that leaves the lists alone.
LEMMA ScanPasses ==
  ASSUME MuInv, IInv', NEW t \in Threads, OnlyMoves(t), UsScan(t), removed' = removed, same' = same,
         us'[t].new = us[t].new, us'[t].seen = us[t].seen, us'[t].wake = us[t].wake,
         us'[t].late = us[t].late, us'[t].testing = us[t].testing,
         StopsTesting(t)', SeenIsFalse(t)'
  PROVE  MuInv'
<1>1. LocalsFollowPc(t) /\ SpinlockKeeps(t)
  BY Zenon, ThreadKnows
<1>2. /\ pc[t] = "us_scan" /\ pc' = pc /\ word' = word /\ waiters' = waiters
      /\ waiting' = waiting /\ truth' = truth /\ sem' = sem /\ ret' = ret /\ cond' = cond
      /\ l_type' = l_type /\ ls' = ls /\ changed' = changed /\ Moves(t)
  BY Zenon, ScanFacts
<1>3. /\ ListsAreApart' /\ ListsAreComplete' /\ ListedStay' /\ Rings'
      /\ \A x \in Threads : /\ Queued(x)' <=> Queued(x)
                            /\ BeingWoken(x)' <=> BeingWoken(x)
  <2>1. ToWake(t)' = ToWake(t)
    BY Zenon, <1>2 DEF ToWake
  <2>2. \A x \in Threads : Asleep(x)' <=> Asleep(x)
    BY Zenon, <1>2 DEF Asleep
  <2> QED
    BY Zenon, <1>2, <2>1, <2>2, ListsKept
<1>4. Simple(t)
  <2>1. LocalsFollowPc(t)'
    BY Zenon, <1>1, <1>2 DEF LocalsFollowPc, SleepPCs, UsPCs, Scanning
  <2>2. SpinlockKeeps(t)'
    BY Zenon, <1>1, <1>2 DEF SpinlockKeeps, Scanning, HoldsQueue
  <2>3. ~WaitsLong(t)
    BY Zenon, <1>2 DEF WaitsLong
  <2> QED
    BY Zenon, <1>2, <2>1, <2>2, <2>3 DEF Simple
<1>5. OneScanner'
  BY Zenon, <1>2, SameScanner DEF Scanning
<1>6. QueueBitsSet'
  BY Zenon, <1>2, <1>3, QueueBitsKept
<1>7. AllFalseIsRight'
  <2>1. pc[t] \notin HoldPCs
    BY Zenon, <1>2 DEF HoldPCs
  <2> QED
    BY Zenon, <1>2, <2>1, AllFalseKept
<1>8. WokenThreadGetsPost'
  BY Zenon, <1>2, PostsKept
<1>9. DesigWakerExists'
  <2>1. Scanning(t)' /\ ~WasWoken(t)
    BY Zenon, <1>2 DEF Scanning, WasWoken, SleepPCs
  <2> QED
    BY Zenon, <1>2, <1>3, <2>1, DesigKept
<1> QED
  BY <1>2, <1>3, <1>4, <1>5, <1>6, <1>7, <1>8, <1>9, StepKeeps

\* Appending to a queue.
LEMMA AppendRange ==
  ASSUME NEW q \in Seq(Threads), NEW x \in Threads, IsInjective(q), x \notin Range(q),
         NEW r, r = Append(q, x)
  PROVE  Range(r) = Range(q) \cup {x} /\ IsInjective(r)
<1>1. PICK s \in Seq(Threads) : Range(s) = {x} /\ IsInjective(s) /\ r = q \o s
  <2>1. <<x>> \in Seq(Threads) /\ Range(<<x>>) = {x} /\ IsInjective(<<x>>)
    BY Zenon, SingleQueue
  <2>2. r = q \o <<x>>
    BY Zenon, AppendFacts
  <2> QED
    BY Zenon, <2>1, <2>2
<1>2. \A p \in Seq(Threads) :
        /\ Range(q \o p) = Range(q) \cup Range(p)
        /\ IsInjective(p) /\ Range(q) \cap Range(p) = {} => IsInjective(q \o p)
  BY ConcatRange
<1>3. Range(q) \cap Range(s) = {}
  BY Zenon, <1>1
<1> QED
  BY Zenon, <1>1, <1>2, <1>3

\* The new list without the current waiter, which goes to the waiters to wake.
LEMMA ScanTakes ==
  ASSUME MuInv, NEW t \in Threads, OnlyMoves(t), UsScan(t),
         us'[t].new = Without(us[t].new, us[t].i), us'[t].seen = us[t].seen,
         us'[t].wake = Append(us[t].wake, Current(t))
  PROVE  /\ Range(us'[t].new) = Range(us[t].new) \ {Current(t)}
         /\ Range(ToWake(t)') = Range(ToWake(t)) \cup {Current(t)}
         /\ Local(t)' = Local(t) /\ OwnApart(t)'
         /\ Current(t) \notin Range(us[t].seen) /\ Current(t) \notin Range(waiters)
<1>1. /\ us[t].i \in 1..Len(us[t].new) /\ us[t].new \in Seq(Threads)
      /\ Current(t) \in Range(us[t].new) /\ Current(t) \in Threads
      /\ pc[t] = "us_scan" /\ pc' = pc /\ waiters' = waiters
  BY Zenon, ScanFacts
<1>2. /\ us[t].wake \in Seq(Threads) /\ ToWake(t) = us[t].wake /\ ToWake(t)' = us'[t].wake
  BY Zenon, <1>1, ListedWait DEF ToWake
<1>3. OwnApart(t)
  BY Zenon DEF MuInv, ListsAreApart, OwnApart
<1>4. /\ Current(t) \notin Range(us[t].wake) /\ Current(t) \notin Range(us[t].seen)
      /\ Current(t) \notin Range(waiters)
  BY Zenon, <1>1, <1>2, <1>3 DEF OwnApart, Local
<1>5. Range(us'[t].new) = Range(us[t].new) \ {Current(t)} /\ IsInjective(us'[t].new)
  <2>1. IsInjective(us[t].new)
    BY Zenon, <1>3 DEF OwnApart
  <2>2. /\ Range(Without(us[t].new, us[t].i)) = Range(us[t].new) \ {us[t].new[us[t].i]}
        /\ IsInjective(Without(us[t].new, us[t].i))
    BY Zenon, <1>1, <2>1, WithoutRange
  <2> QED
    BY Zenon, <2>2 DEF Current
<1>6. Range(us'[t].wake) = Range(us[t].wake) \cup {Current(t)} /\ IsInjective(us'[t].wake)
  <2>1. IsInjective(us[t].wake)
    BY Zenon, <1>2, <1>3 DEF OwnApart
  <2> QED
    BY Zenon, <1>1, <1>2, <1>4, <2>1, AppendRange
<1>7. Local(t)' = Local(t)
  BY Zenon, <1>1, <1>2, <1>5, <1>6 DEF Local
<1>8. OwnApart(t)'
  <2>1. IsInjective(waiters) /\ IsInjective(us[t].seen) /\ Range(waiters) \cap Local(t) = {}
    BY Zenon, <1>3 DEF OwnApart
  <2>2. /\ Range(us[t].new) \cap Range(us[t].seen) = {}
        /\ Range(us[t].wake) \cap (Range(us[t].new) \cup Range(us[t].seen)) = {}
    BY Zenon, <1>2, <1>3 DEF OwnApart
  <2>3. Range(us'[t].new) \cap Range(us'[t].seen) = {}
    BY Zenon, <1>5, <2>2
  <2>4. Range(us'[t].wake) \cap (Range(us'[t].new) \cup Range(us'[t].seen)) = {}
    BY Zenon, <1>4, <1>5, <1>6, <2>2
  <2> QED
    BY <1>1, <1>2, <1>5, <1>6, <1>7, <2>1, <2>3, <2>4 DEF OwnApart
<1> QED
  BY Zenon, <1>2, <1>4, <1>5, <1>6, <1>7, <1>8

\* The current waiter is to be woken.
LEMMA ScanWakes ==
  ASSUME MuInv, IInv', NEW t \in Threads, OnlyMoves(t), UsScan(t),
         us[t].wake_type = "none" \/ l_type[Current(t)] = "reader",
         us'[t].new = Without(us[t].new, us[t].i), us'[t].seen = us[t].seen,
         us'[t].wake = Append(us[t].wake, Current(t)), us'[t].wake_type = l_type[Current(t)],
         us'[t].i = us[t].i, us'[t].late = us[t].late, us'[t].testing = us[t].testing,
         us'[t].all_false = us[t].all_false,
         removed' = [removed EXCEPT ![Current(t)] = TRUE],
         same' = RingAfterRemove(same, cond, us[t].new, us[t].i)
  PROVE  MuInv'
<1>1. TypeOK /\ LocalsFollowPc(t) /\ SpinlockKeeps(t)
  BY Zenon, ThreadKnows
<1>2. /\ us[t].i \in 1..Len(us[t].new) /\ us[t].new \in Seq(Threads)
      /\ Current(t) \in Range(us[t].new) /\ Current(t) \in Threads
      /\ us[t].wake_type # "writer" /\ pc[t] = "us_scan"
  BY Zenon, ScanFacts
<1>3. /\ pc' = pc /\ word' = word /\ waiters' = waiters
      /\ waiting' = waiting /\ truth' = truth /\ sem' = sem /\ ret' = ret /\ cond' = cond
      /\ l_type' = l_type /\ ls' = ls /\ changed' = changed /\ Moves(t)
  BY Zenon, ScanFacts
<1>4. /\ Range(us'[t].new) = Range(us[t].new) \ {Current(t)}
      /\ Range(ToWake(t)') = Range(ToWake(t)) \cup {Current(t)}
      /\ Local(t)' = Local(t) /\ OwnApart(t)'
      /\ Current(t) \notin Range(us[t].seen) /\ Current(t) \notin Range(waiters)
  BY Zenon, ScanTakes
<1>5. /\ Own(t)' = Own(t) /\ Queues(t)' = Queues(t) \ {Current(t)}
      /\ Current(t) \in Queues(t)
  BY Zenon, <1>2, <1>3, <1>4 DEF Own, Queues
<1>6. SleepersAreOwned(t)
  <2>1. \A x \in Own(t) : x \in Threads /\ Asleep(x)
    BY Zenon, ListedWait DEF Own
  <2>2. \A x \in Threads : Asleep(x)' <=> Asleep(x)
    BY Zenon, <1>3 DEF Asleep
  <2> QED
    BY Zenon, <1>5, <2>1, <2>2 DEF SleepersAreOwned
<1>7. ListsAreApart' /\ ListsAreComplete'
  BY Zenon, <1>3, <1>4, <1>6, ListsFollow
<1>8. ListedStay'
  <2>1. \A p \in Threads : removed[p] => removed'[p]
    BY Zenon, <1>1 DEF TypeOK
  <2>2. ASSUME NEW p \in Range(ToWake(t))' PROVE removed'[p]
    <3>1. p = Current(t) \/ p \in Range(ToWake(t))
      BY Zenon, <1>4
    <3>2. p \in Range(ToWake(t)) => p \in Threads /\ removed[p]
      BY Zenon, ListedWait DEF MuInv, ListedStay, Local
    <3> QED
      BY Zenon, <1>1, <1>2, <2>1, <3>1, <3>2 DEF TypeOK
  <2>3. \A p \in Local(t)' : p # t => pc'[p] \notin {"us", "us_loop", "us_scan"}
    BY Zenon, <1>3, <1>4 DEF MuInv, ListedStay
  <2> QED
    BY Zenon, <1>2, <1>3, <2>1, <2>2, <2>3, StayFollows
<1>9. Rings'
  <2>1. /\ same \in [Threads -> Threads]
        /\ RingsAreBlocks(same, cond, waiters)
        /\ RingsAreBlocks(same, cond, us[t].new)
        /\ RingsAreBlocks(same, cond, us[t].seen)
    BY Zenon DEF MuInv, Rings
  <2>2. Closed(same, us[t].new) /\ IsInjective(us[t].new)
    BY Zenon, QueuesClosed DEF MuInv, ListsAreApart
  <2>3. Removes(same', same, cond, us[t].new, us[t].i)
    BY Zenon, <1>2, <2>1, <2>2, RemoveBlocks
  <2>4. /\ same' \in [Threads -> Threads] /\ same'[Current(t)] = Current(t)
        /\ RingsAreBlocks(same', cond, us'[t].new)
        /\ \A x \in Threads \ Range(us[t].new) : same'[x] = same[x]
    BY Zenon, <2>3 DEF Removes, Current
  <2>5. \A x \in Range(waiters) \cup Range(us[t].seen) : x \in Threads \ Range(us[t].new)
    BY Zenon, ListedWait DEF MuInv, ListsAreApart, Local
  <2>6. /\ \A x \in Range(waiters) : same'[x] = same[x] /\ cond[x] = cond[x]
        /\ \A x \in Range(us[t].seen) : same'[x] = same[x] /\ cond[x] = cond[x]
    BY Zenon, <2>4, <2>5
  <2>7. RingsAreBlocks(same', cond, waiters)
    BY Zenon, <2>1, <2>6, ListedWait, SameBlocks
  <2>8. RingsAreBlocks(same', cond, us[t].seen)
    BY <2>1, <2>6, ListedWait, SameBlocks, Zenon
  <2>9. \A x \in Threads : x \notin Queues(t) /\ x \notin Queues(t)' => same'[x] = same[x]
    BY Zenon, <2>4 DEF Queues
  <2>10. \A x \in Queues(t) : x \notin Queues(t)' => same'[x] = x
    BY Zenon, <1>5, <2>4
  <2> QED
    BY SMTT(30), <1>3, <1>6, <1>7, <2>4, <2>7, <2>8, <2>9, <2>10, RingsFollow
<1>10. Simple(t)
  <2>1. LocalsFollowPc(t)'
    BY Zenon, <1>1, <1>2, <1>3 DEF LocalsFollowPc, SleepPCs, UsPCs, Scanning
  <2>2. SpinlockKeeps(t)'
    BY Zenon, <1>1, <1>2, <1>3 DEF SpinlockKeeps, Scanning, HoldsQueue
  <2>3. ~WaitsLong(t)
    BY Zenon, <1>2 DEF WaitsLong
  <2> QED
    BY Zenon, <1>3, <2>1, <2>2, <2>3 DEF Simple
<1>11. StopsTesting(t)'
  <2>1. StopsTesting(t)
    BY Zenon DEF MuInv
  <2>2. us[t].i = 1 => us[t].new[1] = Current(t)
    BY Zenon DEF Current
  <2> QED
    BY Zenon, <1>2, <1>3, <2>1, <2>2 DEF StopsTesting
<1>12. SeenIsFalse(t)'
  <2>1. SeenIsFalse(t)
    BY Zenon DEF MuInv
  <2>2. /\ DOMAIN us[t].new = 1..Len(us[t].new)
        /\ DOMAIN us'[t].new = 1..(Len(us[t].new) - 1)
        /\ \A j \in 1..(Len(us[t].new) - 1) : j < us[t].i => us'[t].new[j] = us[t].new[j]
    <3>1. PICK r : /\ r = Without(us[t].new, us[t].i) /\ r \in Seq(Threads)
                   /\ Len(r) = Len(us[t].new) - 1
                   /\ \A j \in 1..(Len(us[t].new) - 1) :
                        r[j] = IF j < us[t].i THEN us[t].new[j] ELSE us[t].new[j + 1]
      BY <1>2, WithoutFacts, ZenonT(30)
    <3>2. us'[t].new = r
      BY Zenon, <3>1
    <3>3. DOMAIN us[t].new = 1..Len(us[t].new) /\ DOMAIN r = 1..Len(r)
      BY Zenon, <1>2, <3>1, QueueFacts
    <3>4. \A j \in 1..(Len(us[t].new) - 1) : j < us[t].i => r[j] = us[t].new[j]
      BY Zenon, <3>1
    <3> QED
      BY <3>1, <3>2, <3>3, <3>4
  <2>3. 1..(Len(us[t].new) - 1) \subseteq 1..Len(us[t].new)
    <3>1. Len(us[t].new) \in Nat
      BY Zenon, <1>2, QueueFacts
    <3> QED
      BY <3>1
  <2> QED
    BY <1>2, <1>3, <2>1, <2>2, <2>3 DEF SeenIsFalse, Scanning, IsTrue
<1>13. OneScanner'
  BY Zenon, <1>3, SameScanner DEF Scanning
<1>14. QueueBitsSet'
  <2>1. \A x \in Threads : Queued(x)' => Queued(x)
    BY Zenon, <1>3, <1>5, QueuedBy
  <2> QED
    BY Zenon, <1>3, <2>1, QueueBitsKept
<1>15. AllFalseIsRight'
  <2>1. pc[t] \notin HoldPCs
    BY Zenon, <1>2 DEF HoldPCs
  <2> QED
    BY Zenon, <1>3, <2>1, AllFalseKept
<1>16. WokenThreadGetsPost'
  BY Zenon, <1>2, <1>3, PostsKept
<1>17. DesigWakerExists'
  <2>1. Scanning(t)' /\ ~WasWoken(t)
    BY Zenon, <1>2, <1>3 DEF Scanning, WasWoken, SleepPCs
  <2>2. \A x \in Threads : BeingWoken(x) => BeingWoken(x)'
    BY Zenon, <1>3, <1>4, QueuedBy
  <2> QED
    BY Zenon, <1>3, <2>1, <2>2, DesigKept
<1> QED
  BY SMTT(30), <1>3, <1>7, <1>8, <1>9, <1>10, <1>11, <1>12, <1>13, <1>14, <1>15, <1>16, <1>17,
     StepKeeps

\* It looks at one waiter: passes over those that wait for the same false
\* condition, wakes it, or notes a writer that could have acquired.
LEMMA UsScanKeeps ==
  ASSUME MuInv, IInv', NEW t \in Threads, OnlyMoves(t), UsScan(t)
  PROVE  MuInv'
<1>1. TypeOK /\ us[t] \in UsType
  BY Zenon, ThreadKnows, ListedWait
<1>2. /\ us[t].i \in 1..Len(us[t].new) /\ us[t].new \in Seq(Threads)
      /\ cond[Current(t)] # NoCond => us[t].testing
      /\ us[t].wake_type # "writer" /\ pc[t] = "us_scan"
      /\ pc' = pc /\ truth' = truth /\ cond' = cond /\ l_type' = l_type
  BY Zenon, ScanFacts
<1>3. DOMAIN us[t].new = 1..Len(us[t].new) /\ Len(us[t].new) \in Nat
  BY Zenon, <1>2, QueueFacts
<1>4. StopsTesting(t) /\ SeenIsFalse(t)
  BY Zenon DEF MuInv
<1>5. CASE /\ ~IsTrue(cond[Current(t)])
           /\ us' = [us EXCEPT ![t].i = SkipPastSameCondition(same, us[t].new, us[t].i)]
           /\ UNCHANGED <<removed, same>>
  <2>1. PICK n : n = SkipPastSameCondition(same, us[t].new, us[t].i)
    BY Zenon
  <2>2. /\ us'[t].new = us[t].new /\ us'[t].seen = us[t].seen /\ us'[t].wake = us[t].wake
        /\ us'[t].late = us[t].late /\ us'[t].testing = us[t].testing
        /\ us'[t].wake_type = us[t].wake_type /\ us'[t].all_false = us[t].all_false
        /\ us'[t].i = n
    BY Zenon, <1>1, <1>5, <2>1 DEF TypeOK, UsType
  <2>3. /\ n \in (us[t].i + 1)..(Len(us[t].new) + 1)
        /\ \A m \in us[t].i..(n - 1) : cond[us[t].new[m]] = cond[us[t].new[us[t].i]]
    <3>1. RingsAreBlocks(same, cond, us[t].new) /\ Closed(same, us[t].new)
          /\ IsInjective(us[t].new)
      BY Zenon, QueuesClosed DEF MuInv, Rings, ListsAreApart
    <3>2. us[t].new \in Seq(Threads) /\ us[t].i \in 1..Len(us[t].new)
      BY Zenon, <1>2
    <3> QED
      BY SMTT(30), <2>1, <3>1, <3>2, SkipFacts
  <2>4. StopsTesting(t)'
    <3>1. cond[Current(t)] # NoCond
      BY Zenon, <1>5 DEF IsTrue
    <3> QED
      BY Zenon, <1>2, <2>2, <3>1 DEF StopsTesting
  <2>5. SeenIsFalse(t)'
    <3> SUFFICES ASSUME us[t].all_false
                 PROVE  /\ \A p \in Range(us[t].seen) : ~Holds(truth, cond[p])
                        /\ \A j \in 1..Len(us[t].new) : j < n => ~Holds(truth, cond[us[t].new[j]])
      BY Zenon, <1>2, <1>3, <2>2 DEF SeenIsFalse, Scanning, IsTrue, Holds
    <3>1. /\ \A p \in Range(us[t].seen) : ~Holds(truth, cond[p])
          /\ \A j \in 1..Len(us[t].new) : j < us[t].i => ~Holds(truth, cond[us[t].new[j]])
      BY Zenon, <1>2, <1>3, <1>4 DEF SeenIsFalse, Scanning, IsTrue, Holds
    <3>2. ~Holds(truth, cond[us[t].new[us[t].i]])
      BY Zenon, <1>5 DEF IsTrue, Holds, Current
    <3>3. ASSUME NEW j \in 1..Len(us[t].new), j < n PROVE ~Holds(truth, cond[us[t].new[j]])
      <4>1. CASE j < us[t].i
        BY Zenon, <3>1, <4>1
      <4>2. CASE ~(j < us[t].i)
        <5>1. j \in us[t].i..(n - 1)
          BY <1>2, <2>3, <3>3, <4>2
        <5>2. cond[us[t].new[j]] = cond[us[t].new[us[t].i]]
          BY Zenon, <2>3, <5>1
        <5> QED
          BY Zenon, <3>2, <5>2
      <4> QED
        BY Zenon, <4>1, <4>2
    <3> QED
      BY Zenon, <3>1, <3>3
  <2> QED
    BY Zenon, <1>5, <2>2, <2>4, <2>5, ScanPasses
<1>6. CASE /\ us[t].wake_type = "none" \/ l_type[Current(t)] = "reader"
           /\ us' = [us EXCEPT ![t].new = Without(us[t].new, us[t].i),
                               ![t].wake = Append(us[t].wake, Current(t)),
                               ![t].wake_type = l_type[Current(t)]]
           /\ removed' = [removed EXCEPT ![Current(t)] = TRUE]
           /\ same' = RingAfterRemove(same, cond, us[t].new, us[t].i)
  <2>1. /\ us'[t].new = Without(us[t].new, us[t].i) /\ us'[t].seen = us[t].seen
        /\ us'[t].wake = Append(us[t].wake, Current(t))
        /\ us'[t].wake_type = l_type[Current(t)] /\ us'[t].i = us[t].i
        /\ us'[t].late = us[t].late /\ us'[t].testing = us[t].testing
        /\ us'[t].all_false = us[t].all_false
    BY Zenon, <1>1, <1>6 DEF TypeOK, UsType
  <2> QED
    BY Zenon, <1>6, <2>1, ScanWakes
<1>7. CASE /\ us[t].wake_type # "none"
           /\ us' = [us EXCEPT ![t].i = us[t].i + 1, ![t].writer_waiting = TRUE,
                               ![t].all_false = FALSE]
           /\ UNCHANGED <<removed, same>>
  <2>1. /\ us'[t].new = us[t].new /\ us'[t].seen = us[t].seen /\ us'[t].wake = us[t].wake
        /\ us'[t].late = us[t].late /\ us'[t].testing = us[t].testing
        /\ us'[t].wake_type = us[t].wake_type /\ us'[t].all_false = FALSE
    BY Zenon, <1>1, <1>7 DEF TypeOK, UsType
  <2>2. StopsTesting(t)'
    BY Zenon, <1>2, <1>4, <1>7, <2>1 DEF StopsTesting
  <2>3. SeenIsFalse(t)'
    BY Zenon, <2>1 DEF SeenIsFalse
  <2> QED
    BY Zenon, <1>7, <2>1, <2>2, <2>3, ScanPasses
<1> QED
  BY Zenon, <1>2, <1>5, <1>6, <1>7 DEF UsScan, Current

\* It takes the spinlock back, joins the lists, and takes the waiters that have
\* arrived.
LEMMA UsEndScanKeeps ==
  ASSUME MuInv, IInv', NEW t \in Threads, OnlyMoves(t), UsEndScan(t)
  PROVE  MuInv'
<1>1. /\ TypeOK /\ LocalInv(t) /\ LocalsFollowPc(t) /\ SpinlockKeeps(t) /\ Remembers(t)
      /\ us[t] \in UsType /\ us[t].new \in Seq(Threads) /\ us[t].seen \in Seq(Threads)
      /\ waiters \in Seq(Threads)
  BY Zenon, ThreadKnows, ListedWait
<1>2. /\ pc[t] = "us_scan" /\ pc'[t] = "us_loop" /\ waiters' = <<>>
      /\ waiting' = waiting /\ removed' = removed /\ truth' = truth
      /\ sem' = sem /\ ret' = ret /\ cond' = cond /\ l_type' = l_type /\ ls' = ls
      /\ changed' = changed
      /\ same' = MergeQueues(same, cond, us[t].seen, us[t].new)
      /\ us[t].testing => "SPINLOCK" \notin word.bits
      /\ us[t].i > Len(us[t].new) \/ us[t].wake_type = "writer"
  BY Zenon, <1>1 DEF TypeOK, UsEndScan, ScanEnded, Goto, clientVars
<1>3. /\ us'[t].new = waiters /\ us'[t].seen = us[t].seen \o us[t].new
      /\ us'[t].wake = us[t].wake /\ us'[t].late = us[t].late
      /\ us'[t].testing = us[t].testing /\ us'[t].wake_type = us[t].wake_type
      /\ us'[t].all_false => us[t].all_false /\ us[t].i > Len(us[t].new)
  BY Zenon, <1>1 DEF TypeOK, UsType, UsEndScan
<1>4. Moves(t)
  BY Zenon, <1>1, <1>2 DEF Moves
<1>5. \A b \in {"WAITING", "CONDITION", "ALL_FALSE", "DESIG_WAKER", "LONG_WAIT"} :
        b \in word'.bits <=> b \in word.bits
  BY <1>1, SpinlockOnly DEF TypeOK, UsEndScan
<1>6. OwnApart(t)
  BY Zenon DEF MuInv, ListsAreApart, OwnApart
<1>7. /\ Range(us'[t].seen) = Range(us[t].seen) \cup Range(us[t].new)
      /\ IsInjective(us'[t].seen)
  <2>1. /\ IsInjective(us[t].seen) /\ IsInjective(us[t].new)
        /\ Range(us[t].seen) \cap Range(us[t].new) = {}
    BY Zenon, <1>6 DEF OwnApart
  <2>2. \A p, q \in Seq(Threads) :
          /\ Range(p \o q) = Range(p) \cup Range(q)
          /\ IsInjective(p) /\ IsInjective(q) /\ Range(p) \cap Range(q) = {}
               => IsInjective(p \o q)
    BY Zenon, ConcatRange
  <2> QED
    BY Zenon, <1>1, <1>3, <2>1, <2>2
<1>8. ToWake(t)' = ToWake(t) /\ Range(waiters') = {} /\ IsInjective(waiters')
  BY Zenon, <1>2, <1>3, EmptyQueue DEF ToWake
<1>9. /\ Local(t)' = Local(t) \cup Range(waiters) /\ Own(t)' = Own(t)
      /\ Queues(t)' = Queues(t)
  <2>1. Local(t)' = Local(t) \cup Range(waiters)
    BY Zenon, <1>3, <1>7, <1>8 DEF Local
  <2> QED
    BY Zenon, <1>3, <1>7, <1>8, <2>1 DEF Own, Queues
<1>10. OwnApart(t)'
  <2>1. /\ IsInjective(waiters) /\ IsInjective(ToWake(t))
        /\ Range(waiters) \cap Local(t) = {}
        /\ Range(ToWake(t)) \cap (Range(us[t].new) \cup Range(us[t].seen)) = {}
    BY Zenon, <1>6 DEF OwnApart
  <2>2. /\ Range(us[t].new) \subseteq Local(t) /\ Range(us[t].seen) \subseteq Local(t)
        /\ Range(ToWake(t)) \subseteq Local(t)
    BY Zenon DEF Local
  <2>3. /\ Range(us'[t].new) \cap Range(us'[t].seen) = {}
        /\ Range(ToWake(t)') \cap (Range(us'[t].new) \cup Range(us'[t].seen)) = {}
    BY Zenon, <1>3, <1>7, <1>8, <2>1, <2>2
  <2> QED
    BY Zenon, <1>3, <1>7, <1>8, <2>1, <2>3 DEF OwnApart
<1>11. SleepersAreOwned(t)
  <2>1. \A x \in Own(t) : x \in Threads /\ Asleep(x)
    BY Zenon, ListedWait DEF Own
  <2>2. \A x \in Threads : Asleep(x)' <=> Asleep(x)
    BY Zenon, <1>2, <1>4 DEF Asleep, Moves, OnlyMoves
  <2> QED
    BY Zenon, <1>9, <2>1, <2>2 DEF SleepersAreOwned
<1>12. ListsAreApart' /\ ListsAreComplete'
  BY Zenon, <1>4, <1>10, <1>11, ListsFollow
<1>13. ListedStay'
  <2>1. ASSUME NEW p \in Range(waiters), p # t PROVE pc[p] \notin {"us", "us_loop", "us_scan"}
    <3>1. p \in Threads \ {t}
      BY Zenon, <2>1, ListedWait
    <3>2. us[t].testing
      <4> SUFFICES ASSUME ~us[t].testing PROVE FALSE
        BY Zenon
      <4>1. waiters = <<>>
        BY Zenon, <1>1, <1>2 DEF SpinlockKeeps, HoldsQueue
      <4> QED
        BY Zenon, <4>1, EmptyQueue
    <3>3. HoldsWrite(t)
      BY Zenon, <1>1, <1>2, <3>2 DEF Remembers, HoldsWrite
    <3>4. ~HoldsWrite(p) /\ ~HoldsRead(p)
      BY Zenon, <3>1, <3>3 DEF MuInv, IInv, MutualExclusion
    <3>5. pc[p] # "us"
      BY Zenon, <1>1, <3>1, <3>4 DEF HoldsWrite, HoldsRead, HoldPCs, TypeOK, LockTypes
    <3>6. ~Scanning(p)
      BY Zenon, <1>2, <3>1 DEF MuInv, OneScanner, Scanning
    <3> QED
      BY Zenon, <3>5, <3>6 DEF Scanning
  <2>2. \A p \in Local(t) \ {t} : p \in Threads /\ pc[p] \notin {"us", "us_loop", "us_scan"}
    BY Zenon, ListedWait DEF MuInv, ListedStay
  <2>3. \A p \in Local(t)' : p # t => pc'[p] \notin {"us", "us_loop", "us_scan"}
    <3>1. \A p \in Range(waiters) : p \in Threads
      BY Zenon, ListedWait
    <3> QED
      BY Zenon, <1>4, <1>9, <2>1, <2>2, <3>1 DEF Moves, OnlyMoves
  <2>4. \A p \in Range(ToWake(t))' : removed'[p]
    BY Zenon, <1>2, <1>8 DEF MuInv, ListedStay
  <2> QED
    BY Zenon, <1>2, <1>4, <2>3, <2>4, StayFollows
<1>14. Rings'
  <2>1. /\ same \in [Threads -> Threads]
        /\ RingsAreBlocks(same, cond, waiters)
        /\ RingsAreBlocks(same, cond, us[t].new)
        /\ RingsAreBlocks(same, cond, us[t].seen)
    BY Zenon DEF MuInv, Rings
  <2>2. /\ Closed(same, us[t].new) /\ IsInjective(us[t].new) /\ IsInjective(us[t].seen)
        /\ Range(us[t].seen) \cap Range(us[t].new) = {}
    BY Zenon, <1>6, QueuesClosed DEF OwnApart
  <2>3. Joins(same', same, cond, us[t].seen, us[t].new)
    BY Zenon, <1>1, <1>2, <2>1, <2>2, MergeJoins
  <2>4. /\ same' \in [Threads -> Threads]
        /\ RingsAreBlocks(same', cond, us'[t].seen)
        /\ \A x \in Threads \ (Range(us[t].seen) \cup Range(us[t].new)) : same'[x] = same[x]
    BY Zenon, <1>3, <2>3 DEF Joins
  <2>5. \A x \in Range(waiters) : same'[x] = same[x] /\ cond[x] = cond[x]
    BY Zenon, <1>6, <2>4, ListedWait DEF OwnApart, Local
  <2>6. RingsAreBlocks(same', cond, waiters)
    BY Zenon, <1>1, <2>1, <2>5, SameBlocks
  <2>7. RingsAreBlocks(same', cond, <<>>)
    BY Zenon, EmptyQueue
  <2>8. \A x \in Threads : x \notin Queues(t) /\ x \notin Queues(t)' => same'[x] = same[x]
    BY Zenon, <2>4 DEF Queues
  <2>9. \A x \in Queues(t) : x \notin Queues(t)' => same'[x] = x
    BY Zenon, <1>9
  <2>10. /\ RingsAreBlocks(same', cond', waiters') /\ RingsAreBlocks(same', cond', us'[t].new)
         /\ RingsAreBlocks(same', cond', us'[t].seen)
    BY Zenon, <1>2, <1>3, <2>4, <2>6, <2>7
  <2> QED
    BY SMTT(30), <1>2, <1>4, <1>11, <1>12, <2>4, <2>8, <2>9, <2>10, RingsFollow
<1>15. Simple(t)
  <2>1. LocalsFollowPc(t)'
    BY Zenon, <1>1, <1>2, <1>3 DEF LocalsFollowPc, SleepPCs, UsPCs, Scanning
  <2>2. SpinlockKeeps(t)'
    BY Zenon, <1>1, <1>2, <1>3, <1>5 DEF SpinlockKeeps, Scanning, HoldsQueue
  <2>3. ~WaitsLong(t) /\ (HoldsSpinlock(t) \/ "SPINLOCK" \notin word.bits)
    BY Zenon, <1>2 DEF WaitsLong, HoldsSpinlock
  <2> QED
    BY Zenon, <1>2, <1>4, <1>5, <2>1, <2>2, <2>3 DEF Simple
<1>16. StopsTesting(t)'
  <2>1. StopsTesting(t)
    BY Zenon DEF MuInv
  <2>2. us[t].new # <<>> => ~(1 > Len(us[t].new))
    BY <1>1
  <2> QED
    BY Zenon, <1>2, <1>3, <2>1, <2>2 DEF StopsTesting
<1>17. SeenIsFalse(t)'
  <2> SUFFICES ASSUME us[t].all_false, us[t].i > Len(us[t].new), NEW p \in Range(us'[t].seen)
               PROVE  ~Holds(truth, cond[p])
    BY Zenon, <1>2, <1>3 DEF SeenIsFalse, Scanning, IsTrue, Holds
  <2>1. SeenIsFalse(t)
    BY Zenon DEF MuInv
  <2>2. CASE p \in Range(us[t].seen)
    BY Zenon, <1>2, <2>1, <2>2 DEF SeenIsFalse, Scanning, IsTrue, Holds
  <2>3. CASE p \in Range(us[t].new)
    <3>1. PICK j \in 1..Len(us[t].new) : us[t].new[j] = p
      BY Zenon, <1>1, <2>3, InRange
    <3>2. j \in DOMAIN us[t].new /\ j < us[t].i
      BY <1>1, <3>1 DEF UsType
    <3> QED
      BY Zenon, <1>2, <2>1, <3>1, <3>2 DEF SeenIsFalse, Scanning, IsTrue, Holds
  <2> QED
    BY Zenon, <1>7, <2>2, <2>3
<1>18. OneScanner'
  BY Zenon, <1>2, <1>4, SameScanner DEF Scanning
<1>19. QueueBitsSet'
  <2>1. \A x \in Threads : Queued(x)' => Queued(x)
    BY Zenon, <1>4, <1>9, QueuedBy
  <2> QED
    BY Zenon, <1>2, <1>4, <1>5, <2>1, QueueBitsKept
<1>20. AllFalseIsRight'
  BY Zenon, <1>8 DEF AllFalseIsRight
<1>21. WokenThreadGetsPost'
  BY Zenon, <1>2, <1>4, PostsKept
<1>22. DesigWakerExists'
  BY Zenon, <1>2 DEF DesigWakerExists
<1> QED
  BY SMTT(30), <1>2, <1>12, <1>13, <1>14, <1>15, <1>16, <1>17, <1>18, <1>19, <1>20, <1>21,
     <1>22,
     StepKeeps

\* What UsRelease does to the flags that speak of waiters.
LEMMA ReleaseBits ==
  ASSUME NEW w, NEW u,
         NEW r, r = SetClear(LateRelease(w, u), SetOnRelease(u), ClearOnRelease(u))
  PROVE  /\ u.seen # <<>> => /\ "WAITING" \in w.bits => "WAITING" \in r.bits
                             /\ "CONDITION" \in w.bits => "CONDITION" \in r.bits
         /\ "ALL_FALSE" \in r.bits => u.all_false /\ u.seen # <<>>
         /\ "DESIG_WAKER" \in r.bits => u.wake # <<>>
         /\ "LONG_WAIT" \in r.bits => "LONG_WAIT" \in w.bits
<1>1. r.bits = (LateRelease(w, u).bits \cup SetOnRelease(u)) \ ClearOnRelease(u)
  BY Zenon DEF SetClear
<1>2. \A b : b # "WLOCK" => (b \in LateRelease(w, u).bits <=> b \in w.bits)
  BY Zenon DEF LateRelease, SubToRelease
<1>3. /\ "WAITING" # "WLOCK" /\ "CONDITION" # "WLOCK" /\ "ALL_FALSE" # "WLOCK"
      /\ "DESIG_WAKER" # "WLOCK" /\ "LONG_WAIT" # "WLOCK"
  BY Zenon
<1> QED
  BY Zenon, <1>1, <1>2, <1>3 DEF SetOnRelease, ClearOnRelease

\* It puts the waiters that it has passed over back, releases, and goes on to
\* those that it will wake.
LEMMA UsReleaseKeeps ==
  ASSUME MuInv, IInv', NEW t \in Threads, OnlyMoves(t), UsRelease(t)
  PROVE  MuInv'
<1>1. /\ TypeOK /\ LocalInv(t) /\ LocalsFollowPc(t) /\ SpinlockKeeps(t)
      /\ us[t] \in UsType /\ us[t].seen \in Seq(Threads) /\ us[t].wake \in Seq(Threads)
  BY Zenon, ThreadKnows, ListedWait
<1>2. /\ pc[t] = "us_loop" /\ us[t].new = <<>> /\ waiters = <<>> /\ waiters' = us[t].seen
      /\ pc'[t] \in {"us_wake", "mw_wait", "idle"}
      /\ pc'[t] = "us_wake" <=> us[t].wake # <<>>
      /\ pc'[t] = "mw_wait" => ret[t] = "mu_wait"
      /\ pc'[t] = "idle" => ret[t] # "mu_wait"
      /\ ret[t] = "mu_wait" => ret'[t] = ret[t] /\ l_type'[t] = l_type[t]
      /\ waiting' = waiting /\ removed' = removed /\ truth' = truth
      /\ sem' = sem /\ cond' = cond /\ ls' = ls /\ changed' = changed /\ same' = same
  BY Zenon, <1>1 DEF TypeOK, UsRelease, Released, Goto, clientVars, waiterVars, SpinlockKeeps,
     HoldsQueue
<1>3. /\ us'[t].new = <<>> /\ us'[t].seen = <<>> /\ us'[t].wake = us[t].wake
      /\ us'[t].testing = FALSE /\ us'[t].late = FALSE
  <2>1. us \in [Threads -> UsType]
    BY Zenon, <1>1 DEF TypeOK
  <2>2. CASE us[t].wake = <<>>
    <3>1. us' = [us EXCEPT ![t] = NoUs]
      BY Zenon, <2>2 DEF UsRelease
    <3>2. us'[t] = NoUs
      BY Zenon, <2>1, <3>1
    <3>3. /\ NoUs.new = <<>> /\ NoUs.seen = <<>> /\ NoUs.wake = <<>>
          /\ NoUs.testing = FALSE /\ NoUs.late = FALSE
      BY Zenon DEF NoUs
    <3> QED
      BY Zenon, <2>2, <3>2, <3>3
  <2>3. CASE us[t].wake # <<>>
    <3>1. us' = [us EXCEPT ![t] = [NoUs EXCEPT !.wake = us[t].wake]]
      BY Zenon, <2>3 DEF UsRelease
    <3>2. us'[t] = [NoUs EXCEPT !.wake = us[t].wake]
      BY Zenon, <2>1, <3>1
    <3> QED
      BY Zenon, <3>2 DEF NoUs
  <2> QED
    BY Zenon, <2>2, <2>3
<1>4. Moves(t)
  <2>1. \A u \in Threads \ {t} : ret'[u] = ret[u]
    BY Zenon, <1>1 DEF TypeOK, UsRelease, Released
  <2> QED
    BY Zenon, <1>1, <1>2, <2>1 DEF Moves
<1>5. /\ us[t].seen # <<>> => /\ "WAITING" \in word.bits => "WAITING" \in word'.bits
                              /\ "CONDITION" \in word.bits => "CONDITION" \in word'.bits
      /\ "ALL_FALSE" \in word'.bits => us[t].all_false /\ us[t].seen # <<>>
      /\ "DESIG_WAKER" \in word'.bits => us[t].wake # <<>>
      /\ "LONG_WAIT" \in word'.bits => "LONG_WAIT" \in word.bits
  BY ReleaseBits DEF UsRelease
<1>6. OwnApart(t)
  BY Zenon DEF MuInv, ListsAreApart, OwnApart
<1>7. ToWake(t)' = ToWake(t) /\ ToWake(t) = us[t].wake
  BY Zenon, <1>2, <1>3 DEF ToWake
<1>8. /\ Local(t)' = Range(ToWake(t)) /\ Local(t) = Range(us[t].seen) \cup Range(ToWake(t))
      /\ Own(t)' = Own(t) /\ Queues(t)' = Queues(t) /\ Queues(t) = Range(us[t].seen)
  <2>1. /\ Local(t)' = Range(ToWake(t))
        /\ Local(t) = Range(us[t].seen) \cup Range(ToWake(t))
    BY Zenon, <1>2, <1>3, <1>7, EmptyQueue DEF Local
  <2> QED
    BY Zenon, <1>2, <1>3, <1>7, <2>1, EmptyQueue DEF Own, Queues
<1>9. OwnApart(t)'
  <2>1. /\ IsInjective(us[t].seen) /\ IsInjective(ToWake(t))
        /\ Range(ToWake(t)) \cap Range(us[t].seen) = {}
    BY Zenon, <1>6 DEF OwnApart
  <2> QED
    BY Zenon, <1>2, <1>3, <1>7, <1>8, <2>1, EmptyQueue DEF OwnApart
<1>10. \A x \in Threads : Asleep(x)' <=> Asleep(x)
  BY Zenon, <1>2, <1>4 DEF Asleep, Moves, OnlyMoves
<1>11. SleepersAreOwned(t)
  <2>1. \A x \in Own(t) : x \in Threads /\ Asleep(x)
    BY Zenon, ListedWait DEF Own
  <2> QED
    BY SMTT(30), <1>8, <1>10, <2>1 DEF SleepersAreOwned
<1>12. ListsAreApart' /\ ListsAreComplete'
  BY Zenon, <1>4, <1>9, <1>11, ListsFollow
<1>13. ListedStay'
  <2>1. \A p \in Local(t) \ {t} : p \in Threads /\ pc[p] \notin {"us", "us_loop", "us_scan"}
    BY Zenon, ListedWait DEF MuInv, ListedStay
  <2>2. \A p \in Local(t)' : p # t => pc'[p] \notin {"us", "us_loop", "us_scan"}
    BY Zenon, <1>4, <1>8, <2>1 DEF Moves, OnlyMoves
  <2>3. \A p \in Range(ToWake(t))' : removed'[p]
    BY Zenon, <1>2, <1>7 DEF MuInv, ListedStay
  <2> QED
    BY SMTT(30), <1>2, <1>4, <2>2, <2>3, StayFollows
<1>14. Rings'
  <2>1. same \in [Threads -> Threads] /\ RingsAreBlocks(same, cond, us[t].seen)
    BY Zenon DEF MuInv, Rings
  <2>2. RingsAreBlocks(same, cond, <<>>)
    BY Zenon, EmptyQueue
  <2> QED
    BY SMTT(30), <1>2, <1>3, <1>4, <1>8, <1>11, <1>12, <2>1, <2>2, RingsFollow
<1>15. Simple(t)
  <2>1. LocalsFollowPc(t)'
    BY Zenon, <1>1, <1>2, <1>3 DEF LocalsFollowPc, SleepPCs, UsPCs, Scanning
  <2>2. SpinlockKeeps(t)'
    BY Zenon, <1>2 DEF SpinlockKeeps, Scanning, HoldsQueue
  <2>3. ~WaitsLong(t) /\ HoldsSpinlock(t)
    BY Zenon, <1>2 DEF WaitsLong, HoldsSpinlock
  <2> QED
    BY Zenon, <1>2, <1>4, <1>5, <2>1, <2>2, <2>3 DEF Simple
<1>16. StopsTesting(t)' /\ SeenIsFalse(t)'
  BY Zenon, <1>2 DEF StopsTesting, SeenIsFalse, Scanning
<1>17. OneScanner'
  BY Zenon, <1>2, <1>4, SameScanner DEF Scanning
<1>18. QueueBitsSet'
  <2>1. \A u \in Threads \ {t} : us[u].new = <<>> /\ us[u].seen = <<>>
    BY Zenon, <1>2 DEF MuInv, OneScanner, LocalsFollowPc, Scanning
  <2>2. \A x \in Threads : (Queued(x)' <=> Queued(x)) /\ (Queued(x) => us[t].seen # <<>>)
    <3> SUFFICES ASSUME NEW x \in Threads
                 PROVE  (Queued(x)' <=> Queued(x)) /\ (Queued(x) => us[t].seen # <<>>)
      BY Zenon
    <3>1. (Queued(x) <=> x \in Queues(t)) /\ (Queued(x)' <=> x \in Queues(t)')
      BY Zenon, <1>4, <2>1, QueuedBy, EmptyQueue
    <3>2. x \in Range(us[t].seen) => us[t].seen # <<>>
      BY Zenon, EmptyQueue
    <3> QED
      BY Zenon, <1>8, <3>1, <3>2
  <2> QED
    BY <1>2, <1>5, <2>2 DEF MuInv, QueueBitsSet
<1>19. AllFalseIsRight'
  <2>1. "ALL_FALSE" \in word'.bits => \A p \in Range(us[t].seen) : ~IsTrue(cond[p])
    BY Zenon, <1>2, <1>5 DEF MuInv, SeenIsFalse, Scanning
  <2>2. "ALL_FALSE" \in word'.bits => \A p \in Range(us[t].seen) : ~Holds(truth, cond[p])
    BY Zenon, <2>1 DEF IsTrue, Holds
  <2> QED
    BY Zenon, <1>2, <2>2 DEF AllFalseIsRight, IsTrue, Holds
<1>20. WokenThreadGetsPost'
  BY Zenon, <1>2, <1>4, PostsKept
<1>21. DesigWakerExists'
  <2>1. ASSUME us[t].wake # <<>> PROVE \E x \in Threads : BeingWoken(x)'
    <3>1. IsInjective(us[t].wake)
      BY Zenon, <1>6, <1>7 DEF OwnApart
    <3>2. Head(us[t].wake) \in Threads /\ Head(us[t].wake) \in Range(us[t].wake)
      BY Zenon, <1>1, <2>1, <3>1, TailRange
    <3> QED
      BY Zenon, <1>7, <3>2 DEF BeingWoken
  <2> QED
    BY Zenon, <1>5, <2>1 DEF DesigWakerExists
<1>22. Asleep(t) => cond'[t] = cond[t] /\ l_type'[t] = l_type[t]
  BY Zenon, <1>1, <1>2 DEF Asleep, LocalsFollowPc, SleepPCs
<1> QED
  BY SMTT(30), <1>2, <1>12, <1>13, <1>14, <1>15, <1>16, <1>17, <1>18, <1>19, <1>20, <1>21,
     <1>22,
     StepKeeps

\* It clears the flag of the next waiter that it wakes.
LEMMA UsWakeKeeps ==
  ASSUME MuInv, IInv', NEW t \in Threads, OnlyMoves(t), UsWake(t)
  PROVE  MuInv'
<1> PICK p : p = Head(us[t].wake)
  BY Zenon
<1>1. /\ TypeOK /\ LocalInv(t) /\ LocalsFollowPc(t) /\ Remembers(t)
      /\ us[t].wake \in Seq(Threads)
  BY Zenon, ThreadKnows, ListedWait
<1>2. /\ pc[t] = "us_wake" /\ pc'[t] = "us_v"
      /\ word' = word /\ waiters' = waiters /\ removed' = removed /\ truth' = truth
      /\ sem' = sem /\ ret' = ret /\ cond' = cond /\ l_type' = l_type /\ ls' = ls
      /\ changed' = changed /\ same' = same /\ us' = us
      /\ waiting' = [waiting EXCEPT ![p] = FALSE] /\ us[t].wake # <<>>
  BY Zenon, <1>1 DEF TypeOK, UsWake, Goto, clientVars, localVars, muVars, Remembers
<1>3. Moves(t)
  BY Zenon, <1>1, <1>2 DEF Moves
<1>4. OwnApart(t)
  BY Zenon DEF MuInv, ListsAreApart, OwnApart
<1>5. ToWake(t) = us[t].wake /\ ToWake(t)' = Tail(us[t].wake)
  BY Zenon, <1>2 DEF ToWake
<1>6. /\ p \in Range(ToWake(t)) /\ p \in Threads
      /\ Range(ToWake(t)') = Range(ToWake(t)) \ {p} /\ IsInjective(ToWake(t)')
  <2>1. IsInjective(us[t].wake)
    BY Zenon, <1>4, <1>5 DEF OwnApart
  <2> QED
    BY Zenon, <1>1, <1>2, <1>5, <2>1, TailRange
<1>7. Asleep(p) /\ p \notin Range(waiters) \cup Range(us[t].new) \cup Range(us[t].seen)
  <2>1. p \in Local(t)
    BY Zenon, <1>6 DEF Local
  <2> QED
    BY Zenon, <1>4, <1>6, <2>1, ListedWait DEF OwnApart
<1>8. /\ Local(t)' = Local(t) \ {p} /\ Own(t)' = Own(t) \ {p} /\ Queues(t)' = Queues(t)
      /\ p \in Own(t)
  <2>1. Local(t)' = Local(t) \ {p} /\ p \in Local(t)
    BY Zenon, <1>2, <1>6, <1>7 DEF Local
  <2> QED
    BY Zenon, <1>2, <1>7, <2>1 DEF Own, Queues
<1>9. OwnApart(t)'
  BY Zenon, <1>2, <1>4, <1>6, <1>8 DEF OwnApart
<1>10. /\ ~Asleep(p)' /\ \A x \in Threads \ {p} : Asleep(x)' <=> Asleep(x)
       /\ \A x \in Threads \ {p} : waiting'[x] = waiting[x]
       /\ waiting'[p] = FALSE
  BY Zenon, <1>1, <1>2, <1>3, <1>6 DEF Asleep, Moves, OnlyMoves, TypeOK
<1>11. SleepersAreOwned(t)
  <2>1. \A x \in Own(t) : x \in Threads /\ Asleep(x)
    BY Zenon, ListedWait DEF Own
  <2>2. \A x \in Own(t)' : x \in Own(t)
    BY Zenon, <1>8
  <2>3. ASSUME NEW x \in Threads
        PROVE  Asleep(x)' <=> x \in Own(t)' \/ (x \notin Own(t) /\ Asleep(x))
    <3>1. CASE x = p
      BY Zenon, <1>8, <1>10, <3>1
    <3>2. CASE x # p
      BY Zenon, <1>8, <1>10, <2>1, <3>2
    <3> QED
      BY Zenon, <3>1, <3>2
  <2> QED
    BY Zenon, <2>2, <2>3 DEF SleepersAreOwned
<1>12. ListsAreApart' /\ ListsAreComplete'
  BY Zenon, <1>3, <1>9, <1>11, ListsFollow
<1>13. ListedStay'
  <2>1. \A x \in Local(t) \ {t} : x \in Threads /\ pc[x] \notin {"us", "us_loop", "us_scan"}
    BY Zenon, ListedWait DEF MuInv, ListedStay
  <2>2. \A x \in Local(t)' : x # t => pc'[x] \notin {"us", "us_loop", "us_scan"}
    BY Zenon, <1>3, <1>8, <2>1 DEF Moves, OnlyMoves
  <2>3. \A x \in Range(ToWake(t))' : removed'[x]
    BY Zenon, <1>2, <1>6 DEF MuInv, ListedStay
  <2> QED
    BY Zenon, <1>2, <1>3, <2>2, <2>3, StayFollows
<1>14. Rings'
  <2>1. /\ same \in [Threads -> Threads] /\ RingsAreBlocks(same, cond, waiters)
        /\ RingsAreBlocks(same, cond, us[t].new) /\ RingsAreBlocks(same, cond, us[t].seen)
    BY Zenon DEF MuInv, Rings
  <2> QED
    BY <1>2, <1>3, <1>8, <1>11, <1>12, <2>1, RingsFollow
<1>15. Simple(t)
  <2>1. LocalsFollowPc(t)'
    <3>1. waiting'[t] => waiting[t]
      BY Zenon, <1>10
    <3> QED
      BY Zenon, <1>1, <1>2, <3>1 DEF LocalsFollowPc, SleepPCs, UsPCs, Scanning
  <2>2. SpinlockKeeps(t)'
    BY Zenon, <1>2 DEF SpinlockKeeps, Scanning, HoldsQueue
  <2>3. ~WaitsLong(t)
    BY Zenon, <1>2 DEF WaitsLong
  <2>4. \A u \in Threads \ {t} : /\ waiting'[u] => waiting[u]
                                 /\ pc[u] = "mw_queue" /\ waiting[u] => waiting'[u]
    BY Zenon, <1>7, <1>10 DEF Asleep
  <2> QED
    BY Zenon, <1>2, <1>3, <2>1, <2>2, <2>3, <2>4 DEF Simple
<1>16. StopsTesting(t)' /\ SeenIsFalse(t)'
  BY Zenon, <1>2 DEF StopsTesting, SeenIsFalse, Scanning
<1>17. OneScanner'
  BY Zenon, <1>2, <1>3, SameScanner DEF Scanning
<1>18. QueueBitsSet'
  <2>1. \A x \in Threads : Queued(x)' => Queued(x)
    BY Zenon, <1>3, <1>8, QueuedBy
  <2> QED
    BY Zenon, <1>2, <1>3, <2>1, QueueBitsKept
<1>19. AllFalseIsRight'
  <2>1. pc[t] \notin HoldPCs
    BY Zenon, <1>2 DEF HoldPCs
  <2> QED
    BY Zenon, <1>2, <1>3, <2>1, AllFalseKept
<1>20. WokenThreadGetsPost'
  <2> SUFFICES ASSUME NEW x \in Threads, pc'[x] \in {"ls_p", "mw_p"}, ~waiting'[x]
               PROVE  sem'[x] > 0 \/ \E u \in Threads : pc'[u] = "us_v" /\ Head(us'[u].wake) = x
    BY Zenon DEF WokenThreadGetsPost
  <2>1. CASE x = p
    BY Zenon, <1>2, <2>1
  <2>2. CASE x # p
    <3>1. pc[x] \in {"ls_p", "mw_p"} /\ ~waiting[x]
      BY Zenon, <1>2, <1>3, <1>10, <2>2 DEF Moves, OnlyMoves
    <3>2. sem[x] > 0 \/ \E u \in Threads : pc[u] = "us_v" /\ Head(us[u].wake) = x
      BY Zenon, <3>1 DEF MuInv, WokenThreadGetsPost
    <3> QED
      BY Zenon, <1>2, <1>3, <3>2 DEF Moves, OnlyMoves
  <2> QED
    BY Zenon, <2>1, <2>2
<1>21. DesigWakerExists'
  <2>1. ~Scanning(t)
    BY Zenon, <1>2 DEF Scanning
  <2>2. WasWoken(t) => WasWoken(t)'
    BY Zenon, <1>2, <1>10 DEF WasWoken, SleepPCs
  <2>3. WasWoken(p)'
    <3>1. LocalsFollowPc(p) /\ waiting[p]
      BY Zenon, <1>6, <1>7, ThreadKnows DEF Asleep
    <3>2. p # t => pc'[p] = pc[p] /\ pc[p] \notin {"us", "us_loop", "us_scan"}
      BY Zenon, <1>3, <1>6 DEF Moves, OnlyMoves, MuInv, ListedStay, Local
    <3> QED
      BY Zenon, <1>2, <1>7, <1>10, <3>1, <3>2 DEF WasWoken, LocalsFollowPc, UsPCs, Asleep,
         SleepPCs
  <2>4. \A x \in Threads : BeingWoken(x) => BeingWoken(x)' \/ x = p
    BY Zenon, <1>3, <1>6, QueuedBy
  <2>5. \A u \in Threads \ {t} : waiting'[u] => waiting[u]
    BY Zenon, <1>10
  <2> QED
    BY SMTT(30), <1>2, <1>3, <2>1, <2>2, <2>3, <2>4, <2>5, DesigKept
<1> QED
  BY SMTT(30), <1>2, <1>12, <1>13, <1>14, <1>15, <1>16, <1>17, <1>18, <1>19, <1>20, <1>21,
     StepKeeps

\* It posts the semaphore of that waiter.
LEMMA UsVKeeps ==
  ASSUME MuInv, IInv', NEW t \in Threads, OnlyMoves(t), UsV(t)
  PROVE  MuInv'
<1> DEFINE p == Head(us[t].wake)
<1>1. /\ TypeOK /\ LocalInv(t) /\ LocalsFollowPc(t) /\ us[t] \in UsType
  BY Zenon, ThreadKnows, ListedWait
<1>2. /\ pc[t] = "us_v" /\ pc'[t] \in {"us_wake", "mw_wait", "idle"}
      /\ pc'[t] # "us_wake" => Tail(us[t].wake) = <<>>
      /\ pc'[t] = "mw_wait" => ret[t] = "mu_wait"
      /\ pc'[t] = "idle" => ret[t] # "mu_wait"
      /\ ret[t] = "mu_wait" => ret'[t] = ret[t] /\ l_type'[t] = l_type[t]
      /\ word' = word /\ waiters' = waiters /\ removed' = removed /\ truth' = truth
      /\ waiting' = waiting /\ cond' = cond /\ ls' = ls /\ changed' = changed /\ same' = same
  BY Zenon, <1>1 DEF TypeOK, UsV, Released, Goto, clientVars, muVars
<1>3. /\ us'[t].new = us[t].new /\ us'[t].seen = us[t].seen
      /\ us'[t].wake = Tail(us[t].wake)
  BY Zenon, <1>1 DEF TypeOK, UsType, UsV
<1>4. Moves(t)
  <2>1. \A u \in Threads \ {t} : ret'[u] = ret[u]
    BY <1>1 DEF TypeOK, UsV, Released
  <2> QED
    BY Zenon, <1>1, <1>2, <2>1 DEF Moves
<1>5. ToWake(t)' = ToWake(t)
  BY Zenon, <1>2, <1>3 DEF ToWake
<1>6. \A x \in Threads : Asleep(x)' <=> Asleep(x)
  BY Zenon, <1>2, <1>4 DEF Asleep, Moves, OnlyMoves
<1>7. /\ ListsAreApart' /\ ListsAreComplete' /\ ListedStay' /\ Rings'
      /\ \A x \in Threads : /\ Queued(x)' <=> Queued(x)
                            /\ BeingWoken(x)' <=> BeingWoken(x)
  BY Zenon, <1>2, <1>3, <1>4, <1>5, <1>6, ListsKept
<1>8. Simple(t)
  <2>1. LocalsFollowPc(t)'
    BY Zenon, <1>1, <1>2, <1>3 DEF LocalsFollowPc, SleepPCs, UsPCs, Scanning
  <2>2. SpinlockKeeps(t)'
    BY Zenon, <1>2 DEF SpinlockKeeps, Scanning, HoldsQueue
  <2>3. ~WaitsLong(t)
    BY Zenon, <1>2 DEF WaitsLong
  <2> QED
    BY Zenon, <1>2, <1>4, <2>1, <2>2, <2>3 DEF Simple
<1>9. StopsTesting(t)' /\ SeenIsFalse(t)'
  BY Zenon, <1>2 DEF StopsTesting, SeenIsFalse, Scanning
<1>10. OneScanner'
  BY Zenon, <1>2, <1>4, SameScanner DEF Scanning
<1>11. QueueBitsSet'
  BY Zenon, <1>2, <1>4, <1>7, QueueBitsKept
<1>12. AllFalseIsRight'
  <2>1. pc[t] \notin HoldPCs
    BY Zenon, <1>2 DEF HoldPCs
  <2> QED
    BY Zenon, <1>2, <1>4, <2>1, AllFalseKept
<1>13. WokenThreadGetsPost'
  <2>1. \A x \in Threads : /\ sem[x] > 0 => sem'[x] > 0
                           /\ x = p => sem'[x] > 0
    <3>1. sem \in [Threads -> 0..SemMax] /\ SemMax \in Nat \ {0}
      BY Zenon, <1>1, BoundsAssumption DEF TypeOK
    <3>2. sem' = [sem EXCEPT ![p] = IF @ < SemMax THEN @ + 1 ELSE @]
      BY Zenon DEF UsV, SemV
    <3> QED
      BY <3>1, <3>2
  <2> SUFFICES ASSUME NEW x \in Threads, pc'[x] \in {"ls_p", "mw_p"}, ~waiting'[x]
               PROVE  sem'[x] > 0 \/ \E u \in Threads : pc'[u] = "us_v" /\ Head(us'[u].wake) = x
    BY Zenon DEF WokenThreadGetsPost
  <2>2. pc[x] \in {"ls_p", "mw_p"} /\ ~waiting[x]
    BY Zenon, <1>2, <1>4 DEF Moves, OnlyMoves
  <2>3. sem[x] > 0 \/ \E u \in Threads : pc[u] = "us_v" /\ Head(us[u].wake) = x
    BY Zenon, <2>2 DEF MuInv, WokenThreadGetsPost
  <2>4. \A u \in Threads : u # t => pc'[u] = pc[u] /\ us'[u] = us[u]
    BY Zenon, <1>4 DEF Moves, OnlyMoves
  <2> QED
    BY Zenon, <2>1, <2>3, <2>4
<1>14. DesigWakerExists'
  <2>1. ~Scanning(t)
    BY Zenon, <1>2 DEF Scanning
  <2>2. WasWoken(t) => WasWoken(t)'
    BY Zenon, <1>2 DEF WasWoken, SleepPCs
  <2> QED
    BY Zenon, <1>2, <1>4, <1>7, <2>1, <2>2, DesigKept
<1>15. Asleep(t) => cond'[t] = cond[t] /\ l_type'[t] = l_type[t]
  BY Zenon, <1>1, <1>2 DEF Asleep, LocalsFollowPc, SleepPCs
<1> QED
  BY SMTT(30), <1>2, <1>7, <1>8, <1>9, <1>10, <1>11, <1>12, <1>13, <1>14, <1>15, StepKeeps

-----------------------------------------------------------------------------
(* A wait that expires, and the steps together.                             *)

\* Acquiring in mu_try_acquire_after_timeout_or_cancel leaves the flags that speak
\* of waiters alone.
LEMMA MtBits ==
  ASSUME NEW w, NEW l
  PROVE  \A b \in {"WAITING", "CONDITION", "ALL_FALSE", "DESIG_WAKER", "LONG_WAIT"} :
           /\ b \in MtAcquired(w).bits <=> b \in w.bits
           /\ b \in AddToAcquire(w, l).bits <=> b \in w.bits
<1>1. MtAcquired(w).bits = (w.bits \cup {"WLOCK"} \cup {"SPINLOCK"}) \ {"WRITER_WAITING"}
  BY Zenon DEF MtAcquired, SetClear, AddToAcquire, ClearOnAcquire
<1>2. AddToAcquire(w, l).bits \in {w.bits, w.bits \cup {"WLOCK"}}
  BY Zenon DEF AddToAcquire
<1> QED
  BY Zenon, <1>1, <1>2

\* A thread whose wait has expired and that nobody has removed meanwhile is in the
\* queue, for it holds both the lock and the spinlock.
LEMMA ExpiredIsQueued ==
  ASSUME MuInv, NEW t \in Threads, MtCheck(t), StillQueued(t)
  PROVE  /\ t \in Range(waiters) /\ Local(t) = {}
         /\ us[t].new = <<>> /\ us[t].seen = <<>> /\ ToWake(t) = <<>>
<1>1. /\ pc[t] = "mt_check" /\ waiting[t] /\ ~removed[t]
  BY Zenon DEF MtCheck, StillQueued
<1>2. us[t].new = <<>> /\ us[t].seen = <<>> /\ ToWake(t) = <<>>
  BY Zenon, <1>1, ThreadKnows DEF LocalsFollowPc, Scanning, UsPCs, ToWake
<1>3. Local(t) = {}
  BY Zenon, <1>2, EmptyQueue DEF Local
<1>4. HoldsWrite(t) /\ HoldsSpinlock(t)
  BY Zenon, <1>1 DEF HoldsWrite, HoldsSpinlock
<1>5. ASSUME NEW u \in Threads PROVE t \notin Local(u)
  <2>1. CASE u = t
    BY Zenon, <1>3, <2>1
  <2>2. CASE u # t
    <3>1. us[u].new = <<>> /\ us[u].seen = <<>>
      BY <1>4, <2>2, NoOtherScanner, ThreadKnows DEF LocalsFollowPc
    <3>2. t \notin Range(ToWake(u))
      BY <1>1 DEF MuInv, ListedStay
    <3> QED
      BY <3>1, <3>2, EmptyQueue DEF Local
  <2> QED
    BY Zenon, <2>1, <2>2
<1>6. Listed(t)
  BY Zenon, <1>1 DEF MuInv, ListsAreComplete, Asleep
<1> QED
  BY <1>2, <1>3, <1>5, <1>6 DEF Listed

\* It takes itself out of the queue.
LEMMA ExpiredLeaves ==
  ASSUME MuInv, IInv', NEW t \in Threads, OnlyMoves(t), MtCheck(t), StillQueued(t)
  PROVE  MuInv'
<1>1. /\ TypeOK /\ LocalInv(t) /\ LocalsFollowPc(t) /\ Remembers(t)
      /\ waiters \in Seq(Threads)
  BY Zenon, ThreadKnows, ListedWait
<1>2. PICK i : i = IndexOf(waiters, t)
  BY Zenon
<1>3. /\ pc[t] = "mt_check" /\ pc'[t] = "mw_eval"
      /\ same' = RingAfterRemove(same, cond, waiters, i)
      /\ waiters' = Without(waiters, i)
      /\ removed' = [removed EXCEPT ![t] = TRUE]
      /\ waiting' = [waiting EXCEPT ![t] = FALSE]
      /\ word' = AddToAcquire(old[t], l_type[t]) /\ word = MtAcquired(old[t])
      /\ \A u \in Threads \ {t} : changed'[u] = changed[u]
      /\ waiting[t] /\ truth' = truth /\ us' = us
      /\ sem' = sem /\ ret' = ret /\ cond' = cond /\ l_type' = l_type /\ ls' = ls
  BY <1>1, <1>2 DEF TypeOK, MtCheck, StillQueued, Goto, Remembers
<1>4. Moves(t)
  BY Zenon, <1>1, <1>3 DEF Moves
<1>5. \A b \in {"WAITING", "CONDITION", "ALL_FALSE", "DESIG_WAKER", "LONG_WAIT"} :
        b \in word'.bits <=> b \in word.bits
  BY <1>3, MtBits
<1>6. OwnApart(t)
  BY Zenon DEF MuInv, ListsAreApart, OwnApart
<1>7. /\ t \in Range(waiters) /\ Local(t) = {}
      /\ us[t].new = <<>> /\ us[t].seen = <<>> /\ ToWake(t) = <<>>
  BY Zenon, ExpiredIsQueued
<1>8. i \in 1..Len(waiters) /\ waiters[i] = t
  <2>1. \E j \in DOMAIN waiters : waiters[j] = t
    BY <1>1, <1>7, InRange
  <2>2. i \in DOMAIN waiters /\ waiters[i] = t
    BY Zenon, <1>2, <2>1 DEF IndexOf
  <2> QED
    BY <1>1, <2>2
<1>9. Range(waiters') = Range(waiters) \ {t} /\ IsInjective(waiters')
  <2>1. IsInjective(waiters)
    BY Zenon, <1>6 DEF OwnApart
  <2>2. /\ Range(Without(waiters, i)) = Range(waiters) \ {waiters[i]}
        /\ IsInjective(Without(waiters, i))
    BY SMTT(30), <1>1, <1>8, <2>1, WithoutRange
  <2> QED
    BY <1>3, <1>8, <2>2
<1>10. ToWake(t)' = ToWake(t) /\ Local(t)' = {}
  <2>1. ToWake(t)' = ToWake(t)
    BY Zenon, <1>3 DEF ToWake
  <2> QED
    BY <1>3, <1>7, <2>1, EmptyQueue DEF Local
<1>11. /\ Own(t)' = Own(t) \ {t} /\ Queues(t)' = Queues(t) \ {t}
       /\ Queues(t) = Range(waiters) /\ t \in Own(t)
  BY SMTT(30), <1>3, <1>7, <1>9, <1>10, EmptyQueue DEF Own, Queues
<1>12. OwnApart(t)'
  BY SMTT(30), <1>3, <1>6, <1>9, <1>10 DEF OwnApart
<1>13. /\ ~Asleep(t)' /\ waiting'[t] = FALSE
       /\ \A x \in Threads \ {t} : (Asleep(x)' <=> Asleep(x)) /\ waiting'[x] = waiting[x]
  BY SMTT(30), <1>1, <1>3, <1>4 DEF Asleep, Moves, OnlyMoves, TypeOK
<1>14. SleepersAreOwned(t)
  <2>1. \A x \in Own(t) : x \in Threads /\ Asleep(x)
    BY Zenon, ListedWait DEF Own
  <2> QED
    BY <1>11, <1>13, <2>1 DEF SleepersAreOwned
<1>15. ListsAreApart' /\ ListsAreComplete'
  BY <1>4, <1>12, <1>14, ListsFollow
<1>16. ListedStay'
  <2>1. Range(ToWake(t))' = {}
    BY SMTT(30), <1>7, <1>10, EmptyQueue
  <2>2. \A p \in Threads : removed[p] => removed'[p]
    BY SMTT(30), <1>1, <1>3 DEF TypeOK
  <2> QED
    BY SMTT(30), <1>3, <1>4, <1>10, <2>1, <2>2, StayFollows
<1>17. Rings'
  <2>1. same \in [Threads -> Threads] /\ RingsAreBlocks(same, cond, waiters)
    BY Zenon DEF MuInv, Rings
  <2>2. Closed(same, waiters) /\ IsInjective(waiters)
    BY SMTT(30), QueuesClosed DEF MuInv, ListsAreApart
  <2>3. Removes(same', same, cond, waiters, i)
    BY SMTT(30), <1>1, <1>3, <1>8, <2>1, <2>2, RemoveBlocks
  <2>4. /\ same' \in [Threads -> Threads] /\ same'[t] = t
        /\ RingsAreBlocks(same', cond, waiters')
        /\ \A x \in Threads \ Range(waiters) : same'[x] = same[x]
    BY <1>3, <1>8, <2>3 DEF Removes
  <2>5. RingsAreBlocks(same', cond', us'[t].new) /\ RingsAreBlocks(same', cond', us'[t].seen)
    BY <1>3, <1>7, EmptyQueue
  <2>6. \A x \in Threads : x \notin Queues(t) /\ x \notin Queues(t)' => same'[x] = same[x]
    BY Zenon, <1>11, <2>4
  <2>7. \A x \in Queues(t) : x \notin Queues(t)' => same'[x] = x
    BY <1>11, <2>4
  <2> QED
    BY SMTT(30), <1>3, <1>4, <1>14, <1>15, <2>4, <2>5, <2>6, <2>7, RingsFollow
<1>18. Simple(t)
  <2>1. LocalsFollowPc(t)'
    BY <1>1, <1>3, <1>13 DEF LocalsFollowPc, SleepPCs, UsPCs, Scanning
  <2>2. SpinlockKeeps(t)'
    BY Zenon, <1>3 DEF SpinlockKeeps, Scanning, HoldsQueue
  <2>3. ~WaitsLong(t) /\ HoldsSpinlock(t)
    BY Zenon, <1>3 DEF WaitsLong, HoldsSpinlock
  <2> QED
    BY SMTT(30), <1>4, <1>5, <1>13, <2>1, <2>2, <2>3 DEF Simple
<1>19. StopsTesting(t)' /\ SeenIsFalse(t)'
  BY Zenon, <1>3 DEF StopsTesting, SeenIsFalse, Scanning
<1>20. OneScanner'
  BY SMTT(30), <1>3, <1>4, SameScanner DEF Scanning
<1>21. QueueBitsSet'
  <2>1. \A x \in Threads : Queued(x)' => Queued(x)
    BY SMTT(30), <1>4, <1>11, QueuedBy
  <2> QED
    BY SMTT(30), <1>3, <1>4, <1>5, <2>1, QueueBitsKept
<1>22. AllFalseIsRight'
  <2>1. pc[t] \notin HoldPCs /\ Range(waiters') \subseteq Range(waiters)
    BY <1>3, <1>9 DEF HoldPCs
  <2> QED
    BY SMTT(30), <1>3, <1>4, <1>5, <2>1, AllFalseKept
<1>23. WokenThreadGetsPost'
  BY SMTT(30), <1>3, <1>4, <1>13, PostsKept
<1>24. DesigWakerExists'
  <2>1. ~Scanning(t) /\ ~WasWoken(t)
    BY Zenon, <1>3 DEF Scanning, WasWoken, SleepPCs
  <2>2. \A x \in Threads : BeingWoken(x) => BeingWoken(x)'
    BY <1>4, <1>10, QueuedBy
  <2> QED
    BY SMTT(30), <1>3, <1>4, <1>5, <1>13, <2>1, <2>2, DesigKept
<1> QED
  BY SMTT(30), <1>3, <1>15, <1>16, <1>17, <1>18, <1>19, <1>20, <1>21, <1>22, <1>23, <1>24,
     StepKeeps

\* The thread whose wait has expired has the lock and the spinlock: it leaves the
\* queue, or releases both because a thread has already removed it.
LEMMA MtCheckKeeps ==
  ASSUME MuInv, IInv', NEW t \in Threads, OnlyMoves(t), MtCheck(t)
  PROVE  MuInv'
<1>1. CASE StillQueued(t)
  BY Zenon, <1>1, ExpiredLeaves
<1>2. CASE ~StillQueued(t)
  <2>1. TypeOK /\ LocalInv(t) /\ LocalsFollowPc(t) /\ Remembers(t)
    BY Zenon, ThreadKnows
  <2>2. /\ pc[t] = "mt_check" /\ pc'[t] = "mw_wait"
        /\ word' = old[t] /\ word = MtAcquired(old[t])
        /\ waiters' = waiters /\ us' = us /\ waiting' = waiting /\ removed' = removed
        /\ same' = same /\ truth' = truth /\ sem' = sem /\ changed' = changed
        /\ ret' = ret /\ cond' = cond /\ l_type' = l_type /\ ls' = ls
    BY <1>2, <2>1 DEF TypeOK, MtCheck, Goto, Remembers
  <2>3. Moves(t)
    BY Zenon, <2>1, <2>2 DEF Moves
  <2>4. \A b \in {"WAITING", "CONDITION", "ALL_FALSE", "DESIG_WAKER", "LONG_WAIT"} :
          b \in word'.bits <=> b \in word.bits
    BY <2>2, MtBits
  <2>5. LocalsFollowPc(t)'
    BY SMTT(30), <2>1, <2>2 DEF LocalsFollowPc, SleepPCs, UsPCs, Scanning
  <2>6. Calm(t)
    <3>1. WasWoken(t) => WasWoken(t)'
      BY Zenon, <2>2 DEF WasWoken, SleepPCs
    <3>2. pc[t] \notin HoldPCs
      BY Zenon, <2>2 DEF HoldPCs
    <3> QED
      BY <2>2, <2>4, <3>1, <3>2 DEF Calm
  <2>7. Simple(t)
    <3>1. ~WaitsLong(t)
      BY Zenon, <2>2 DEF WaitsLong
    <3> QED
      BY SMTT(30), <2>2, <2>3, <2>4, <2>5, <2>6, <3>1, CalmIsSimple
  <2> QED
    BY <2>6, <2>7, CalmStep
<1> QED
  BY Zenon, <1>1, <1>2

-----------------------------------------------------------------------------
(* Every step preserves MuInv.                                             *)

\* A call of a client.
LEMMA CallKeeps ==
  ASSUME MuInv, IInv', NEW t \in Threads, OnlyMoves(t), Call(t)
  PROVE  MuInv'
<1>1. CASE nsync_mu_lock(t) \/ nsync_mu_trylock(t) \/ nsync_mu_rlock(t) \/ nsync_mu_rtrylock(t)
  <2>1. PICK l \in LockTypes, how \in {"lock", "trylock"} : LockCall(t, l, how)
    BY Zenon, <1>1 DEF nsync_mu_lock, nsync_mu_trylock, nsync_mu_rlock, nsync_mu_rtrylock,
       LockTypes
  <2>2. Simple(t) /\ Calm(t)
    BY Zenon, <2>1, LockCallCalm
  <2> QED
    BY Zenon, <2>2, CalmStep
<1>2. CASE nsync_mu_wait(t) \/ nsync_mu_wait_with_deadline(t)
  <2>1. FALSE \in BOOLEAN /\ TRUE \in BOOLEAN
    BY Zenon
  <2>2. PICK c \in Conds \cup {NoCond}, timed \in BOOLEAN : MuWaitCall(t, c, timed)
    BY Zenon, <1>2, <2>1 DEF nsync_mu_wait, nsync_mu_wait_with_deadline
  <2>3. Simple(t) /\ Calm(t)
    BY Zenon, <2>2, MuWaitCallCalm
  <2> QED
    BY Zenon, <2>3, CalmStep
<1>3. CASE Change(t)
  BY Zenon, <1>3, ChangeKeeps
<1> QED
  BY <1>1, <1>2, <1>3 DEF Call

\* A release by a client.
LEMMA UnlockKeeps ==
  ASSUME MuInv, IInv', NEW t \in Threads, OnlyMoves(t), Unlock(t)
  PROVE  MuInv'
<1>1. PICK how \in {"unlock", "without_wakeup"} :
        UnlockCall(t, how) /\ (how = "without_wakeup" => changed[t] # "made_true")
  BY Zenon DEF Unlock, nsync_mu_unlock, nsync_mu_runlock, nsync_mu_unlock_without_wakeup
<1>2. Simple(t) /\ Calm(t)
  BY Zenon, <1>1, UnlockCallCalm
<1> QED
  BY Zenon, <1>2, CalmStep

\* A step of a call.
LEMMA StepOfThreadKeeps ==
  ASSUME MuInv, IInv', NEW t \in Threads, OnlyMoves(t), Step(t)
  PROVE  MuInv'
<1>1. CASE LockLoad(t) \/ LockCas(t) \/ SlowAcquire(t) \/ SlowSpinlock(t) \/ SlowTest(t) \/ SlowP(t)
  BY SMTT(30), <1>1, LockLoadCalm, LockCasCalm, SlowAcquireCalm, SlowSpinlockCalm, SlowTestCalm,
     SlowPCalm, CalmStep
<1>2. CASE UnlockLoad(t) \/ UnlockCas(t) \/ UsJustRelease(t)
  BY <1>2, UnlockLoadCalm, UnlockCasCalm, UsJustReleaseCalm, CalmStep
<1>3. CASE MwTest(t) \/ MwP(t) \/ MwExpire(t)
  BY <1>3, MwTestCalm, MwPCalm, MwExpireCalm, CalmStep
<1>4. CASE MtLoad(t) \/ MtCas(t) \/ MtMark(t) \/ MwEval(t)
  BY SMTT(30), <1>4, MtLoadCalm, MtCasCalm, MtMarkCalm, MwEvalCalm, CalmStep
<1>5. CASE SlowQueue(t) \/ MwSpinlock(t) \/ MwQueue(t) \/ MtCheck(t)
  BY <1>5, SlowQueueKeeps, MwSpinlockKeeps, MwQueueKeeps, MtCheckKeeps
<1>6. CASE UsBegin(t) \/ UsStartScan(t) \/ UsScan(t) \/ UsEndScan(t) \/ UsRelease(t)
             \/ UsWake(t) \/ UsV(t)
  BY SMTT(30), <1>6, UsBeginKeeps, UsStartScanKeeps, UsScanKeeps, UsEndScanKeeps,
     UsReleaseKeeps,
     UsWakeKeeps, UsVKeeps
<1> QED
  BY SMTT(30), <1>1, <1>2, <1>3, <1>4, <1>5, <1>6 DEF Step

\* A stuttering step.
LEMMA StutterKeeps ==
  ASSUME MuInv, IInv', UNCHANGED vars
  PROVE  MuInv'
<1>1. /\ word' = word /\ waiters' = waiters /\ truth' = truth /\ waiting' = waiting
      /\ sem' = sem /\ removed' = removed /\ cond' = cond /\ same' = same /\ pc' = pc
      /\ l_type' = l_type /\ ret' = ret /\ ls' = ls /\ us' = us /\ changed' = changed
  BY Zenon DEF vars, muVars, waiterVars, localVars, clientVars
<1>2. \A u \in Threads : ToWake(u)' = ToWake(u) /\ Local(u)' = Local(u)
  <2>1. \A u \in Threads : ToWake(u)' = ToWake(u)
    BY Zenon, <1>1 DEF ToWake
  <2> QED
    BY Zenon, <1>1, <2>1 DEF Local
<1>3. \A t \in Threads :
        LocalsFollowPc(t)' /\ SpinlockKeeps(t)' /\ StopsTesting(t)' /\ SeenIsFalse(t)'
  <2> SUFFICES ASSUME NEW t \in Threads
               PROVE  /\ LocalsFollowPc(t)' /\ SpinlockKeeps(t)' /\ StopsTesting(t)'
                      /\ SeenIsFalse(t)'
    BY Zenon
  <2>1. LocalsFollowPc(t) /\ SpinlockKeeps(t) /\ StopsTesting(t) /\ SeenIsFalse(t)
    BY Zenon DEF MuInv
  <2>2. LocalsFollowPc(t)'
    BY <1>1, <2>1 DEF LocalsFollowPc, Scanning
  <2>3. SpinlockKeeps(t)'
    BY Zenon, <1>1, <2>1 DEF SpinlockKeeps, Scanning, HoldsQueue
  <2>4. StopsTesting(t)'
    BY SMTT(30), <1>1, <2>1 DEF StopsTesting
  <2>5. SeenIsFalse(t)'
    BY <1>1, <2>1 DEF SeenIsFalse, Scanning, IsTrue
  <2> QED
    BY <2>2, <2>3, <2>4, <2>5
<1>4. OneScanner'
  BY SMTT(30), <1>1 DEF MuInv, OneScanner, Scanning
<1>5. ListsAreApart'
  BY SMTT(30), <1>1, <1>2 DEF MuInv, ListsAreApart
<1>11. ListsAreComplete'
  BY <1>1, <1>2 DEF MuInv, ListsAreComplete, Asleep, Listed
<1>12. ListedStay'
  BY <1>1, <1>2 DEF MuInv, ListedStay
<1>6. \A x \in Threads : (Queued(x)' <=> Queued(x)) /\ (BeingWoken(x)' <=> BeingWoken(x))
  BY SMTT(30), <1>1, <1>2 DEF Queued, BeingWoken
<1>7. Rings' /\ QueueBitsSet'
  BY SMTT(30), <1>1, <1>6 DEF MuInv, Rings, QueueBitsSet
<1>8. AllFalseIsRight'
  BY <1>1 DEF MuInv, AllFalseIsRight, IsTrue
<1>9. WokenThreadGetsPost' /\ LongWaitHasOwner'
  BY SMTT(30), <1>1 DEF MuInv, WokenThreadGetsPost, LongWaitHasOwner
<1>10. DesigWakerExists'
  BY <1>1, <1>6 DEF MuInv, DesigWakerExists
<1> QED
  BY SMTT(30), <1>3, <1>4, <1>5, <1>7, <1>8, <1>9, <1>10, <1>11, <1>12 DEF MuInv

\* The initial states.
LEMMA InitKeeps ==
  ASSUME Init, IInv
  PROVE  MuInv
<1>2. /\ word.bits = {} /\ waiters = <<>> /\ same = [t \in Threads |-> t]
      /\ \A t \in Threads : /\ ~waiting[t] /\ pc[t] = "idle" /\ changed[t] = "nothing"
                            /\ ls[t] = NoLs /\ us[t].new = <<>> /\ us[t].seen = <<>>
                            /\ us[t].wake = <<>>
  BY Zenon DEF Init, ZeroWord, NoUs
<1>3. \A t \in Threads : Local(t) = {} /\ ToWake(t) = <<>>
  <2>1. \A t \in Threads : ToWake(t) = <<>>
    BY Zenon, <1>2 DEF ToWake
  <2> QED
    BY <1>2, <2>1, EmptyQueue DEF Local
<1>4. ASSUME NEW t \in Threads
      PROVE  LocalsFollowPc(t) /\ SpinlockKeeps(t) /\ StopsTesting(t) /\ SeenIsFalse(t)
  BY Zenon, <1>2 DEF LocalsFollowPc, SpinlockKeeps, StopsTesting, SeenIsFalse, Scanning,
     HoldsQueue,
     UsPCs, SleepPCs
<1>5. OneScanner
  BY Zenon, <1>2 DEF OneScanner, Scanning
<1>6. ListsAreApart
  BY <1>2, <1>3, EmptyQueue DEF ListsAreApart
<1>7. ListsAreComplete /\ ListedStay
  BY <1>2, <1>3, EmptyQueue DEF ListsAreComplete, ListedStay, Asleep, Listed
<1>8. Rings
  BY <1>2, EmptyQueue DEF Rings
<1>9. QueueBitsSet
  BY Zenon, <1>2, EmptyQueue DEF QueueBitsSet, Queued
<1>10. AllFalseIsRight /\ WokenThreadGetsPost /\ LongWaitHasOwner /\ DesigWakerExists
  BY Zenon, <1>2 DEF AllFalseIsRight, WokenThreadGetsPost, LongWaitHasOwner, DesigWakerExists
<1> QED
  BY SMTT(30), <1>4, <1>5, <1>6, <1>7, <1>8, <1>9, <1>10 DEF MuInv
=============================================================================
