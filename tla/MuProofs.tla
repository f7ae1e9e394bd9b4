------------------------------ MODULE MuProofs -------------------------------
(***************************************************************************)
(* Theorems about Mu for every set of threads and conditions: type         *)
(* correctness, mutual exclusion, the meaning of the lock word and of its  *)
(* flags, that a sleeping thread is where it will be found, and that Mu    *)
(* implements RWLock.                                                      *)
(***************************************************************************)
EXTENDS MuStepProofs, MuWakeProofs, FiniteSetTheorems

-----------------------------------------------------------------------------
(* What the states remember.                                               *)

\* What the size of a set says about its elements.
LEMMA CountFacts ==
  ASSUME NEW R, IsFiniteSet(R)
  PROVE  /\ Cardinality(R) \in Nat
         /\ Cardinality(R) = 0 <=> R = {}
         /\ \A x, y \in R : x # y => Cardinality(R) > 1
<1>1. Cardinality(R) \in Nat /\ (Cardinality(R) = 0 <=> R = {})
  BY Zenon, FS_CardinalityType, FS_EmptySet
<1>2. ASSUME NEW x \in R, NEW y \in R, x # y PROVE Cardinality(R) > 1
  <2>1. IsFiniteSet({x}) /\ Cardinality({x}) = 1
    BY Zenon, FS_Singleton
  <2>2. Cardinality({x} \cup {y}) = Cardinality({x}) + 1
    BY <1>2, <2>1, FS_AddElement
  <2>3. {x} \cup {y} \in SUBSET R
    BY Zenon
  <2>4. Cardinality({x} \cup {y}) <= Cardinality(R)
    BY Zenon, <2>3, FS_Subset
  <2> QED
    BY <1>1, <2>1, <2>2, <2>4
<1> QED
  BY Zenon, <1>1, <1>2

\* The threads that do not move hold what they held.
LEMMA OthersHold ==
  ASSUME NEW t \in Threads, OnlyMoves(t), NEW u \in Threads, u # t
  PROVE  /\ HoldsWrite(u)' <=> HoldsWrite(u)
         /\ HoldsRead(u)' <=> HoldsRead(u)
         /\ HoldsSpinlock(u)' <=> HoldsSpinlock(u)
<1>1. pc'[u] = pc[u] /\ l_type'[u] = l_type[u] /\ us'[u] = us[u]
  BY Zenon DEF OnlyMoves
<1> QED
  BY Zenon, <1>1 DEF HoldsWrite, HoldsRead, HoldsSpinlock

\* A step of one thread that is OK preserves the invariant.
LEMMA Preserved ==
  ASSUME IInv, TypeOK', NEW t \in Threads, OnlyMoves(t), StepOK(t), Remembers(t)'
  PROVE  IInv'
<1>1. \A u \in Threads \ {t} : /\ HoldsWrite(u)' <=> HoldsWrite(u)
                               /\ HoldsRead(u)' <=> HoldsRead(u)
                               /\ HoldsSpinlock(u)' <=> HoldsSpinlock(u)
  BY Zenon, OthersHold
<1>2. word.readers \in Nat /\ word'.readers \in Nat
  BY Zenon DEF IInv, TypeOK, Word
<1>3. "WLOCK" \in word'.bits <=> WriteHolders' # {}
  <2>1. WriteHolders \ {t} = WriteHolders' \ {t}
    BY Zenon, <1>1 DEF WriteHolders
  <2>2. "WLOCK" \in word.bits <=> WriteHolders # {}
    BY Zenon DEF IInv, WordCountsHolders
  <2>3. t \in WriteHolders <=> HoldsWrite(t)
    BY Zenon DEF WriteHolders
  <2>4. t \in WriteHolders' <=> HoldsWrite(t)'
    BY Zenon DEF WriteHolders
  <2>5. HoldsWrite(t) => WriteHolders = {t}
    BY Zenon DEF WriteHolders, IInv, MutualExclusion
  <2> QED
    BY SMTT(30), <2>1, <2>2, <2>3, <2>4, <2>5 DEF StepOK, BitFollows
<1>4. word'.readers = Cardinality(ReadHolders')
  <2>1. IsFiniteSet(ReadHolders) /\ IsFiniteSet(ReadHolders')
    BY ThreadsFinite, FS_Subset DEF ReadHolders
  <2>2. word.readers = Cardinality(ReadHolders)
    BY DEF IInv, WordCountsHolders
  <2>3. t \in ReadHolders <=> HoldsRead(t)
    BY Zenon DEF ReadHolders
  <2>4. t \in ReadHolders' <=> HoldsRead(t)'
    BY Zenon DEF ReadHolders
  <2>5. CASE HoldsRead(t) = HoldsRead(t)'
    <3>1. ReadHolders' = ReadHolders
      BY Zenon, <1>1, <2>5 DEF ReadHolders
    <3> QED
      BY SMTT(30), <3>1, <2>2, <2>5, <1>2 DEF StepOK, ReadersFollow
  <2>6. CASE ~HoldsRead(t) /\ HoldsRead(t)'
    <3>1. ReadHolders' = ReadHolders \cup {t}
      BY <1>1, <2>6 DEF ReadHolders
    <3>2. Cardinality(ReadHolders') = Cardinality(ReadHolders) + 1
      BY SMTT(30), <3>1, <2>1, <2>3, <2>6, FS_AddElement
    <3>3. word'.readers = word.readers + 1
      BY <2>6, <1>2 DEF StepOK, ReadersFollow
    <3> QED
      BY <3>2, <3>3, <2>2
  <2>7. CASE HoldsRead(t) /\ ~HoldsRead(t)'
    <3>1. ReadHolders' = ReadHolders \ {t}
      BY <1>1, <2>7 DEF ReadHolders
    <3>2. Cardinality(ReadHolders') = Cardinality(ReadHolders) - 1
      BY SMTT(30), <3>1, <2>1, <2>3, <2>7, FS_RemoveElement
    <3>3. word'.readers = word.readers - 1
      BY <2>7, <1>2 DEF StepOK, ReadersFollow
    <3> QED
      BY SMTT(30), <3>2, <3>3, <2>2
  <2>8. HoldsRead(t) \in BOOLEAN /\ HoldsRead(t)' \in BOOLEAN
    BY Zenon DEF HoldsRead
  <2> QED
    BY SMTT(30), <2>5, <2>6, <2>7, <2>8
<1>5. SpinlockExclusion'
  <2>1. HoldsSpinlock(t) => \A u \in Threads : HoldsSpinlock(u) => u = t
    BY Zenon DEF IInv, SpinlockExclusion
  <2>2. "SPINLOCK" \in word.bits <=> \E u \in Threads : HoldsSpinlock(u)
    BY Zenon DEF IInv, SpinlockExclusion
  <2>3. "SPINLOCK" \in word'.bits <=> \E u \in Threads : HoldsSpinlock(u)'
    BY SMTT(30), <1>1, <2>1, <2>2 DEF StepOK, BitFollows
  <2>4. ASSUME NEW v \in Threads, NEW u \in Threads,
               HoldsSpinlock(v)', HoldsSpinlock(u)', v # u
        PROVE  FALSE
    BY SMTT(30), <1>1, <2>2, <2>4 DEF StepOK, BitFollows, IInv, SpinlockExclusion
  <2> QED
    BY <2>3, <2>4 DEF SpinlockExclusion
<1>6. MutualExclusion'
  <2>1. \A v \in Threads : HoldsWrite(v)' => "WLOCK" \in word'.bits
    BY Zenon, <1>3 DEF WriteHolders
  <2>2. "WLOCK" \in word'.bits => ReadHolders' = {}
    <3>1. IsFiniteSet(ReadHolders')
      BY ThreadsFinite, FS_Subset DEF ReadHolders
    <3> QED
      BY SMTT(30), <3>1, <1>4, FS_EmptySet DEF StepOK
  <2>3. ASSUME NEW v \in Threads, NEW u \in Threads,
               HoldsWrite(v)', HoldsWrite(u)', v # u
        PROVE  FALSE
    <3>1. \A x \in Threads : HoldsWrite(x) => "WLOCK" \in word.bits
      BY Zenon DEF IInv, WordCountsHolders, WriteHolders
    <3> QED
      BY SMTT(30), <1>1, <2>3, <3>1 DEF StepOK, BitFollows, IInv, MutualExclusion
  <2> QED
    BY <2>1, <2>2, <2>3 DEF MutualExclusion, ReadHolders
<1>7. RememberedStateIsGood'
  <2> SUFFICES ASSUME NEW u \in Threads PROVE Remembers(u)'
    BY Zenon DEF RememberedStateIsGood, Remembers
  <2>1. CASE u = t
    BY Zenon, <2>1
  <2>2. CASE u # t
    <3>1. /\ pc'[u] = pc[u] /\ l_type'[u] = l_type[u] /\ us'[u] = us[u]
          /\ old'[u] = old[u] /\ mw'[u] = mw[u]
      BY Zenon, <2>2 DEF OnlyMoves
    <3>2. Remembers(u)
      BY Zenon DEF IInv, RememberedStateIsGood, Remembers
    <3>3. pc[u] = "mt_check" => word' = word
      <4> SUFFICES ASSUME pc[u] = "mt_check" PROVE word' = word
        BY Zenon
      <4>1. HoldsWrite(u) /\ HoldsSpinlock(u)
        BY Zenon DEF HoldsWrite, HoldsSpinlock
      <4>2. "WLOCK" \in word.bits /\ "SPINLOCK" \in word.bits
        BY <4>1, HoldersShow DEF LocalInv, ShowsInWord
      <4>3. ~HoldsWrite(t) /\ ~HoldsRead(t) /\ ~HoldsSpinlock(t)
        BY <4>1, <2>2 DEF IInv, MutualExclusion, SpinlockExclusion
      <4> QED
        BY Zenon, <4>2, <4>3 DEF StepOK
    <3> QED
      BY SMTT(30), <3>1, <3>2, <3>3 DEF Remembers, CanAcquire, MtCanMark, MtCanAcquire,
         MtAcquired
  <2> QED
    BY <2>1, <2>2
<1>8. WordShows'
  <2>1. IsFiniteSet(ReadHolders')
    BY Zenon, ThreadsFinite, FS_Subset DEF ReadHolders
  <2>2. /\ word'.readers = 0 <=> ReadHolders' = {}
        /\ \A x, y \in ReadHolders' : x # y => word'.readers > 1
    BY SMTT(30), <1>4, <2>1, CountFacts
  <2>3. "WLOCK" \in word'.bits => word'.readers = 0
    BY Zenon DEF StepOK
  <2> SUFFICES ASSUME NEW v \in Threads
               PROVE  /\ ShowsInWord(v)'
                      /\ \A u \in Threads \ {v} : HoldsRead(v)' /\ HoldsRead(u)'
                                                   => word'.readers > 1
    BY Zenon DEF WordShows
  <2>4. \A u \in Threads : u \in ReadHolders' <=> HoldsRead(u)'
    BY Zenon DEF ReadHolders
  <2>5. HoldsWrite(v)' => "WLOCK" \in word'.bits
    BY Zenon, <1>3 DEF WriteHolders
  <2>6. HoldsSpinlock(v)' => "SPINLOCK" \in word'.bits
    BY Zenon, <1>5 DEF SpinlockExclusion
  <2>7. ~(HoldsWrite(v)' /\ HoldsRead(v)')
    BY Zenon DEF HoldsWrite, HoldsRead, HoldPCs
  <2>8. ShowsInWord(v)'
    BY SMTT(30), <1>2, <2>2, <2>3, <2>4, <2>5, <2>6, <2>7 DEF ShowsInWord
  <2> QED
    BY SMTT(30), <2>2, <2>4, <2>8
<1> QED
  BY SMTT(30), <1>3, <1>4, <1>5, <1>6, <1>7, <1>8 DEF IInv, WordCountsHolders


\* Every step of a thread is good.
LEMMA ThreadGood ==
  ASSUME IInv, NEW t \in Threads, Call(t) \/ Unlock(t) \/ Step(t)
  PROVE  Good(t)
<1> USE HoldersShow
<1>1. CASE Call(t)
  <2>1. CASE nsync_mu_lock(t) \/ nsync_mu_trylock(t)
    BY Zenon, <2>1, LockCallGood DEF nsync_mu_lock, nsync_mu_trylock, LockTypes
  <2>2. CASE nsync_mu_rlock(t) \/ nsync_mu_rtrylock(t)
    BY <2>2, LockCallGood DEF nsync_mu_rlock, nsync_mu_rtrylock, LockTypes
  <2>3. CASE nsync_mu_wait(t)
    <3>1. PICK c \in Conds \cup {NoCond} : MuWaitCall(t, c, FALSE)
      BY Zenon, <2>3 DEF nsync_mu_wait
    <3> QED
      BY Zenon, <3>1, MuWaitCallGood
  <2>4. CASE nsync_mu_wait_with_deadline(t)
    <3>1. PICK c \in Conds \cup {NoCond} : MuWaitCall(t, c, TRUE)
      BY Zenon, <2>4 DEF nsync_mu_wait_with_deadline
    <3> QED
      BY Zenon, <3>1, MuWaitCallGood
  <2>5. CASE Change(t)
    BY Zenon, <2>5, ChangeGood
  <2> QED
    BY SMTT(30), <1>1, <2>1, <2>2, <2>3, <2>4, <2>5 DEF Call
<1>2. CASE Unlock(t)
  BY SMTT(30), <1>2, UnlockCallGood DEF Unlock, nsync_mu_unlock, nsync_mu_runlock,
     nsync_mu_unlock_without_wakeup
<1>3. CASE Step(t)
  <2>1. CASE LockLoad(t) \/ LockCas(t) \/ SlowAcquire(t) \/ SlowSpinlock(t)
               \/ SlowQueue(t) \/ SlowTest(t) \/ SlowP(t)
    BY SMTT(30), <2>1, LockLoadGood, LockCasGood, SlowAcquireGood, SlowSpinlockGood,
       SlowQueueGood, SlowTestGood, SlowPGood
  <2>2. CASE UnlockLoad(t) \/ UnlockCas(t) \/ UsJustRelease(t) \/ UsBegin(t)
               \/ UsStartScan(t) \/ UsScan(t) \/ UsEndScan(t) \/ UsRelease(t)
               \/ UsWake(t) \/ UsV(t)
    BY SMTT(30), <2>2, UnlockLoadGood, UnlockCasGood, UsJustReleaseGood, UsBeginGood,
       UsStartScanGood, UsScanGood, UsEndScanGood, UsReleaseGood, UsWakeGood, UsVGood
  <2>3. CASE MwSpinlock(t) \/ MwQueue(t) \/ MwTest(t) \/ MwP(t) \/ MwExpire(t)
    BY SMTT(30), <2>3, MwSpinlockGood, MwQueueGood, MwTestGood, MwPGood, MwExpireGood
  <2>4. CASE MtLoad(t) \/ MtCas(t) \/ MtMark(t) \/ MtCheck(t) \/ MwEval(t)
    BY SMTT(30), <2>4, MtLoadGood, MtCasGood, MtMarkGood, MtCheckGood, MwEvalGood
  <2> QED
    BY SMTT(30), <1>3, <2>1, <2>2, <2>3, <2>4 DEF Step
<1> QED
  BY SMTT(30), <1>1, <1>2, <1>3

\* Every step of the mutex is a good step of one thread.
LEMMA NextGood ==
  ASSUME IInv, Next
  PROVE  (\E t \in Threads : Good(t)) \/ UNCHANGED vars
BY Zenon, ThreadGood DEF Next, Terminating

\* A zeroed mutex satisfies the invariant.
LEMMA InitIInv ==
  ASSUME Init
  PROVE  IInv
<1>1. TypeOK
  BY NoLocalsType, BoundsAssumption DEF Init, TypeOK, ZeroWord, Word, PCs, HoldPCs,
     LockTypes, RetPoints
<1>2. \A t \in Threads : ~HoldsWrite(t) /\ ~HoldsRead(t) /\ ~HoldsSpinlock(t)
  BY Zenon DEF Init, HoldsWrite, HoldsRead, HoldsSpinlock, HoldPCs
<1>3. MutualExclusion /\ SpinlockExclusion
  BY Zenon, <1>2 DEF MutualExclusion, SpinlockExclusion, Init, ZeroWord
<1>4. WordCountsHolders
  <2>1. WriteHolders = {} /\ ReadHolders = {}
    BY Zenon, <1>2 DEF WriteHolders, ReadHolders
  <2> QED
    BY Zenon, <2>1, FS_EmptySet DEF WordCountsHolders, Init, ZeroWord
<1>5. RememberedStateIsGood
  BY Zenon DEF RememberedStateIsGood, Init, NoMw
<1>6. WordShows
  BY Zenon, <1>2 DEF WordShows, ShowsInWord, Init, ZeroWord
<1> QED
  BY SMTT(30), <1>1, <1>3, <1>4, <1>5, <1>6 DEF IInv

\* Every step preserves the invariant.
LEMMA NextIInv ==
  ASSUME IInv, [Next]_vars
  PROVE  IInv'
<1>1. CASE UNCHANGED vars
  BY ZenonT(30), <1>1 DEF IInv, TypeOK, MutualExclusion, WordCountsHolders, SpinlockExclusion,
     RememberedStateIsGood, WordShows, ShowsInWord, HoldsWrite, HoldsRead, HoldsSpinlock,
     WriteHolders, ReadHolders, vars, muVars, waiterVars, localVars, clientVars
<1>2. ASSUME NEW t \in Threads, Good(t) PROVE IInv'
  BY Zenon, <1>2, Preserved DEF Good
<1> QED
  BY SMTT(30), <1>1, <1>2, NextGood

\* Every step preserves MuInv.
LEMMA NextMuInv ==
  ASSUME MuInv, [Next]_vars
  PROVE  MuInv'
<1>1. IInv /\ IInv'
  BY Zenon, NextIInv DEF MuInv
<1>2. CASE UNCHANGED vars
  BY <1>1, <1>2, StutterKeeps
<1>3. ASSUME NEW t \in Threads, Call(t) \/ Unlock(t) \/ Step(t) PROVE MuInv'
  <2>1. OnlyMoves(t)
    BY SMTT(30), <1>1, <1>3, ThreadGood DEF Good
  <2> QED
    BY <1>1, <1>3, <2>1, CallKeeps, UnlockKeeps, StepOfThreadKeeps
<1> QED
  BY <1>2, <1>3 DEF Next, Terminating

\* The places of a waiter in one list.
LEMMA PlacesInList ==
  ASSUME NEW q \in Seq(Threads), NEW t, NEW name
  PROVE  /\ t \notin Range(q) => PlacesIn(q, t, name) = {}
         /\ t \in Range(q) /\ IsInjective(q) => \E x : PlacesIn(q, t, name) = {x}
<1>1. DOMAIN q = 1..Len(q)
  OBVIOUS
<1>2. ASSUME t \notin Range(q) PROVE PlacesIn(q, t, name) = {}
  BY SMTT(30), <1>1, <1>2, InRange DEF PlacesIn
<1>3. ASSUME t \in Range(q), IsInjective(q) PROVE \E x : PlacesIn(q, t, name) = {x}
  <2>1. PICK j \in 1..Len(q) : q[j] = t
    BY Zenon, <1>3, InRange
  <2>2. \A k \in 1..Len(q) : q[k] = t => k = j
    BY SMTT(30), <1>3, <2>1, Injective
  <2>3. PlacesIn(q, t, name) = {<<name, j>>}
    BY SMTT(30), <1>1, <2>1, <2>2 DEF PlacesIn
  <2> QED
    BY Zenon, <2>3
<1> QED
  BY Zenon, <1>2, <1>3

\* A sleeping thread is in one place of one list, any other is in none.
LEMMA ListedOnce ==
  ASSUME MuInv
  PROVE  SleeperIsListedOnce
<1> SUFFICES ASSUME NEW t \in Threads
             PROVE  Cardinality(PlacesOf(t)) = IF Asleep(t) THEN 1 ELSE 0
  BY Zenon DEF SleeperIsListedOnce, Asleep
<1> DEFINE PlacesAt(u) == PlacesIn(us[u].new, t, <<u, "new">>)
                            \cup PlacesIn(us[u].seen, t, <<u, "seen">>)
                            \cup PlacesIn(ToWake(u), t, <<u, "wake">>)
           InMu == PlacesIn(waiters, t, <<t, "mu">>)
<1>1. PlacesOf(t) = InMu \cup UNION {PlacesAt(u) : u \in Threads}
  BY Zenon DEF PlacesOf
<1>2. Asleep(t) <=> Listed(t)
  BY Zenon DEF MuInv, ListsAreComplete
<1>3. /\ t \notin Range(waiters) => InMu = {}
      /\ t \in Range(waiters) => \E x : InMu = {x}
  <2>1. waiters \in Seq(Threads) /\ IsInjective(waiters)
    BY ListedWait DEF MuInv, ListsAreApart
  <2> QED
    BY Zenon, <2>1, PlacesInList
<1>4. ASSUME NEW u \in Threads
      PROVE  /\ t \notin Local(u) => PlacesAt(u) = {}
             /\ t \in Local(u) => \E x : PlacesAt(u) = {x}
  <2>1. /\ us[u].new \in Seq(Threads) /\ us[u].seen \in Seq(Threads)
        /\ ToWake(u) \in Seq(Threads)
    BY ListedWait
  <2>2. /\ IsInjective(us[u].new) /\ IsInjective(us[u].seen) /\ IsInjective(ToWake(u))
        /\ Range(us[u].new) \cap Range(us[u].seen) = {}
        /\ Range(ToWake(u)) \cap (Range(us[u].new) \cup Range(us[u].seen)) = {}
    BY Zenon DEF MuInv, ListsAreApart
  <2>3. \A q \in Seq(Threads) : \A name :
          /\ t \notin Range(q) => PlacesIn(q, t, name) = {}
          /\ t \in Range(q) /\ IsInjective(q) => \E x : PlacesIn(q, t, name) = {x}
    BY Zenon, PlacesInList
  <2>4. /\ t \notin Range(us[u].new) => PlacesIn(us[u].new, t, <<u, "new">>) = {}
        /\ t \in Range(us[u].new) => \E x : PlacesIn(us[u].new, t, <<u, "new">>) = {x}
    BY Zenon, <2>1, <2>2, <2>3
  <2>5. /\ t \notin Range(us[u].seen) => PlacesIn(us[u].seen, t, <<u, "seen">>) = {}
        /\ t \in Range(us[u].seen) => \E x : PlacesIn(us[u].seen, t, <<u, "seen">>) = {x}
    BY Zenon, <2>1, <2>2, <2>3
  <2>6. /\ t \notin Range(ToWake(u)) => PlacesIn(ToWake(u), t, <<u, "wake">>) = {}
        /\ t \in Range(ToWake(u)) => \E x : PlacesIn(ToWake(u), t, <<u, "wake">>) = {x}
    BY ZenonT(30), <2>1, <2>2, <2>3
  <2>7. t \in Range(us[u].new) \/ t \in Range(us[u].seen) \/ t \in Range(ToWake(u))
          <=> t \in Local(u)
    BY Zenon DEF Local
  <2> QED
    BY Zenon, <2>2, <2>4, <2>5, <2>6, <2>7
<1> HIDE DEF PlacesAt, InMu
<1>5. CASE ~Asleep(t)
  <2>1. PlacesOf(t) = {}
    BY SMTT(30), <1>1, <1>2, <1>3, <1>4, <1>5 DEF Listed
  <2> QED
    BY <1>5, <2>1, FS_EmptySet
<1>6. CASE Asleep(t)
  <2>1. \E x : PlacesOf(t) = {x}
    <3>1. CASE t \in Range(waiters)
      <4>1. \A u \in Threads : t \notin Local(u)
        BY SMTT(30), <3>1 DEF MuInv, ListsAreApart
      <4>2. \A u \in Threads : PlacesAt(u) = {}
        BY Zenon, <1>4, <4>1
      <4>3. PlacesOf(t) = InMu
        BY SMTT(30), <1>1, <4>2
      <4> QED
        BY <1>3, <3>1, <4>3
    <3>2. CASE t \notin Range(waiters)
      <4>1. PICK u \in Threads : t \in Local(u)
        BY SMTT(30), <1>2, <1>6, <3>2 DEF Listed
      <4>2. \A v \in Threads : v # u => PlacesAt(v) = {}
        BY SMTT(30), <1>4, <4>1 DEF MuInv, ListsAreApart
      <4>3. PlacesOf(t) = PlacesAt(u)
        BY SMTT(30), <1>1, <1>3, <3>2, <4>2
      <4> QED
        BY SMTT(30), <1>4, <4>1, <4>3
    <3> QED
      BY ZenonT(30), <3>1, <3>2
  <2>2. PICK x : PlacesOf(t) = {x}
    BY Zenon, <2>1
  <2>3. Cardinality(PlacesOf(t)) = 1
    BY Zenon, <2>2, FS_Singleton
  <2> QED
    BY SMTT(30), <1>6, <2>3
<1> QED
  BY Zenon, <1>5, <1>6

-----------------------------------------------------------------------------
(* The theorems.                                                           *)

\* Every reachable state satisfies the inductive invariant.
THEOREM Invariance == Spec => []IInv
<1>1. Init => IInv
  BY Zenon, InitIInv
<1>2. IInv /\ [Next]_vars => IInv'
  BY Zenon, NextIInv
<1> QED
  BY <1>1, <1>2, PTL DEF Spec

\* The mutex, its waiters and the locals of every call keep their types.
THEOREM TypeCorrect == Spec => []TypeOK
<1>1. IInv => TypeOK
  BY SMTT(30) DEF IInv
<1> QED
  BY <1>1, Invariance, PTL

\* While a thread holds the mutex in write mode, no other thread holds it, for
\* any number of threads and through every path of mu.c and mu_wait.c.
THEOREM MutualExclusionHolds == Spec => []MutualExclusion
<1>1. IInv => MutualExclusion
  BY SMTT(30) DEF IInv
<1> QED
  BY <1>1, Invariance, PTL

\* MU_WLOCK and MU_RLOCK_FIELD always say who holds the mutex.
THEOREM WordIsExact == Spec => []WordCountsHolders
<1>1. IInv => WordCountsHolders
  BY SMTT(30) DEF IInv
<1> QED
  BY <1>1, Invariance, PTL

\* MU_SPINLOCK is a lock: at most one thread holds it, and it is set exactly then.
THEOREM SpinlockIsExclusive == Spec => []SpinlockExclusion
<1>1. IInv => SpinlockExclusion
  BY SMTT(30) DEF IInv
<1> QED
  BY <1>1, Invariance, PTL

\* The words that threads remember are good for their next write; the plain
\* stores after a timeout overwrite no change of another thread.
THEOREM StoresAreSafe == Spec => []RememberedStateIsGood
<1>1. IInv => RememberedStateIsGood
  BY SMTT(30) DEF IInv
<1> QED
  BY <1>1, Invariance, PTL

\* nsync_mu_assert_held, nsync_mu_rassert_held and nsync_mu_is_reader tell a
\* holder the truth.
THEOREM ModeIsToldTruly == Spec => []HolderIsToldItsMode
<1>1. IInv => HolderIsToldItsMode
  <2> SUFFICES ASSUME IInv, NEW t \in Threads
               PROVE  /\ HoldsWrite(t) => AssertHeldPasses(word) /\ ~IsReader(word)
                      /\ HoldsWrite(t) \/ HoldsRead(t) => RAssertHeldPasses(word)
                      /\ HoldsRead(t) => IsReader(word)
    BY Zenon DEF HolderIsToldItsMode
  <2> QED
    BY Zenon, HoldersShow DEF LocalInv, ShowsInWord, AssertHeldPasses, RAssertHeldPasses,
       IsReader, AnyLock
<1> QED
  BY <1>1, Invariance, PTL

\* A good step is a step of the abstract lock, or leaves it alone.
LEMMA GoodStepRefines ==
  ASSUME IInv, IInv', NEW t \in Threads, OnlyMoves(t)
  PROVE  [RW!Next]_mode
<1>1. \A u \in Threads \ {t} : ModeOf(u)' = ModeOf(u)
  BY Zenon, OthersHold DEF ModeOf
<1>2. mode' = [mode EXCEPT ![t] = ModeOf(t)']
  BY Zenon, <1>1 DEF mode
<1>3. \A u \in Threads : mode[u] = ModeOf(u)
  BY Zenon DEF mode
<1>4. CASE ModeOf(t)' = ModeOf(t)
  BY Zenon, <1>2, <1>3, <1>4 DEF mode
<1>5. CASE ModeOf(t)' # ModeOf(t) /\ ModeOf(t)' = "writer"
  <2>1. HoldsWrite(t)'
    BY Zenon, <1>5 DEF ModeOf
  <2>2. \A u \in Threads \ {t} : ModeOf(u)' = "none"
    BY Zenon, <2>1 DEF ModeOf, IInv, MutualExclusion
  <2> QED
    BY Zenon, <1>1, <1>2, <1>3, <1>5, <2>2 DEF RW!Next, RW!BecomeWriter, RW!NoOtherHolds
<1>6. CASE ModeOf(t)' # ModeOf(t) /\ ModeOf(t)' = "reader"
  <2>1. HoldsRead(t)'
    BY Zenon, <1>6 DEF ModeOf
  <2>2. \A u \in Threads \ {t} : ModeOf(u)' # "writer"
    BY Zenon, <2>1 DEF ModeOf, IInv, MutualExclusion
  <2> QED
    BY Zenon, <1>1, <1>2, <1>3, <1>6, <2>2 DEF RW!Next, RW!BecomeReader, RW!NoOtherWrites
<1>7. CASE ModeOf(t)' # ModeOf(t) /\ ModeOf(t)' = "none"
  BY Zenon, <1>2, <1>3, <1>7 DEF RW!Next, RW!Release
<1>8. ModeOf(t)' \in {"writer", "reader", "none"}
  BY Zenon DEF ModeOf
<1> QED
  BY SMTT(30), <1>4, <1>5, <1>6, <1>7, <1>8

\* nsync_mu implements the abstract reader/writer lock.
THEOREM Refinement == Spec => ImplementsRWLock
<1>1. Init => RW!Init
  <2> SUFFICES ASSUME Init PROVE RW!Init
    BY Zenon
  <2>1. \A t \in Threads : ~HoldsWrite(t) /\ ~HoldsRead(t)
    BY Zenon DEF Init, HoldsWrite, HoldsRead, HoldPCs
  <2> QED
    BY SMTT(30), <2>1 DEF RW!Init, mode, ModeOf
<1>2. IInv /\ IInv' /\ [Next]_vars => [RW!Next]_mode
  <2> SUFFICES ASSUME IInv, IInv', [Next]_vars PROVE [RW!Next]_mode
    BY Zenon
  <2>1. CASE UNCHANGED vars
    <3>1. \A t \in Threads : ModeOf(t)' = ModeOf(t)
      BY Zenon, <2>1 DEF ModeOf, HoldsWrite, HoldsRead, vars, localVars
    <3> QED
      BY Zenon, <3>1 DEF mode
  <2>2. ASSUME NEW t \in Threads, Good(t) PROVE [RW!Next]_mode
    BY SMTT(30), <2>2, GoodStepRefines DEF Good
  <2> QED
    BY SMTT(30), <2>1, <2>2, NextGood
<1> QED
  BY <1>1, <1>2, Invariance, PTL DEF Spec, ImplementsRWLock, RW!Spec

\* Every reachable state satisfies the whole inductive invariant.
THEOREM MuInvariance == Spec => []MuInv
<1>1. Init => MuInv
  BY SMTT(30), InitIInv, InitKeeps
<1>2. MuInv /\ [Next]_vars => MuInv'
  BY Zenon, NextMuInv
<1> QED
  BY <1>1, <1>2, PTL DEF Spec

\* No call of a client that holds what it releases panics, and a holder that asks
\* for its mode with nsync_mu_assert_held, nsync_mu_rassert_held or
\* nsync_mu_is_reader is told the truth.
THEOREM SanityChecksHold == Spec => []SanityChecksPass
<1>1. MuInv => NoPanic
  BY SMTT(30) DEF MuInv, LocalsFollowPc, NoPanic
<1> QED
  BY <1>1, MuInvariance, ModeIsToldTruly, PTL DEF SanityChecksPass

\* The flags of mu->word that speak of waiters have their reasons: some thread is
\* on its way to clear MU_DESIG_WAKER, a starved waiter stands behind MU_LONG_WAIT,
\* MU_WAITING and MU_CONDITION are set while such a waiter is queued, and
\* MU_ALL_FALSE on a mutex without a writer means that every condition is false.
THEOREM FlagsAreRight == Spec => []FlagsHaveReasons
<1>1. MuInv => AllFalseMeansAllFalse
  <2> SUFFICES ASSUME MuInv, "ALL_FALSE" \in word.bits, "WLOCK" \notin word.bits
               PROVE  \A p \in Range(waiters) : ~IsTrue(cond[p])
    BY Zenon DEF AllFalseMeansAllFalse
  <2>1. \A t \in Threads : ~HoldsWrite(t)
    BY Zenon DEF MuInv, IInv, WordCountsHolders, WriteHolders
  <2> QED
    BY <2>1 DEF MuInv, AllFalseIsRight, HoldsWrite
<1>2. MuInv => FlagsHaveReasons
  BY SMTT(30), <1>1 DEF MuInv, FlagsHaveReasons
<1> QED
  BY <1>2, MuInvariance, PTL

\* A sleeping thread is found: it is in one place of one list, the same_condition
\* rings that let a releasing thread skip waiters follow the queues, and one whose
\* flag is cleared before it has slept gets its post.
THEOREM SleepersFound == Spec => []SleepersAreFound
<1>1. MuInv => SameConditionRings
  <2> SUFFICES ASSUME MuInv,
                      NEW q \in {waiters} \cup UNION {{us[u].new, us[u].seen} : u \in Threads}
               PROVE  RingsFollowQueue(same, cond, q)
    BY Zenon DEF MuInv, Rings, SameConditionRings
  <2>1. q \in Seq(Threads) /\ RingsAreBlocks(same, cond, q)
    BY SMTT(30), ListedWait DEF MuInv, Rings
  <2> QED
    BY SMTT(30), <2>1, BlocksFollowQueue
<1>2. MuInv => SleepersAreFound
  BY Zenon, <1>1, ListedOnce DEF MuInv, SleepersAreFound
<1> QED
  BY <1>2, MuInvariance, PTL
=============================================================================
