---------------------------- MODULE MuStepProofs -----------------------------
(***************************************************************************)
(* Every step of Mu is good for the invariant of MuInvariant: one lemma per*)
(* action, after the facts that the lemmas of all actions use.             *)
(***************************************************************************)
EXTENDS MuInvariant, TLAPS

(* The operations on the word.                                             *)

\* Setting and clearing flags leaves the reader count alone.
LEMMA SetClearFacts ==
  ASSUME NEW w \in Word, NEW set \in SUBSET MU_BITS, NEW clear
  PROVE  /\ SetClear(w, set, clear) \in Word
         /\ SetClear(w, set, clear).bits = (w.bits \cup set) \ clear
         /\ SetClear(w, set, clear).readers = w.readers
BY Zenon DEF SetClear, Word

\* What adding l_type->add_to_acquire does to the word.
LEMMA AddFacts ==
  ASSUME NEW w \in Word, NEW l \in LockTypes
  PROVE  /\ AddToAcquire(w, l) \in Word
         /\ l = "writer" => /\ AddToAcquire(w, l).bits = w.bits \cup {"WLOCK"}
                            /\ AddToAcquire(w, l).readers = w.readers
         /\ l = "reader" => /\ AddToAcquire(w, l).bits = w.bits
                            /\ AddToAcquire(w, l).readers = w.readers + 1
BY DEF AddToAcquire, Word, MU_BITS, LockTypes

\* What subtracting l_type->add_to_acquire does to the word.
LEMMA SubFacts ==
  ASSUME NEW w \in Word, NEW l \in LockTypes, l = "reader" => w.readers > 0
  PROVE  /\ SubToRelease(w, l) \in Word
         /\ l = "writer" => /\ SubToRelease(w, l).bits = w.bits \ {"WLOCK"}
                            /\ SubToRelease(w, l).readers = w.readers
         /\ l = "reader" => /\ SubToRelease(w, l).bits = w.bits
                            /\ SubToRelease(w, l).readers = w.readers - 1
BY DEF SubToRelease, Word, LockTypes

\* What a thread holds shows in the word.
LEMMA HolderFacts ==
  ASSUME NEW t \in Threads, LocalInv(t)
  PROVE  /\ HoldsWrite(t) => "WLOCK" \in word.bits /\ word.readers = 0
         /\ HoldsRead(t) => "WLOCK" \notin word.bits /\ word.readers > 0
         /\ HoldsSpinlock(t) => "SPINLOCK" \in word.bits
         /\ "WLOCK" \in word.bits => word.readers = 0
         /\ ~(HoldsWrite(t) /\ HoldsRead(t))
BY Zenon DEF LocalInv, ShowsInWord

\* A step that leaves the word and what its thread holds alone.
LEMMA QuietStep ==
  ASSUME NEW t \in Threads, LocalInv(t), word' = word,
         HoldsWrite(t)' <=> HoldsWrite(t),
         HoldsRead(t)' <=> HoldsRead(t),
         HoldsSpinlock(t)' <=> HoldsSpinlock(t)
  PROVE  StepOK(t)
<1>1. word.readers \in Nat
  BY Zenon DEF LocalInv, TypeOK, Word
<1> QED
  BY <1>1, HolderFacts DEF StepOK, BitFollows, ReadersFollow

\* What the invariant says of one thread.
LEMMA RemembersNow ==
  ASSUME NEW t \in Threads, LocalInv(t)
  PROVE  TypeOK /\ Remembers(t)
BY Zenon DEF LocalInv

\* The locals of a thread that is in no call.
LEMMA NoLocalsType == NoLs \in LsType /\ NoMw \in MwType /\ NoUs \in UsType
BY BoundsAssumption DEF NoLs, LsType, NoMw, MwType, NoUs, UsType

\* The count of calls stays within its bound.
LEMMA CallsType ==
  ASSUME TypeOK, NEW t \in Threads, MayCall(t)
  PROVE  calls' \in [Threads -> 0..MaxCalls]
<1>1. calls \in [Threads -> 0..MaxCalls] /\ MaxCalls \in Nat
  BY Zenon, BoundsAssumption DEF TypeOK
<1>2. CASE MaxCalls = 0
  BY Zenon, <1>1, <1>2 DEF MayCall
<1>3. CASE MaxCalls # 0
  <2>1. calls[t] < MaxCalls /\ calls' = [calls EXCEPT ![t] = calls[t] + 1]
    BY Zenon, <1>3 DEF MayCall
  <2>2. calls[t] + 1 \in 0..MaxCalls
    BY <1>1, <2>1
  <2> QED
    BY Zenon, <1>1, <2>1, <2>2
<1> QED
  BY Zenon, <1>2, <1>3

\* A jump to a known location.
LEMMA PcType ==
  ASSUME TypeOK, NEW t \in Threads, NEW l \in PCs, Goto(t, l)
  PROVE  pc' \in [Threads -> PCs]
BY Zenon DEF TypeOK, Goto

\* A call of nsync_mu_lock, rlock, trylock or rtrylock: the first CAS.
LEMMA LockCallGood ==
  ASSUME NEW t \in Threads, LocalInv(t), NEW l \in LockTypes,
         NEW how \in {"lock", "trylock"}, LockCall(t, l, how)
  PROVE  Good(t)
<1>1. TypeOK /\ Remembers(t)
  BY Zenon, RemembersNow
<1>2. TypeOK'
  <2>1. word' \in Word
    BY <1>1 DEF TypeOK, LockCall, AddToAcquire, ZeroWord, Word, MU_BITS
  <2>2. MayCall(t)
    BY Zenon DEF LockCall
  <2>3. calls' \in [Threads -> 0..MaxCalls]
    BY Zenon, <1>1, <2>2, CallsType
  <2>4. pc' \in [Threads -> PCs]
    BY Zenon, <1>1, PcType DEF LockCall, PCs, HoldPCs
  <2>5. l_type' \in [Threads -> LockTypes] /\ ret' \in [Threads -> RetPoints]
    BY Zenon, <1>1 DEF TypeOK, LockCall, RetPoints
  <2>6. changed' \in [Threads -> {"nothing", "made_true", "made_false"}]
    BY Zenon, <1>1 DEF TypeOK, LockCall
  <2> QED
    BY Zenon, <1>1, <2>1, <2>3, <2>4, <2>5, <2>6 DEF TypeOK, LockCall, waiterVars
<1>3. OnlyMoves(t)
  BY Zenon, <1>1 DEF TypeOK, OnlyMoves, LockCall, Goto
<1>4. StepOK(t)
  <2>1. pc[t] = "idle" /\ l_type'[t] = l
    BY Zenon, <1>1 DEF TypeOK, LockCall
  <2>2. ~HoldsWrite(t) /\ ~HoldsRead(t) /\ ~HoldsSpinlock(t)
    BY Zenon, <2>1 DEF HoldsWrite, HoldsRead, HoldsSpinlock, HoldPCs
  <2>3. CASE word = ZeroWord
    <3>1. pc'[t] = "held" /\ word' = AddToAcquire(ZeroWord, l)
      BY Zenon, <1>1, <2>3 DEF LockCall, Goto, TypeOK
    <3> QED
      BY <2>1, <2>2, <2>3, <3>1 DEF StepOK, BitFollows, ReadersFollow, HoldsWrite,
         HoldsRead, HoldsSpinlock, HoldPCs, AddToAcquire, ZeroWord, LockTypes
  <2>4. CASE word # ZeroWord
    <3>1. pc'[t] = "lock_load" /\ word' = word
      BY Zenon, <1>1, <2>4 DEF LockCall, Goto, TypeOK
    <3> QED
      BY Zenon, <2>2, <3>1, QuietStep DEF HoldsWrite, HoldsRead, HoldsSpinlock, HoldPCs
  <2> QED
    BY Zenon, <2>3, <2>4
<1>5. Remembers(t)'
  BY <1>1 DEF TypeOK, LockCall, Goto, Remembers
<1> QED
  BY Zenon, <1>2, <1>3, <1>4, <1>5 DEF Good

\* The load that follows a failed first CAS.
LEMMA LockLoadGood ==
  ASSUME NEW t \in Threads, LocalInv(t), LockLoad(t)
  PROVE  Good(t)
<1>1. TypeOK /\ Remembers(t)
  BY Zenon, RemembersNow
<1>2. TypeOK'
  <2>1. pc' \in [Threads -> PCs]
    BY Zenon, <1>1, PcType DEF LockLoad, FastPathFailed, PCs, HoldPCs
  <2>2. old' \in [Threads -> Word] /\ cond' \in [Threads -> Conds \cup {NoCond}]
    BY Zenon, <1>1 DEF TypeOK, LockLoad, FastPathFailed
  <2> QED
    BY Zenon, <1>1, <2>1, <2>2 DEF TypeOK, LockLoad, muVars, clientVars
<1>3. OnlyMoves(t)
  BY Zenon, <1>1 DEF TypeOK, OnlyMoves, LockLoad, FastPathFailed, Goto
<1>4. StepOK(t)
  BY Zenon, <1>1, QuietStep DEF TypeOK, LockLoad, FastPathFailed, Goto, HoldsWrite,
     HoldsRead, HoldsSpinlock, HoldPCs, muVars
<1>5. Remembers(t)'
  BY <1>1 DEF TypeOK, LockLoad, FastPathFailed, Goto, Remembers, CanAcquire
<1> QED
  BY Zenon, <1>2, <1>3, <1>4, <1>5 DEF Good

\* A step in which a thread that holds nothing acquires the lock.
LEMMA AcquireStep ==
  ASSUME NEW t \in Threads, LocalInv(t), l_type' = l_type, us' = us,
         ~HoldsWrite(t), ~HoldsRead(t), ~HoldsSpinlock(t),
         pc'[t] \in {"held", "mw_eval"},
         NEW ignored, "WLOCK" \notin ignored, CanAcquire(word, l_type[t], ignored),
         NEW clear, "WLOCK" \notin clear, "SPINLOCK" \notin clear,
         word' = SetClear(AddToAcquire(word, l_type[t]), {}, clear)
  PROVE  StepOK(t)
<1>1. word \in Word /\ l_type[t] \in LockTypes
  BY Zenon DEF LocalInv, TypeOK
<1>2. "WLOCK" \notin word.bits /\ (l_type[t] = "writer" => word.readers = 0)
  BY Zenon, <1>1 DEF CanAcquire, ZeroToAcquire, LockTypes
<1>3. /\ word'.bits = AddToAcquire(word, l_type[t]).bits \ clear
      /\ word'.readers = AddToAcquire(word, l_type[t]).readers
  BY Zenon DEF SetClear
<1>4. ~HoldsSpinlock(t)'
  BY Zenon DEF HoldsSpinlock
<1>5. CASE l_type[t] = "writer"
  <2>1. HoldsWrite(t)' /\ ~HoldsRead(t)'
    BY Zenon, <1>5 DEF HoldsWrite, HoldsRead, HoldPCs
  <2>2. word'.bits = (word.bits \cup {"WLOCK"}) \ clear /\ word'.readers = 0
    BY Zenon, <1>1, <1>2, <1>3, <1>5, AddFacts
  <2> QED
    BY <1>2, <1>4, <1>5, <2>1, <2>2 DEF StepOK, BitFollows, ReadersFollow
<1>6. CASE l_type[t] = "reader"
  <2>1. ~HoldsWrite(t)' /\ HoldsRead(t)'
    BY Zenon, <1>6 DEF HoldsWrite, HoldsRead, HoldPCs
  <2>2. word'.bits = word.bits \ clear /\ word'.readers = word.readers + 1
    BY Zenon, <1>1, <1>3, <1>6, AddFacts
  <2>3. word.readers \in Nat
    BY Zenon, <1>1 DEF Word
  <2> QED
    BY <1>2, <1>4, <2>1, <2>2, <2>3 DEF StepOK, BitFollows, ReadersFollow
<1> QED
  BY Zenon, <1>1, <1>5, <1>6 DEF LockTypes

\* The CAS on the loaded word.
LEMMA LockCasGood ==
  ASSUME NEW t \in Threads, LocalInv(t), LockCas(t)
  PROVE  Good(t)
<1>1. TypeOK /\ Remembers(t)
  BY Zenon, RemembersNow
<1>2. TypeOK'
  <2>1. word' \in Word
    <3>1. word \in Word /\ l_type[t] \in LockTypes
      BY Zenon, <1>1 DEF TypeOK
    <3>2. SetClear(AddToAcquire(word, l_type[t]), {}, ClearOnAcquire(l_type[t]))
            \in Word
      BY Zenon, <3>1, AddFacts, SetClearFacts
    <3> QED
      BY Zenon, <3>1, <3>2 DEF LockCas
  <2>2. pc' \in [Threads -> PCs]
    BY Zenon, <1>1, PcType DEF LockCas, FastPathFailed, Acquired, PCs, HoldPCs
  <2>3. old' \in [Threads -> Word]
    BY Zenon, <1>1 DEF TypeOK, LockCas, FastPathFailed, Acquired, Goto, ZeroWord, Word
  <2>4. /\ cond' \in [Threads -> Conds \cup {NoCond}]
        /\ changed' \in [Threads -> {"nothing", "made_true", "made_false"}]
    BY Zenon, <1>1 DEF TypeOK, LockCas, FastPathFailed, Acquired, Goto
  <2>5. ls' \in [Threads -> LsType]
    BY Zenon, <1>1, NoLocalsType DEF TypeOK, LockCas, FastPathFailed, Acquired, Goto
  <2> QED
    BY Zenon, <1>1, <2>1, <2>2, <2>3, <2>4, <2>5 DEF TypeOK, LockCas
<1>3. OnlyMoves(t)
  BY <1>1 DEF TypeOK, OnlyMoves, LockCas, FastPathFailed, Acquired, Goto
<1>4. StepOK(t)
  <2>1. pc[t] = "lock_cas" /\ l_type' = l_type /\ us' = us
    BY Zenon DEF LockCas
  <2>2. word \in Word /\ l_type[t] \in LockTypes
    BY Zenon, <1>1 DEF TypeOK
  <2>3. ~HoldsWrite(t) /\ ~HoldsRead(t) /\ ~HoldsSpinlock(t)
    BY Zenon, <2>1 DEF HoldsWrite, HoldsRead, HoldsSpinlock, HoldPCs
  <2>4. CASE word = old[t]
    <3>1. /\ pc'[t] \in {"held", "mw_eval"}
          /\ word' = SetClear(AddToAcquire(word, l_type[t]), {},
                              ClearOnAcquire(l_type[t]))
      BY <1>1, <2>4 DEF TypeOK, LockCas, Acquired, Goto
    <3>2. CanAcquire(word, l_type[t], {})
      BY Zenon, <1>1, <2>1, <2>4 DEF Remembers
    <3> QED
      BY <2>1, <2>2, <2>3, <3>1, <3>2, AcquireStep DEF ClearOnAcquire
  <2>5. CASE word # old[t]
    <3>1. pc'[t] \in {"idle", "slow"} /\ word' = word
      BY Zenon, <1>1, <2>5 DEF TypeOK, LockCas, FastPathFailed, Goto
    <3> QED
      BY Zenon, <2>3, <3>1, QuietStep DEF HoldsWrite, HoldsRead, HoldsSpinlock, HoldPCs
  <2> QED
    BY Zenon, <2>4, <2>5
<1>5. Remembers(t)'
  BY <1>1 DEF TypeOK, LockCas, FastPathFailed, Acquired, Goto, Remembers
<1> QED
  BY Zenon, <1>2, <1>3, <1>4, <1>5 DEF Good

\* nsync_mu_lock_slow_ acquires.
LEMMA SlowAcquireGood ==
  ASSUME NEW t \in Threads, LocalInv(t), SlowAcquire(t)
  PROVE  Good(t)
<1>1. TypeOK /\ Remembers(t)
  BY Zenon, RemembersNow
<1>2. TypeOK'
  <2>1. word' \in Word
    <3>1. word \in Word /\ l_type[t] \in LockTypes
      BY Zenon, <1>1 DEF TypeOK
    <3> QED
      BY Zenon, <3>1, AddFacts, SetClearFacts DEF SlowAcquire
  <2>2. pc' \in [Threads -> PCs]
    BY Zenon, <1>1, PcType DEF SlowAcquire, Acquired, PCs, HoldPCs
  <2>3. changed' \in [Threads -> {"nothing", "made_true", "made_false"}]
    BY Zenon, <1>1 DEF TypeOK, SlowAcquire, Acquired, Goto
  <2>4. ls' \in [Threads -> LsType]
    BY Zenon, <1>1, NoLocalsType DEF TypeOK, SlowAcquire, Acquired, Goto
  <2> QED
    BY Zenon, <1>1, <2>1, <2>2, <2>3, <2>4 DEF TypeOK, SlowAcquire, waiterVars
<1>3. OnlyMoves(t)
  BY Zenon, <1>1 DEF TypeOK, OnlyMoves, SlowAcquire, Acquired, Goto
<1>4. StepOK(t)
  <2>1. pc[t] = "slow" /\ l_type' = l_type /\ us' = us
    BY Zenon DEF SlowAcquire
  <2>2. word \in Word /\ l_type[t] \in LockTypes
    BY Zenon, <1>1 DEF TypeOK
  <2>3. ~HoldsWrite(t) /\ ~HoldsRead(t) /\ ~HoldsSpinlock(t)
    BY Zenon, <2>1 DEF HoldsWrite, HoldsRead, HoldsSpinlock, HoldPCs
  <2>4. pc'[t] \in {"held", "mw_eval"}
    BY Zenon, <1>1 DEF TypeOK, SlowAcquire, Acquired, Goto
  <2> DEFINE ignored == IgnoredWhenWoken(ls[t].clear)
             clear == ClearDesig(ls[t].clear) \cup LongWait(ls[t].wait_count)
                        \cup ClearOnAcquire(l_type[t])
  <2>5. "WLOCK" \notin ignored /\ "WLOCK" \notin clear /\ "SPINLOCK" \notin clear
    BY Zenon DEF IgnoredWhenWoken, ClearDesig, LongWait, ClearOnAcquire
  <2>6. /\ CanAcquire(word, l_type[t], ignored)
        /\ word' = SetClear(AddToAcquire(word, l_type[t]), {}, clear)
    BY Zenon DEF SlowAcquire
  <2> HIDE DEF ignored, clear
  <2> QED
    BY Zenon, <2>1, <2>3, <2>4, <2>5, <2>6, AcquireStep
<1>5. Remembers(t)'
  BY Zenon, <1>1 DEF TypeOK, SlowAcquire, Acquired, Goto, Remembers
<1> QED
  BY Zenon, <1>2, <1>3, <1>4, <1>5 DEF Good

\* A step in which a thread takes the spinlock and keeps what else it holds.
LEMMA SpinlockTaken ==
  ASSUME NEW t \in Threads, LocalInv(t),
         HoldsWrite(t)' <=> HoldsWrite(t), HoldsRead(t)' <=> HoldsRead(t),
         ~HoldsSpinlock(t), HoldsSpinlock(t)', "SPINLOCK" \notin word.bits,
         NEW set, "WLOCK" \notin set, "SPINLOCK" \in set,
         NEW clear, "WLOCK" \notin clear, "SPINLOCK" \notin clear,
         word' = SetClear(word, set, clear)
  PROVE  StepOK(t)
<1>1. word.readers \in Nat
  BY Zenon DEF LocalInv, TypeOK, Word
<1>2. word'.bits = (word.bits \cup set) \ clear /\ word'.readers = word.readers
  BY Zenon DEF SetClear
<1> QED
  BY <1>1, <1>2, HolderFacts DEF StepOK, BitFollows, ReadersFollow

\* A step in which a thread gives up the spinlock and keeps what else it holds.
LEMMA SpinlockGiven ==
  ASSUME NEW t \in Threads, LocalInv(t),
         HoldsWrite(t)' <=> HoldsWrite(t), HoldsRead(t)' <=> HoldsRead(t),
         HoldsSpinlock(t), ~HoldsSpinlock(t)',
         word' = SetClear(word, {}, {"SPINLOCK"})
  PROVE  StepOK(t)
<1>1. word.readers \in Nat
  BY Zenon DEF LocalInv, TypeOK, Word
<1>2. word'.bits = word.bits \ {"SPINLOCK"} /\ word'.readers = word.readers
  BY Zenon DEF SetClear
<1> QED
  BY <1>1, <1>2, HolderFacts DEF StepOK, BitFollows, ReadersFollow

\* A step in which a thread releases the lock, with the spinlock if it has it.
LEMMA ReleaseStep ==
  ASSUME NEW t \in Threads, LocalInv(t), pc[t] \in HoldPCs,
         ~HoldsWrite(t)', ~HoldsRead(t)', ~HoldsSpinlock(t)',
         NEW clear, "SPINLOCK" \in clear <=> HoldsSpinlock(t),
         word' = SetClear(SubToRelease(word, l_type[t]), {}, clear)
  PROVE  StepOK(t)
<1>1. word \in Word /\ l_type[t] \in LockTypes /\ word.readers \in Nat
  BY Zenon DEF LocalInv, TypeOK, Word
<1>2. /\ word'.bits = SubToRelease(word, l_type[t]).bits \ clear
      /\ word'.readers = SubToRelease(word, l_type[t]).readers
  BY Zenon DEF SetClear
<1>3. CASE l_type[t] = "writer"
  <2>1. HoldsWrite(t) /\ ~HoldsRead(t)
    BY Zenon, <1>3 DEF HoldsWrite, HoldsRead
  <2>2. word'.bits = (word.bits \ {"WLOCK"}) \ clear /\ word'.readers = word.readers
    BY Zenon, <1>2, <1>3 DEF SubToRelease
  <2> QED
    BY <1>1, <2>1, <2>2, HolderFacts DEF StepOK, BitFollows, ReadersFollow
<1>4. CASE l_type[t] = "reader"
  <2>1. ~HoldsWrite(t) /\ HoldsRead(t)
    BY Zenon, <1>4, HolderFacts DEF HoldsRead
  <2>2. word'.bits = word.bits \ clear /\ word'.readers = word.readers - 1
    BY Zenon, <1>2, <1>4 DEF SubToRelease
  <2> QED
    BY <1>1, <2>1, <2>2, HolderFacts DEF StepOK, BitFollows, ReadersFollow
<1> QED
  BY Zenon, <1>1, <1>3, <1>4 DEF LockTypes

\* The word after a release is well formed.
LEMMA ReleasedWordType ==
  ASSUME NEW t \in Threads, LocalInv(t), pc[t] \in HoldPCs, NEW clear
  PROVE  SetClear(SubToRelease(word, l_type[t]), {}, clear) \in Word
<1>1. word \in Word /\ l_type[t] \in LockTypes
  BY Zenon DEF LocalInv, TypeOK
<1>2. l_type[t] = "reader" => word.readers > 0
  BY Zenon, HolderFacts DEF HoldsRead
<1>3. SubToRelease(word, l_type[t]) \in Word
  BY Zenon, <1>1, <1>2, SubFacts
<1> QED
  BY Zenon, <1>3, SetClearFacts

\* nsync_mu_lock_slow_ takes the spinlock to queue the thread.
LEMMA SlowSpinlockGood ==
  ASSUME NEW t \in Threads, LocalInv(t), SlowSpinlock(t)
  PROVE  Good(t)
<1>1. TypeOK /\ Remembers(t)
  BY Zenon, RemembersNow
<1>2. TypeOK'
  <2>1. word' \in Word
    <3>1. word \in Word
      BY Zenon, <1>1 DEF TypeOK
    <3>2. SetToQueue(t) \in SUBSET MU_BITS
      BY Zenon DEF SetToQueue, LongWait, SetWhenWaiting, MU_BITS
    <3> QED
      BY Zenon, <3>1, <3>2, SetClearFacts DEF SlowSpinlock
  <2>2. pc' \in [Threads -> PCs]
    BY Zenon, <1>1, PcType DEF SlowSpinlock, PCs, HoldPCs
  <2> QED
    BY Zenon, <1>1, <2>1, <2>2 DEF TypeOK, SlowSpinlock, waiterVars, localVars,
       clientVars
<1>3. OnlyMoves(t)
  BY Zenon, <1>1 DEF TypeOK, OnlyMoves, SlowSpinlock, Goto, localVars
<1>4. StepOK(t)
  <2>1. /\ pc[t] = "slow" /\ pc'[t] = "ls_queue" /\ "SPINLOCK" \notin word.bits
        /\ word' = SetClear(word, SetToQueue(t), ClearToQueue(t))
    BY Zenon, <1>1 DEF TypeOK, SlowSpinlock, Goto
  <2>2. /\ HoldsWrite(t)' <=> HoldsWrite(t)
        /\ HoldsRead(t)' <=> HoldsRead(t)
        /\ ~HoldsSpinlock(t) /\ HoldsSpinlock(t)'
    BY Zenon, <2>1 DEF HoldsWrite, HoldsRead, HoldsSpinlock, HoldPCs
  <2>3. /\ "WLOCK" \notin SetToQueue(t) /\ "SPINLOCK" \in SetToQueue(t)
        /\ "WLOCK" \notin ClearToQueue(t) /\ "SPINLOCK" \notin ClearToQueue(t)
    BY Zenon DEF SetToQueue, LongWait, SetWhenWaiting, ClearToQueue, ClearDesig
  <2> QED
    BY Zenon, <2>1, <2>2, <2>3, SpinlockTaken
<1>5. Remembers(t)'
  BY Zenon, <1>1 DEF TypeOK, SlowSpinlock, Goto, Remembers, localVars
<1> QED
  BY Zenon, <1>2, <1>3, <1>4, <1>5 DEF Good

\* nsync_mu_lock_slow_ queues the thread and releases the spinlock.
LEMMA SlowQueueGood ==
  ASSUME NEW t \in Threads, LocalInv(t), SlowQueue(t)
  PROVE  Good(t)
<1>1. TypeOK /\ Remembers(t)
  BY Zenon, RemembersNow
<1>2. TypeOK'
  <2>1. word' \in Word
    BY Zenon, <1>1, SetClearFacts DEF TypeOK, SlowQueue
  <2>2. waiters' \in Seq(Threads)
    BY <1>1 DEF TypeOK, SlowQueue, Goto, Enqueue
  <2>3. waiting' \in [Threads -> BOOLEAN]
    BY Zenon, <1>1 DEF TypeOK, SlowQueue, Goto
  <2>4. pc' \in [Threads -> PCs]
    BY Zenon, <1>1, PcType DEF SlowQueue, PCs, HoldPCs
  <2> QED
    BY Zenon, <1>1, <2>1, <2>2, <2>3, <2>4 DEF TypeOK, SlowQueue, localVars, clientVars
<1>3. OnlyMoves(t)
  BY Zenon, <1>1 DEF TypeOK, OnlyMoves, SlowQueue, Goto, localVars
<1>4. StepOK(t)
  <2>1. /\ pc[t] = "ls_queue" /\ pc'[t] = "ls_wait"
        /\ word' = SetClear(word, {}, {"SPINLOCK"})
    BY Zenon, <1>1 DEF TypeOK, SlowQueue, Goto
  <2>2. /\ HoldsWrite(t)' <=> HoldsWrite(t)
        /\ HoldsRead(t)' <=> HoldsRead(t)
        /\ HoldsSpinlock(t) /\ ~HoldsSpinlock(t)'
    BY Zenon, <2>1 DEF HoldsWrite, HoldsRead, HoldsSpinlock, HoldPCs
  <2> QED
    BY Zenon, <2>1, <2>2, SpinlockGiven
<1>5. Remembers(t)'
  BY Zenon, <1>1 DEF TypeOK, SlowQueue, Goto, Remembers, localVars
<1> QED
  BY Zenon, <1>2, <1>3, <1>4, <1>5 DEF Good

\* nsync_mu_lock_slow_ tests w->nw.waiting.
LEMMA SlowTestGood ==
  ASSUME NEW t \in Threads, LocalInv(t), SlowTest(t)
  PROVE  Good(t)
<1>1. TypeOK /\ Remembers(t)
  BY Zenon, RemembersNow
<1>2. TypeOK'
  <2>1. ls' \in [Threads -> LsType]
    <3>1. ls[t].wait_count \in 0..LONG_WAIT_THRESHOLD
      BY Zenon, <1>1 DEF TypeOK, LsType
    <3>2. [clear |-> TRUE,
           wait_count |-> IF ls[t].wait_count < LONG_WAIT_THRESHOLD
                          THEN ls[t].wait_count + 1
                          ELSE LONG_WAIT_THRESHOLD] \in LsType
      BY <3>1, BoundsAssumption DEF LsType
    <3> QED
      BY Zenon, <1>1, <3>2 DEF TypeOK, SlowTest
  <2>2. pc' \in [Threads -> PCs]
    BY Zenon, <1>1, PcType DEF SlowTest, PCs, HoldPCs
  <2> QED
    BY Zenon, <1>1, <2>1, <2>2 DEF TypeOK, SlowTest, muVars, waiterVars, clientVars
<1>3. OnlyMoves(t)
  BY Zenon, <1>1 DEF TypeOK, OnlyMoves, SlowTest, Goto
<1>4. StepOK(t)
  BY Zenon, <1>1, QuietStep DEF TypeOK, SlowTest, Goto, HoldsWrite, HoldsRead,
     HoldsSpinlock, HoldPCs, muVars
<1>5. Remembers(t)'
  BY Zenon, <1>1 DEF TypeOK, SlowTest, Goto, Remembers
<1> QED
  BY Zenon, <1>2, <1>3, <1>4, <1>5 DEF Good

\* nsync_mu_lock_slow_ returns from its semaphore.
LEMMA SlowPGood ==
  ASSUME NEW t \in Threads, LocalInv(t), SlowP(t)
  PROVE  Good(t)
<1>1. TypeOK /\ Remembers(t)
  BY Zenon, RemembersNow
<1>2. TypeOK'
  <2>1. sem' \in [Threads -> 0..SemMax]
    BY <1>1, BoundsAssumption DEF TypeOK, SlowP, SemP, Goto
  <2>2. pc' \in [Threads -> PCs]
    BY Zenon, <1>1, PcType DEF SlowP, SemP, PCs, HoldPCs
  <2> QED
    BY Zenon, <1>1, <2>1, <2>2 DEF TypeOK, SlowP, muVars, localVars, clientVars
<1>3. OnlyMoves(t)
  BY Zenon, <1>1 DEF TypeOK, OnlyMoves, SlowP, SemP, Goto, localVars
<1>4. StepOK(t)
  BY Zenon, <1>1, QuietStep DEF TypeOK, SlowP, SemP, Goto, HoldsWrite, HoldsRead,
     HoldsSpinlock, HoldPCs, muVars, localVars
<1>5. Remembers(t)'
  BY Zenon, <1>1 DEF TypeOK, SlowP, SemP, Goto, Remembers, localVars
<1> QED
  BY Zenon, <1>2, <1>3, <1>4, <1>5 DEF Good

\* The load that follows a failed first CAS of an unlock, and its panics.
LEMMA UnlockLoadGood ==
  ASSUME NEW t \in Threads, LocalInv(t), UnlockLoad(t)
  PROVE  Good(t)
<1>1. TypeOK /\ Remembers(t)
  BY Zenon, RemembersNow
<1>2. TypeOK'
  <2>1. old' \in [Threads -> Word]
    BY Zenon, <1>1 DEF TypeOK, UnlockLoad, Goto
  <2>2. pc' \in [Threads -> PCs]
    BY Zenon, <1>1, PcType DEF UnlockLoad, PCs, HoldPCs
  <2> QED
    BY Zenon, <1>1, <2>1, <2>2 DEF TypeOK, UnlockLoad, muVars, waiterVars, clientVars
<1>3. OnlyMoves(t)
  BY Zenon, <1>1 DEF TypeOK, OnlyMoves, UnlockLoad, Goto
<1>4. StepOK(t)
  <2>1. pc[t] = "ul_load" /\ l_type' = l_type /\ us' = us /\ word' = word
    BY Zenon DEF UnlockLoad, muVars
  <2>2. ~UnlockPanics(word, l_type[t])
    BY Zenon, <1>1, <2>1, HolderFacts DEF UnlockPanics, TypeOK, HoldsWrite, HoldsRead, HoldPCs,
       LockTypes
  <2>3. pc'[t] \in {"us", "ul_cas"}
    BY Zenon, <1>1, <2>2 DEF TypeOK, UnlockLoad, Goto
  <2> QED
    BY Zenon, <2>1, <2>3, QuietStep DEF HoldsWrite, HoldsRead, HoldsSpinlock, HoldPCs
<1>5. Remembers(t)'
  BY Zenon, <1>1 DEF TypeOK, UnlockLoad, Goto, Remembers
<1> QED
  BY Zenon, <1>2, <1>3, <1>4, <1>5 DEF Good

\* The CAS of an unlock on the loaded word.
LEMMA UnlockCasGood ==
  ASSUME NEW t \in Threads, LocalInv(t), UnlockCas(t)
  PROVE  Good(t)
<1>1. TypeOK /\ Remembers(t)
  BY Zenon, RemembersNow
<1>2. TypeOK'
  <2>1. word' \in Word
    BY Zenon, <1>1, ReleasedWordType DEF TypeOK, UnlockCas, UnlockedWord, HoldPCs
  <2>2. old' \in [Threads -> Word]
    BY Zenon, <1>1 DEF TypeOK, UnlockCas, Released, Goto, ZeroWord, Word
  <2>3. /\ l_type' \in [Threads -> LockTypes]
        /\ ret' \in [Threads -> RetPoints]
    BY Zenon, <1>1 DEF TypeOK, UnlockCas, Released, Goto, LockTypes, RetPoints
  <2>4. pc' \in [Threads -> PCs]
    BY Zenon, <1>1, PcType DEF UnlockCas, Released, PCs, HoldPCs
  <2> QED
    BY Zenon, <1>1, <2>1, <2>2, <2>3, <2>4 DEF TypeOK, UnlockCas, waiterVars,
       clientVars
<1>3. OnlyMoves(t)
  BY <1>1 DEF TypeOK, OnlyMoves, UnlockCas, Released, Goto
<1>4. StepOK(t)
  <2>1. pc[t] = "ul_cas" /\ us' = us
    BY Zenon DEF UnlockCas
  <2>2. CASE word = old[t]
    <3>1. pc'[t] \in {"mw_wait", "idle"} /\ word' = UnlockedWord(word, l_type[t], ret[t])
      BY Zenon, <1>1, <2>2 DEF TypeOK, UnlockCas, Released, Goto
    <3>2. ~HoldsWrite(t)' /\ ~HoldsRead(t)' /\ ~HoldsSpinlock(t)' /\ ~HoldsSpinlock(t)
      BY Zenon, <2>1, <3>1 DEF HoldsWrite, HoldsRead, HoldsSpinlock, HoldPCs
    <3>3. PICK clear :
            /\ clear = IF ret[t] = "without_wakeup" THEN {}
                       ELSE ClearOnUncontendedRelease(l_type[t])
            /\ word' = SetClear(SubToRelease(word, l_type[t]), {}, clear)
      BY Zenon, <3>1 DEF UnlockedWord
    <3>4. "SPINLOCK" \notin clear
      BY Zenon, <3>3 DEF ClearOnUncontendedRelease
    <3>5. pc[t] \in HoldPCs
      BY Zenon, <2>1 DEF HoldPCs
    <3> QED
      BY Zenon, <3>2, <3>3, <3>4, <3>5, ReleaseStep
  <2>3. CASE word # old[t]
    <3>1. pc'[t] = "us" /\ word' = word /\ l_type' = l_type
      BY Zenon, <1>1, <2>3 DEF TypeOK, UnlockCas, Goto
    <3> QED
      BY Zenon, <2>1, <3>1, QuietStep DEF HoldsWrite, HoldsRead, HoldsSpinlock, HoldPCs
  <2> QED
    BY Zenon, <2>2, <2>3
<1>5. Remembers(t)'
  BY Zenon, <1>1 DEF TypeOK, UnlockCas, Released, Goto, Remembers
<1> QED
  BY Zenon, <1>2, <1>3, <1>4, <1>5 DEF Good

\* A call of nsync_mu_unlock, runlock or unlock_without_wakeup: the first CAS.
LEMMA UnlockCallGood ==
  ASSUME NEW t \in Threads, LocalInv(t), NEW how \in {"unlock", "without_wakeup"},
         UnlockCall(t, how)
  PROVE  Good(t)
<1>1. TypeOK /\ Remembers(t)
  BY Zenon, RemembersNow
<1>2. TypeOK'
  <2>1. word' \in Word
    BY <1>1 DEF TypeOK, UnlockCall, ZeroWord, Word
  <2>2. /\ l_type' \in [Threads -> LockTypes]
        /\ ret' \in [Threads -> RetPoints]
    BY Zenon, <1>1 DEF TypeOK, UnlockCall, Goto, LockTypes, RetPoints
  <2>3. pc' \in [Threads -> PCs]
    BY Zenon, <1>1, PcType DEF UnlockCall, PCs, HoldPCs
  <2> QED
    BY Zenon, <1>1, <2>1, <2>2, <2>3 DEF TypeOK, UnlockCall, waiterVars, clientVars
<1>3. OnlyMoves(t)
  BY <1>1 DEF TypeOK, OnlyMoves, UnlockCall, Goto
<1>4. StepOK(t)
  <2>1. pc[t] = "held" /\ us' = us /\ l_type[t] \in LockTypes
    BY Zenon, <1>1 DEF TypeOK, UnlockCall
  <2>2. CASE word = AddToAcquire(ZeroWord, l_type[t])
    <3>1. pc'[t] = "idle" /\ word' = ZeroWord
      BY <1>1, <2>2 DEF TypeOK, UnlockCall, Goto
    <3>2. ~HoldsWrite(t)' /\ ~HoldsRead(t)' /\ ~HoldsSpinlock(t)' /\ ~HoldsSpinlock(t)
      BY Zenon, <2>1, <3>1 DEF HoldsWrite, HoldsRead, HoldsSpinlock, HoldPCs
    <3>3. word' = SetClear(SubToRelease(word, l_type[t]), {}, {})
      BY <2>1, <2>2, <3>1 DEF SetClear, SubToRelease, AddToAcquire, ZeroWord, LockTypes
    <3> QED
      BY <2>1, <3>2, <3>3, ReleaseStep DEF HoldPCs
  <2>3. CASE word # AddToAcquire(ZeroWord, l_type[t])
    <3>1. pc'[t] = "ul_load" /\ word' = word /\ l_type' = l_type
      BY Zenon, <1>1, <2>3 DEF TypeOK, UnlockCall, Goto
    <3> QED
      BY Zenon, <2>1, <3>1, QuietStep DEF HoldsWrite, HoldsRead, HoldsSpinlock, HoldPCs
  <2> QED
    BY Zenon, <2>2, <2>3
<1>5. Remembers(t)'
  <2>1. pc'[t] \in {"idle", "ul_load"}
    BY Zenon, <1>1 DEF TypeOK, UnlockCall, Goto
  <2>2. us' = us /\ mw' = mw
    BY Zenon DEF UnlockCall
  <2> QED
    BY Zenon, <1>1, <2>1, <2>2 DEF Remembers
<1> QED
  BY Zenon, <1>2, <1>3, <1>4, <1>5 DEF Good

-----------------------------------------------------------------------------
(* nsync_mu_unlock_slow_                                                   *)

\* nsync_mu_unlock_slow_ releases with nobody to wake.
LEMMA UsJustReleaseGood ==
  ASSUME NEW t \in Threads, LocalInv(t), UsJustRelease(t)
  PROVE  Good(t)
<1>1. TypeOK /\ Remembers(t)
  BY Zenon, RemembersNow
<1>2. TypeOK'
  <2>1. word' \in Word
    BY Zenon, <1>1, ReleasedWordType DEF UsJustRelease, HoldPCs
  <2>2. /\ l_type' \in [Threads -> LockTypes]
        /\ ret' \in [Threads -> RetPoints]
    BY Zenon, <1>1 DEF TypeOK, UsJustRelease, Released, Goto, LockTypes, RetPoints
  <2>3. pc' \in [Threads -> PCs]
    BY Zenon, <1>1, PcType DEF UsJustRelease, Released, PCs, HoldPCs
  <2> QED
    BY Zenon, <1>1, <2>1, <2>2, <2>3 DEF TypeOK, UsJustRelease, waiterVars, clientVars
<1>3. OnlyMoves(t)
  BY Zenon, <1>1 DEF TypeOK, OnlyMoves, UsJustRelease, Released, Goto
<1>4. StepOK(t)
  <2>1. pc[t] = "us" /\ us' = us /\ pc'[t] \in {"mw_wait", "idle"}
    BY Zenon, <1>1 DEF TypeOK, UsJustRelease, Released, Goto
  <2>2. ~HoldsWrite(t)' /\ ~HoldsRead(t)' /\ ~HoldsSpinlock(t)' /\ ~HoldsSpinlock(t)
    BY Zenon, <2>1 DEF HoldsWrite, HoldsRead, HoldsSpinlock, HoldPCs
  <2>3. PICK clear :
          /\ clear = ClearOnUncontendedRelease(l_type[t])
          /\ word' = SetClear(SubToRelease(word, l_type[t]), {}, clear)
    BY Zenon DEF UsJustRelease
  <2>4. "SPINLOCK" \notin clear
    BY Zenon, <2>3 DEF ClearOnUncontendedRelease
  <2>5. pc[t] \in HoldPCs
    BY Zenon, <2>1 DEF HoldPCs
  <2> QED
    BY Zenon, <2>2, <2>3, <2>4, <2>5, ReleaseStep
<1>5. Remembers(t)'
  BY <1>1, Zenon DEF TypeOK, UsJustRelease, Released, Goto, Remembers
<1> QED
  BY Zenon, <1>2, <1>3, <1>4, <1>5 DEF Good

\* The updates that nsync_mu_unlock_slow_ makes to its locals.
LEMMA UsFields ==
  ASSUME NEW r \in UsType
  PROVE  /\ \A b \in BOOLEAN, q \in Seq(Threads) :
              [r EXCEPT !.testing = b, !.late = b, !.new = q] \in UsType
         /\ \A b \in BOOLEAN, n \in Nat \ {0} :
              [r EXCEPT !.testing = b, !.i = n] \in UsType
         /\ \A n \in Nat \ {0} : [r EXCEPT !.i = n] \in UsType
         /\ \A p, q \in Seq(Threads), l \in LockTypes :
              [r EXCEPT !.new = q, !.wake = p, !.wake_type = l] \in UsType
         /\ \A b, c \in BOOLEAN, n \in Nat \ {0} :
              [r EXCEPT !.i = n, !.writer_waiting = b, !.all_false = c] \in UsType
         /\ \A b \in BOOLEAN, p, q \in Seq(Threads) :
              [r EXCEPT !.all_false = b, !.seen = p, !.new = q] \in UsType
         /\ \A q \in Seq(Threads) : [r EXCEPT !.wake = q] \in UsType
BY Zenon DEF UsType

\* Removing an element of a sequence.
LEMMA WithoutType ==
  ASSUME NEW S, NEW q \in Seq(S), NEW i \in 1..Len(q)
  PROVE  q[i] \in S /\ Without(q, i) \in Seq(S)
BY DEF Without

\* nsync_mu_unlock_slow_ takes the spinlock and, if it need not test
\* conditions, gives up the lock.
LEMMA UsBeginGood ==
  ASSUME NEW t \in Threads, LocalInv(t), UsBegin(t)
  PROVE  Good(t)
<1>1. TypeOK /\ Remembers(t)
  BY Zenon, RemembersNow
<1>2. TypeOK'
  <2>1. word' \in Word
    <3>1. word \in Word /\ l_type[t] \in LockTypes /\ "writer" \in LockTypes
      BY Zenon, <1>1 DEF TypeOK, LockTypes
    <3>2. l_type[t] = "reader" => word.readers > 0
      BY Zenon, HolderFacts DEF UsBegin, HoldsRead, HoldPCs
    <3>3. EarlyRelease(word, l_type[t]) \in Word
      BY Zenon, <3>1, <3>2, SubFacts, AddFacts DEF EarlyRelease
    <3>4. {"SPINLOCK", "DESIG_WAKER"} \in SUBSET MU_BITS
      BY Zenon DEF MU_BITS
    <3> QED
      BY Zenon, <3>3, <3>4, SetClearFacts DEF UsBegin
  <2>2. us' \in [Threads -> UsType]
    <3> DEFINE b == "CONDITION" \in word.bits
    <3>1. b \in BOOLEAN
      OBVIOUS
    <3>2. waiters \in Seq(Threads) /\ us \in [Threads -> UsType]
      BY Zenon, <1>1 DEF TypeOK
    <3>3. us' = [us EXCEPT ![t] = [NoUs EXCEPT !.testing = b, !.late = b,
                                               !.new = waiters]]
      BY Zenon DEF UsBegin
    <3> HIDE DEF b
    <3>4. [NoUs EXCEPT !.testing = b, !.late = b, !.new = waiters] \in UsType
      BY Zenon, <3>1, <3>2, NoLocalsType, UsFields
    <3> QED
      BY Zenon, <3>2, <3>3, <3>4
  <2>3. waiters' \in Seq(Threads)
    BY DEF UsBegin
  <2>4. pc' \in [Threads -> PCs]
    BY Zenon, <1>1, PcType DEF UsBegin, PCs, HoldPCs
  <2> QED
    BY Zenon, <1>1, <2>1, <2>2, <2>3, <2>4 DEF TypeOK, UsBegin, waiterVars, clientVars
<1>3. OnlyMoves(t)
  BY Zenon, <1>1 DEF TypeOK, OnlyMoves, UsBegin, Goto
<1>4. StepOK(t)
  <2>1. /\ pc[t] = "us" /\ pc'[t] = "us_loop" /\ l_type' = l_type
        /\ us'[t].late = ("CONDITION" \in word.bits)
        /\ "SPINLOCK" \notin word.bits /\ word.readers < 2
        /\ word' = SetClear(EarlyRelease(word, l_type[t]), {"SPINLOCK", "DESIG_WAKER"}, {})
    BY <1>1 DEF TypeOK, UsBegin, Goto, NoNeedToWake, NoUs, Word
  <2>2. word \in Word /\ l_type[t] \in LockTypes
    BY Zenon, <1>1 DEF TypeOK
  <2>3. /\ word'.bits = EarlyRelease(word, l_type[t]).bits \cup {"SPINLOCK", "DESIG_WAKER"}
        /\ word'.readers = EarlyRelease(word, l_type[t]).readers
    BY Zenon, <2>1 DEF SetClear
  <2>4. /\ HoldsWrite(t) <=> l_type[t] = "writer"
        /\ HoldsRead(t) <=> l_type[t] = "reader"
        /\ ~HoldsSpinlock(t) /\ ~HoldsRead(t)' /\ HoldsSpinlock(t)'
        /\ HoldsWrite(t)' <=> "CONDITION" \in word.bits
    BY Zenon, <2>1 DEF HoldsWrite, HoldsRead, HoldsSpinlock, HoldPCs
  <2>5. /\ l_type[t] = "writer" => "WLOCK" \in word.bits /\ word.readers = 0
        /\ l_type[t] = "reader" => "WLOCK" \notin word.bits /\ word.readers = 1
    BY <2>1, <2>2, <2>4, HolderFacts DEF Word
  <2>6. CASE l_type[t] = "writer"
    <3>1. /\ word'.readers = 0
          /\ "WLOCK" \in word'.bits <=> "CONDITION" \in word.bits
          /\ "SPINLOCK" \in word'.bits
      BY Zenon, <2>3, <2>5, <2>6 DEF EarlyRelease, SubToRelease, AddToAcquire
    <3>2. HoldsWrite(t) /\ ~HoldsRead(t) /\ "WLOCK" \in word.bits /\ word.readers = 0
      BY Zenon, <2>4, <2>5, <2>6
    <3>3. ReadersFollow(HoldsRead(t), HoldsRead(t)')
      BY <2>4, <3>1, <3>2 DEF ReadersFollow
    <3>4. BitFollows("WLOCK", HoldsWrite(t), HoldsWrite(t)')
      BY Zenon, <2>4, <3>1, <3>2 DEF BitFollows
    <3>5. BitFollows("SPINLOCK", HoldsSpinlock(t), HoldsSpinlock(t)')
      BY Zenon, <2>1, <2>4, <3>1 DEF BitFollows
    <3> QED
      BY <3>1, <3>2, <3>3, <3>4, <3>5, Zenon DEF StepOK
  <2>7. CASE l_type[t] = "reader"
    <3>1. /\ word'.readers = 0
          /\ "WLOCK" \in word'.bits <=> "CONDITION" \in word.bits
          /\ "SPINLOCK" \in word'.bits
      BY <2>3, <2>5, <2>7 DEF EarlyRelease, SubToRelease, AddToAcquire
    <3>2. ~HoldsWrite(t) /\ HoldsRead(t) /\ "WLOCK" \notin word.bits /\ word.readers = 1
      BY Zenon, <2>4, <2>5, <2>7
    <3>3. ReadersFollow(HoldsRead(t), HoldsRead(t)')
      BY <2>4, <3>1, <3>2 DEF ReadersFollow
    <3>4. BitFollows("WLOCK", HoldsWrite(t), HoldsWrite(t)')
      BY Zenon, <2>4, <3>1, <3>2 DEF BitFollows
    <3>5. BitFollows("SPINLOCK", HoldsSpinlock(t), HoldsSpinlock(t)')
      BY Zenon, <2>1, <2>4, <3>1 DEF BitFollows
    <3> QED
      BY <3>1, <3>2, <3>3, <3>4, <3>5, Zenon DEF StepOK
  <2> QED
    BY Zenon, <2>2, <2>6, <2>7 DEF LockTypes
<1>5. Remembers(t)'
  BY Zenon, <1>1 DEF TypeOK, UsBegin, Goto, Remembers, NoUs
<1> QED
  BY Zenon, <1>2, <1>3, <1>4, <1>5 DEF Good

\* nsync_mu_unlock_slow_ takes over the queue.
LEMMA UsStartScanGood ==
  ASSUME NEW t \in Threads, LocalInv(t), UsStartScan(t)
  PROVE  Good(t)
<1>1. TypeOK /\ Remembers(t)
  BY Zenon, RemembersNow
<1>2. TypeOK'
  <2>1. word' \in Word
    BY Zenon, <1>1, SetClearFacts DEF TypeOK, UsStartScan
  <2>2. us' \in [Threads -> UsType]
    <3> DEFINE b == KeepTesting(us[t], Head(us[t].new))
    <3>1. b \in BOOLEAN
      BY Zenon DEF KeepTesting
    <3>2. us \in [Threads -> UsType] /\ us[t] \in UsType
      BY Zenon, <1>1 DEF TypeOK
    <3>3. us' = [us EXCEPT ![t] = [us[t] EXCEPT !.testing = b, !.i = 1]]
      BY Zenon, <3>2 DEF UsStartScan
    <3> HIDE DEF b
    <3>4. \A n \in Nat \ {0} : [us[t] EXCEPT !.testing = b, !.i = n] \in UsType
      BY Zenon, <3>1, <3>2, UsFields
    <3>5. 1 \in Nat \ {0}
      OBVIOUS
    <3>6. [us[t] EXCEPT !.testing = b, !.i = 1] \in UsType
      BY Zenon, <3>4, <3>5
    <3> QED
      BY Zenon, <3>2, <3>3, <3>6
  <2>3. pc' \in [Threads -> PCs]
    BY Zenon, <1>1, PcType DEF UsStartScan, PCs, HoldPCs
  <2> QED
    BY Zenon, <1>1, <2>1, <2>2, <2>3 DEF TypeOK, UsStartScan, waiterVars, clientVars
<1>3. OnlyMoves(t)
  BY Zenon, <1>1 DEF TypeOK, OnlyMoves, UsStartScan, Goto
<1>4. StepOK(t)
  <2>1. /\ pc[t] = "us_loop" /\ pc'[t] = "us_scan" /\ l_type' = l_type
        /\ us'[t].late = us[t].late
        /\ us'[t].testing = KeepTesting(us[t], Head(us[t].new))
        /\ word' = IF us'[t].testing THEN SetClear(word, {}, {"SPINLOCK"}) ELSE word
    BY <1>1 DEF TypeOK, UsStartScan, Goto, UsType
  <2>2. /\ HoldsWrite(t)' <=> HoldsWrite(t)
        /\ HoldsRead(t)' <=> HoldsRead(t)
        /\ HoldsSpinlock(t) /\ (HoldsSpinlock(t)' <=> ~us'[t].testing)
    BY Zenon, <2>1 DEF HoldsWrite, HoldsRead, HoldsSpinlock, HoldPCs
  <2> QED
    BY Zenon, <2>1, <2>2, SpinlockGiven, QuietStep
<1>5. Remembers(t)'
  BY <1>1 DEF TypeOK, UsStartScan, Goto, Remembers, UsType, KeepTesting
<1> QED
  BY Zenon, <1>2, <1>3, <1>4, <1>5 DEF Good

\* nsync_mu_unlock_slow_ considers one waiter.
LEMMA UsScanGood ==
  ASSUME NEW t \in Threads, LocalInv(t), UsScan(t)
  PROVE  Good(t)
<1> DEFINE u == us[t]
           p == u.new[u.i]
<1>1. TypeOK /\ Remembers(t)
  BY Zenon, RemembersNow
<1>2. /\ us \in [Threads -> UsType] /\ u \in UsType
      /\ removed \in [Threads -> BOOLEAN] /\ l_type \in [Threads -> LockTypes]
      /\ pc \in [Threads -> PCs]
  BY Zenon, <1>1 DEF TypeOK
<1>3. u.new \in Seq(Threads) /\ u.wake \in Seq(Threads) /\ u.i \in 1..Len(u.new)
  <2>1. u.new \in Seq(Threads) /\ u.wake \in Seq(Threads) /\ u.i \in Nat \ {0}
    BY Zenon, <1>2 DEF UsType
  <2>2. ~(u.i > Len(u.new))
    BY Zenon DEF UsScan, ScanEnded
  <2> QED
    BY <2>1, <2>2
<1>4. p \in Threads /\ Without(u.new, u.i) \in Seq(Threads)
  BY Zenon, <1>3, WithoutType
<1>5. /\ pc[t] = "us_scan"
      /\ pc'[t] \in {"us_scan", "us_panic"} /\ pc' = [pc EXCEPT ![t] = pc'[t]]
      /\ word' = word /\ l_type' = l_type /\ old' = old /\ mw' = mw
  BY Zenon, <1>2 DEF UsScan, Goto, muVars
<1>6. /\ removed' \in [Threads -> BOOLEAN]
      /\ \E r \in UsType : /\ us' = [us EXCEPT ![t] = r]
                           /\ r.late = u.late /\ r.testing = u.testing
  <2>1. CASE cond[p] # NoCond /\ ~u.testing
    <3>1. removed' = removed /\ us' = us
      BY Zenon, <2>1 DEF UsScan
    <3> QED
      BY Zenon, <1>2, <3>1
  <2>2. CASE /\ us' = [us EXCEPT ![t].i = SkipPastSameCondition(same, u.new, u.i)]
             /\ removed' = removed
    <3> DEFINE n == SkipPastSameCondition(same, u.new, u.i)
    <3>1. n \in Nat \ {0}
      BY <1>3 DEF SkipPastSameCondition, IndexOf
    <3>2. us' = [us EXCEPT ![t] = [u EXCEPT !.i = n]]
      BY Zenon, <1>2, <2>2
    <3> HIDE DEF n
    <3>3. [u EXCEPT !.i = n] \in UsType
      BY Zenon, <1>2, <3>1, UsFields
    <3>4. [u EXCEPT !.i = n].late = u.late /\ [u EXCEPT !.i = n].testing = u.testing
      BY Zenon, <1>2 DEF UsType
    <3> QED
      BY Zenon, <1>2, <2>2, <3>2, <3>3, <3>4
  <2>3. CASE /\ us' = [us EXCEPT ![t].new = Without(u.new, u.i),
                                 ![t].wake = Append(u.wake, p),
                                 ![t].wake_type = l_type[p]]
             /\ removed' = [removed EXCEPT ![p] = TRUE]
    <3> DEFINE q == Without(u.new, u.i)
               v == Append(u.wake, p)
               r == [u EXCEPT !.new = q, !.wake = v, !.wake_type = l_type[p]]
    <3>1. v \in Seq(Threads) /\ q \in Seq(Threads) /\ l_type[p] \in LockTypes
      BY <1>2, <1>3, <1>4
    <3>2. us' = [us EXCEPT ![t] = r]
      BY Zenon, <1>2, <2>3
    <3> HIDE DEF q, v
    <3>3. r \in UsType
      BY Zenon, <1>2, <3>1, UsFields
    <3>4. r.late = u.late /\ r.testing = u.testing
      BY Zenon, <1>2 DEF UsType
    <3>5. removed' \in [Threads -> BOOLEAN]
      BY Zenon, <1>2, <2>3
    <3> QED
      BY Zenon, <3>2, <3>3, <3>4, <3>5
  <2>4. CASE /\ us' = [us EXCEPT ![t].i = u.i + 1, ![t].writer_waiting = TRUE,
                                 ![t].all_false = FALSE]
             /\ removed' = removed
    <3> DEFINE n == u.i + 1
               r == [u EXCEPT !.i = n, !.writer_waiting = TRUE, !.all_false = FALSE]
    <3>1. n \in Nat \ {0}
      BY <1>3
    <3>2. us' = [us EXCEPT ![t] = r]
      BY Zenon, <1>2, <2>4
    <3> HIDE DEF n
    <3>3. r \in UsType
      BY Zenon, <1>2, <3>1, UsFields
    <3>4. r.late = u.late /\ r.testing = u.testing
      BY Zenon, <1>2 DEF UsType
    <3> QED
      BY Zenon, <1>2, <2>4, <3>2, <3>3, <3>4
  <2> QED
    BY Zenon, <2>1, <2>2, <2>3, <2>4 DEF UsScan
<1>7. PICK r \in UsType : /\ us' = [us EXCEPT ![t] = r]
                         /\ r.late = u.late /\ r.testing = u.testing
  BY Zenon, <1>6
<1>8. us' \in [Threads -> UsType] /\ us'[t] = r
  BY Zenon, <1>2, <1>7
<1>9. TypeOK'
  <2>1. pc' \in [Threads -> PCs]
    BY Zenon, <1>2, <1>5 DEF PCs
  <2> QED
    BY Zenon, <1>1, <1>6, <1>8, <2>1 DEF TypeOK, UsScan, muVars, clientVars
<1>10. OnlyMoves(t)
  BY Zenon, <1>2, <1>5, <1>7 DEF OnlyMoves
<1>11. StepOK(t)
  BY Zenon, <1>5, <1>7, <1>8, QuietStep DEF HoldsWrite, HoldsRead, HoldsSpinlock, HoldPCs
<1>12. Remembers(t)'
  BY Zenon, <1>1, <1>5, <1>7, <1>8 DEF Remembers
<1> QED
  BY Zenon, <1>9, <1>10, <1>11, <1>12 DEF Good

\* nsync_mu_unlock_slow_ ends a pass over the queue.
LEMMA UsEndScanGood ==
  ASSUME NEW t \in Threads, LocalInv(t), UsEndScan(t)
  PROVE  Good(t)
<1> DEFINE u == us[t]
           a == u.all_false /\ u.i > Len(u.new)
           s == u.seen \o u.new
           r == [u EXCEPT !.all_false = a, !.seen = s, !.new = waiters]
<1>1. TypeOK /\ Remembers(t)
  BY Zenon, RemembersNow
<1>2. /\ us \in [Threads -> UsType] /\ u \in UsType
      /\ word \in Word /\ waiters \in Seq(Threads)
  BY Zenon, <1>1 DEF TypeOK
<1>3. s \in Seq(Threads) /\ a \in BOOLEAN
  <2>1. /\ u.seen \in Seq(Threads) /\ u.new \in Seq(Threads)
        /\ u.all_false \in BOOLEAN
    BY Zenon, <1>2 DEF UsType
  <2> QED
    BY <2>1
<1>4. us' = [us EXCEPT ![t] = r]
  BY Zenon, <1>2 DEF UsEndScan
<1>5. /\ pc[t] = "us_scan" /\ l_type' = l_type /\ waiters' = <<>>
      /\ word' = SetClear(word, {"SPINLOCK"}, {})
      /\ u.testing => "SPINLOCK" \notin word.bits
      /\ pc' = [pc EXCEPT ![t] = "us_loop"]
  BY Zenon DEF UsEndScan, Goto
<1> HIDE DEF a, s
<1>6. r \in UsType /\ r.late = u.late /\ r.testing = u.testing
  <2>1. r \in UsType
    BY Zenon, <1>2, <1>3, UsFields
  <2> QED
    BY Zenon, <1>2, <2>1 DEF UsType
<1> HIDE DEF r
<1>7. us' \in [Threads -> UsType] /\ us'[t] = r /\ pc'[t] = "us_loop"
  BY Zenon, <1>1, <1>2, <1>4, <1>5, <1>6 DEF TypeOK
<1>8. TypeOK'
  <2>1. word' \in Word
    <3>1. {"SPINLOCK"} \in SUBSET MU_BITS
      BY Zenon DEF MU_BITS
    <3> QED
      BY Zenon, <1>2, <1>5, <3>1, SetClearFacts
  <2>2. pc' \in [Threads -> PCs]
    BY Zenon, <1>1, <1>5 DEF TypeOK, PCs
  <2>3. waiters' \in Seq(Threads)
    BY <1>5
  <2> QED
    BY Zenon, <1>1, <1>7, <2>1, <2>2, <2>3 DEF TypeOK, UsEndScan, clientVars
<1>9. OnlyMoves(t)
  BY Zenon, <1>1, <1>2, <1>4, <1>5 DEF TypeOK, OnlyMoves, UsEndScan
<1>10. StepOK(t)
  <2>1. /\ HoldsWrite(t)' <=> HoldsWrite(t)
        /\ HoldsRead(t)' <=> HoldsRead(t)
        /\ HoldsSpinlock(t)' /\ (HoldsSpinlock(t) <=> ~u.testing)
    BY Zenon, <1>5, <1>6, <1>7 DEF HoldsWrite, HoldsRead, HoldsSpinlock, HoldPCs
  <2>2. CASE u.testing
    BY Zenon, <1>5, <2>1, <2>2, SpinlockTaken
  <2>3. CASE ~u.testing
    <3>1. "SPINLOCK" \in word.bits
      BY Zenon, <2>1, <2>3, HolderFacts
    <3>2. word' = word
      BY Zenon, <1>2, <1>5, <3>1 DEF SetClear, Word
    <3> QED
      BY Zenon, <2>1, <2>3, <3>2, QuietStep
  <2> QED
    BY Zenon, <2>2, <2>3
<1>11. Remembers(t)'
  BY Zenon, <1>1, <1>5, <1>6, <1>7 DEF Remembers, UsEndScan
<1> QED
  BY Zenon, <1>8, <1>9, <1>10, <1>11 DEF Good

\* nsync_mu_unlock_slow_ releases the spinlock, and a lock it still holds.
LEMMA UsReleaseGood ==
  ASSUME NEW t \in Threads, LocalInv(t), UsRelease(t)
  PROVE  Good(t)
<1>1. TypeOK /\ Remembers(t)
  BY Zenon, RemembersNow
<1>2. TypeOK'
  <2>1. word' \in Word
    <3>1. word \in Word /\ "writer" \in LockTypes
      BY Zenon, <1>1 DEF TypeOK, LockTypes
    <3>2. SubToRelease(word, "writer") \in Word
      BY Zenon, <3>1, SubFacts
    <3>3. SetOnRelease(us[t]) \in SUBSET MU_BITS
      BY Zenon DEF SetOnRelease, MU_BITS
    <3> QED
      BY Zenon, <3>1, <3>2, <3>3, SetClearFacts DEF UsRelease, LateRelease
  <2>2. waiters' \in Seq(Threads)
    BY Zenon, <1>1 DEF TypeOK, UsType, UsRelease
  <2>3. us' \in [Threads -> UsType]
    <3>1. us \in [Threads -> UsType] /\ us[t].wake \in Seq(Threads)
      BY Zenon, <1>1 DEF TypeOK, UsType
    <3>2. [NoUs EXCEPT !.wake = us[t].wake] \in UsType
      BY Zenon, <3>1, NoLocalsType, UsFields
    <3> QED
      BY Zenon, <3>1, <3>2, NoLocalsType DEF UsRelease
  <2>4. /\ l_type' \in [Threads -> LockTypes]
        /\ ret' \in [Threads -> RetPoints]
    BY Zenon, <1>1 DEF TypeOK, UsRelease, Released, Goto, LockTypes, RetPoints
  <2>5. pc' \in [Threads -> PCs]
    BY Zenon, <1>1, PcType DEF UsRelease, Released, PCs, HoldPCs
  <2> QED
    BY Zenon, <1>1, <2>1, <2>2, <2>3, <2>4, <2>5 DEF TypeOK, UsRelease, waiterVars,
       clientVars
<1>3. OnlyMoves(t)
  BY Zenon, <1>1 DEF TypeOK, OnlyMoves, UsRelease, Released, Goto
<1>4. StepOK(t)
  <2>1. /\ pc[t] = "us_loop" /\ pc'[t] \in {"mw_wait", "idle", "us_wake"}
        /\ word' = SetClear(LateRelease(word, us[t]), SetOnRelease(us[t]),
                            ClearOnRelease(us[t]))
    BY Zenon, <1>1 DEF TypeOK, UsRelease, Released, Goto
  <2>2. /\ HoldsWrite(t) <=> us[t].late
        /\ ~HoldsRead(t) /\ HoldsSpinlock(t)
        /\ ~HoldsWrite(t)' /\ ~HoldsRead(t)' /\ ~HoldsSpinlock(t)'
    BY Zenon, <2>1 DEF HoldsWrite, HoldsRead, HoldsSpinlock, HoldPCs
  <2>3. /\ "SPINLOCK" \notin SetOnRelease(us[t]) /\ "WLOCK" \notin SetOnRelease(us[t])
        /\ "SPINLOCK" \in ClearOnRelease(us[t]) /\ "WLOCK" \notin ClearOnRelease(us[t])
    BY Zenon DEF SetOnRelease, ClearOnRelease
  <2>4. word.readers \in Nat
    BY Zenon, <1>1 DEF TypeOK, Word
  <2>5. /\ word'.readers = word.readers /\ "SPINLOCK" \notin word'.bits
        /\ us[t].late => "WLOCK" \notin word'.bits
        /\ ~us[t].late => ("WLOCK" \in word'.bits <=> "WLOCK" \in word.bits)
    BY Zenon, <2>1, <2>3 DEF SetClear, SubToRelease, LateRelease
  <2>6. /\ us[t].late => "WLOCK" \in word.bits /\ word.readers = 0
        /\ "WLOCK" \in word.bits => word.readers = 0
        /\ "SPINLOCK" \in word.bits
    BY Zenon, <2>2, HolderFacts
  <2>7. ReadersFollow(HoldsRead(t), HoldsRead(t)')
    BY <2>2, <2>4, <2>5 DEF ReadersFollow
  <2>8. BitFollows("WLOCK", HoldsWrite(t), HoldsWrite(t)')
    BY Zenon, <2>2, <2>5, <2>6 DEF BitFollows
  <2>9. BitFollows("SPINLOCK", HoldsSpinlock(t), HoldsSpinlock(t)')
    BY Zenon, <2>2, <2>5, <2>6 DEF BitFollows
  <2> QED
    BY <2>2, <2>5, <2>6, <2>7, <2>8, <2>9, Zenon DEF StepOK
<1>5. Remembers(t)'
  BY <1>1 DEF TypeOK, UsRelease, Released, Goto, Remembers, NoUs
<1> QED
  BY Zenon, <1>2, <1>3, <1>4, <1>5 DEF Good

\* nsync_mu_unlock_slow_ clears w->nw.waiting of a waiter.
LEMMA UsWakeGood ==
  ASSUME NEW t \in Threads, LocalInv(t), UsWake(t)
  PROVE  Good(t)
<1>1. TypeOK /\ Remembers(t)
  BY Zenon, RemembersNow
<1>2. TypeOK'
  <2>1. waiting' \in [Threads -> BOOLEAN]
    BY Zenon, <1>1 DEF TypeOK, UsWake, Goto
  <2>2. pc' \in [Threads -> PCs]
    BY Zenon, <1>1, PcType DEF UsWake, PCs, HoldPCs
  <2> QED
    BY Zenon, <1>1, <2>1, <2>2 DEF TypeOK, UsWake, muVars, localVars, clientVars
<1>3. OnlyMoves(t)
  BY Zenon, <1>1 DEF TypeOK, OnlyMoves, UsWake, Goto, localVars
<1>4. StepOK(t)
  BY Zenon, <1>1, QuietStep DEF TypeOK, UsWake, Goto, HoldsWrite, HoldsRead,
     HoldsSpinlock, HoldPCs, muVars, localVars
<1>5. Remembers(t)'
  BY <1>1, Zenon DEF TypeOK, UsWake, Goto, Remembers, localVars
<1> QED
  BY Zenon, <1>2, <1>3, <1>4, <1>5 DEF Good

\* nsync_mu_unlock_slow_ posts the semaphore of a waiter.
LEMMA UsVGood ==
  ASSUME NEW t \in Threads, LocalInv(t), UsV(t)
  PROVE  Good(t)
<1>1. TypeOK /\ Remembers(t)
  BY Zenon, RemembersNow
<1>2. TypeOK'
  <2>1. sem' \in [Threads -> 0..SemMax]
    <3> DEFINE w == Head(us[t].wake)
    <3>1. sem \in [Threads -> 0..SemMax]
      BY Zenon, <1>1 DEF TypeOK
    <3>2. sem' = [sem EXCEPT ![w] = IF sem[w] < SemMax THEN sem[w] + 1 ELSE sem[w]]
      BY Zenon DEF UsV, SemV
    <3>3. us[t].wake \in Seq(Threads) /\ us[t].wake # <<>>
      BY Zenon, <1>1 DEF TypeOK, UsType, Remembers, UsV
    <3>4. w \in Threads
      BY <3>3
    <3> HIDE DEF w
    <3>5. (IF sem[w] < SemMax THEN sem[w] + 1 ELSE sem[w]) \in 0..SemMax
      BY <3>1, <3>4, BoundsAssumption
    <3> QED
      BY Zenon, <3>1, <3>2, <3>5
  <2>2. us' \in [Threads -> UsType]
    <3>1. us \in [Threads -> UsType] /\ us[t] \in UsType /\ us[t].wake \in Seq(Threads)
      BY Zenon, <1>1 DEF TypeOK, UsType
    <3>2. Tail(us[t].wake) \in Seq(Threads)
      BY <1>1, <3>1 DEF Remembers, UsV
    <3>3. [us[t] EXCEPT !.wake = Tail(us[t].wake)] \in UsType
      BY Zenon, <3>1, <3>2, UsFields
    <3> QED
      BY Zenon, <3>1, <3>3 DEF UsV
  <2>3. /\ l_type' \in [Threads -> LockTypes]
        /\ ret' \in [Threads -> RetPoints]
    BY Zenon, <1>1 DEF TypeOK, UsV, SemV, Released, Goto, LockTypes, RetPoints
  <2>4. pc' \in [Threads -> PCs]
    BY Zenon, <1>1, PcType DEF UsV, SemV, Released, PCs, HoldPCs
  <2> QED
    BY Zenon, <1>1, <2>1, <2>2, <2>3, <2>4 DEF TypeOK, UsV, muVars, clientVars
<1>3. OnlyMoves(t)
  BY <1>1 DEF TypeOK, OnlyMoves, UsV, SemV, Released, Goto
<1>4. StepOK(t)
  <2>1. pc[t] = "us_v" /\ pc'[t] \in {"mw_wait", "idle", "us_wake"} /\ word' = word
    BY Zenon, <1>1 DEF TypeOK, UsV, Released, Goto, muVars
  <2> QED
    BY Zenon, <2>1, QuietStep DEF HoldsWrite, HoldsRead, HoldsSpinlock, HoldPCs
<1>5. Remembers(t)'
  <2>1. us'[t].wake = Tail(us[t].wake)
    BY <1>1 DEF TypeOK, UsV, UsType
  <2>2. /\ mw' = mw /\ pc[t] = "us_v"
        /\ pc'[t] \in {"mw_wait", "idle"} \/ (pc'[t] = "us_wake" /\ Tail(us[t].wake) # <<>>)
    BY Zenon, <1>1 DEF TypeOK, UsV, Released, Goto
  <2> QED
    BY Zenon, <1>1, <2>1, <2>2 DEF Remembers
<1> QED
  BY Zenon, <1>2, <1>3, <1>4, <1>5 DEF Good

-----------------------------------------------------------------------------
(* nsync_mu_wait_with_deadline and mu_try_acquire_after_timeout_or_cancel  *)

\* A call of nsync_mu_wait or nsync_mu_wait_with_deadline.
LEMMA MuWaitCallGood ==
  ASSUME NEW t \in Threads, LocalInv(t), NEW c \in Conds \cup {NoCond},
         NEW timed \in BOOLEAN, MuWaitCall(t, c, timed)
  PROVE  Good(t)
<1>1. TypeOK /\ Remembers(t)
  BY Zenon, RemembersNow
<1>2. TypeOK'
  <2>1. MayCall(t)
    BY Zenon DEF MuWaitCall
  <2>2. calls' \in [Threads -> 0..MaxCalls]
    BY Zenon, <1>1, <2>1, CallsType
  <2>3. mw' \in [Threads -> MwType]
    <3>1. [NoMw EXCEPT !.want = c, !.timed = timed] \in MwType
      BY Zenon DEF NoMw, MwType
    <3>2. \/ mw' = mw
          \/ mw' = [mw EXCEPT ![t] = [NoMw EXCEPT !.want = c, !.timed = timed]]
      BY Zenon DEF MuWaitCall
    <3> QED
      BY Zenon, <1>1, <3>1, <3>2 DEF TypeOK
  <2>4. /\ l_type' \in [Threads -> LockTypes]
        /\ ret' \in [Threads -> RetPoints]
    BY Zenon, <1>1 DEF TypeOK, MuWaitCall, Goto, LockTypes, RetPoints
  <2>5. pc' \in [Threads -> PCs]
    <3>1. pc' = pc \/ Goto(t, "panic") \/ Goto(t, "mw_spin")
      BY Zenon DEF MuWaitCall
    <3> QED
      BY Zenon, <1>1, <3>1, PcType DEF TypeOK, PCs, HoldPCs
  <2> QED
    BY Zenon, <1>1, <2>1, <2>2, <2>3, <2>4, <2>5 DEF TypeOK, MuWaitCall, muVars,
       waiterVars
<1>3. OnlyMoves(t)
  BY <1>1 DEF TypeOK, OnlyMoves, MuWaitCall, Goto
<1>4. StepOK(t)
  <2>1. pc[t] = "held" /\ us' = us /\ word' = word /\ l_type[t] \in LockTypes
    BY Zenon, <1>1 DEF TypeOK, MuWaitCall, muVars
  <2>2. /\ AnyLock(word)
        /\ l_type[t] = IF word.readers > 0 THEN "reader" ELSE "writer"
    <3>1. CASE l_type[t] = "writer"
      <4>1. HoldsWrite(t)
        BY Zenon, <2>1, <3>1 DEF HoldsWrite, HoldPCs
      <4>2. "WLOCK" \in word.bits /\ word.readers = 0
        BY Zenon, <4>1, HolderFacts
      <4> QED
        BY <3>1, <4>2 DEF AnyLock
    <3>2. CASE l_type[t] = "reader"
      <4>1. HoldsRead(t)
        BY Zenon, <2>1, <3>2 DEF HoldsRead, HoldPCs
      <4>2. word.readers > 0
        BY Zenon, <4>1, HolderFacts
      <4> QED
        BY Zenon, <3>2, <4>2 DEF AnyLock
    <3> QED
      BY <2>1, <3>1, <3>2, Zenon DEF LockTypes
  <2>3. pc'[t] \in {"held", "mw_spin"} /\ l_type' = l_type
    BY <1>1, <2>1, <2>2 DEF TypeOK, MuWaitCall, Goto
  <2> QED
    BY Zenon, <2>1, <2>3, QuietStep DEF HoldsWrite, HoldsRead, HoldsSpinlock, HoldPCs
<1>5. Remembers(t)'
  <2>1. pc[t] = "held" /\ pc'[t] \in {"held", "panic", "mw_spin"}
    BY <1>1 DEF TypeOK, MuWaitCall, Goto
  <2>2. mw'[t] = mw[t] \/ mw'[t].outcome = "none"
    <3>1. \/ mw' = mw
          \/ mw' = [mw EXCEPT ![t] = [NoMw EXCEPT !.want = c, !.timed = timed]]
      BY Zenon DEF MuWaitCall
    <3> QED
      BY Zenon, <1>1, <3>1 DEF TypeOK, NoMw
  <2> QED
    BY Zenon, <1>1, <2>1, <2>2 DEF Remembers
<1> QED
  BY Zenon, <1>2, <1>3, <1>4, <1>5 DEF Good

\* A thread in its critical section makes conditions true or false.
LEMMA ChangeGood ==
  ASSUME NEW t \in Threads, LocalInv(t), Change(t)
  PROVE  Good(t)
<1>1. TypeOK /\ Remembers(t)
  BY Zenon, RemembersNow
<1>2. TypeOK'
  <2>1. /\ truth' \in [Conds -> BOOLEAN]
        /\ changed' \in [Threads -> {"nothing", "made_true", "made_false"}]
    BY <1>1, ZenonT(30) DEF TypeOK, Change
  <2> QED
    BY <1>1, <2>1, ZenonT(30) DEF TypeOK, Change, muVars, waiterVars, localVars
<1>3. OnlyMoves(t)
  BY <1>1, ZenonT(30) DEF TypeOK, OnlyMoves, Change, localVars
<1>4. StepOK(t)
  BY <1>1, QuietStep, ZenonT(30) DEF TypeOK, Change, HoldsWrite, HoldsRead, HoldsSpinlock,
     HoldPCs, muVars, localVars
<1>5. Remembers(t)'
  BY <1>1, Zenon DEF TypeOK, Change, Remembers, muVars, localVars
<1> QED
  BY Zenon, <1>2, <1>3, <1>4, <1>5 DEF Good

\* The updates that nsync_mu_wait_with_deadline makes to its locals.
LEMMA MwFields ==
  ASSUME NEW r \in MwType
  PROVE  /\ \A b \in BOOLEAN : [r EXCEPT !.had_waiters = b] \in MwType
         /\ [r EXCEPT !.first_wait = FALSE, !.had_waiters = FALSE] \in MwType
         /\ \A o \in {"none", "expired", "have_lock"} :
              [r EXCEPT !.outcome = o] \in MwType
BY Zenon DEF MwType

\* nsync_mu_wait_with_deadline takes the spinlock.
LEMMA MwSpinlockGood ==
  ASSUME NEW t \in Threads, LocalInv(t), MwSpinlock(t)
  PROVE  Good(t)
<1>1. TypeOK /\ Remembers(t)
  BY Zenon, RemembersNow
<1>2. TypeOK'
  <2>1. word' \in Word
    <3>1. {"SPINLOCK", "WAITING", "CONDITION"} \in SUBSET MU_BITS
      BY Zenon DEF MU_BITS
    <3> QED
      BY Zenon, <1>1, <3>1, SetClearFacts DEF TypeOK, MwSpinlock
  <2>2. mw' \in [Threads -> MwType]
    <3>1. mw \in [Threads -> MwType] /\ mw[t] \in MwType
      BY Zenon, <1>1 DEF TypeOK
    <3>2. HadWaiters(word) \in BOOLEAN
      BY Zenon DEF HadWaiters
    <3>3. mw' = [mw EXCEPT ![t] = [mw[t] EXCEPT !.had_waiters = HadWaiters(word)]]
      BY Zenon, <3>1 DEF MwSpinlock
    <3>4. [mw[t] EXCEPT !.had_waiters = HadWaiters(word)] \in MwType
      BY Zenon, <3>1, <3>2, MwFields
    <3> QED
      BY Zenon, <3>1, <3>3, <3>4
  <2>3. /\ cond' \in [Threads -> Conds \cup {NoCond}]
        /\ waiting' \in [Threads -> BOOLEAN]
        /\ removed' \in [Threads -> BOOLEAN]
    BY Zenon, <1>1 DEF TypeOK, MwSpinlock, Goto, MwType
  <2>4. pc' \in [Threads -> PCs]
    BY Zenon, <1>1, PcType DEF MwSpinlock, PCs, HoldPCs
  <2> QED
    BY Zenon, <1>1, <2>1, <2>2, <2>3, <2>4 DEF TypeOK, MwSpinlock, clientVars
<1>3. OnlyMoves(t)
  BY Zenon, <1>1 DEF TypeOK, OnlyMoves, MwSpinlock, Goto
<1>4. StepOK(t)
  <2>1. /\ pc[t] = "mw_spin" /\ pc'[t] = "mw_queue" /\ "SPINLOCK" \notin word.bits
        /\ word' = SetClear(word, {"SPINLOCK", "WAITING", "CONDITION"}, {"ALL_FALSE"})
        /\ l_type' = l_type /\ us' = us
    BY Zenon, <1>1 DEF TypeOK, MwSpinlock, Goto
  <2>2. /\ HoldsWrite(t)' <=> HoldsWrite(t)
        /\ HoldsRead(t)' <=> HoldsRead(t)
        /\ ~HoldsSpinlock(t) /\ HoldsSpinlock(t)'
    BY Zenon, <2>1 DEF HoldsWrite, HoldsRead, HoldsSpinlock, HoldPCs
  <2> QED
    BY Zenon, <2>1, <2>2, SpinlockTaken
<1>5. Remembers(t)'
  BY Zenon, <1>1 DEF TypeOK, MwSpinlock, Goto, Remembers, MwType
<1> QED
  BY Zenon, <1>2, <1>3, <1>4, <1>5 DEF Good

\* nsync_mu_wait_with_deadline queues the thread and releases.
LEMMA MwQueueGood ==
  ASSUME NEW t \in Threads, LocalInv(t), MwQueue(t)
  PROVE  Good(t)
<1>1. TypeOK /\ Remembers(t)
  BY Zenon, RemembersNow
<1>2. TypeOK'
  <2>1. word' \in Word
    <3>1. SetClear(SubToRelease(word, l_type[t]), {}, {"SPINLOCK"}) \in Word
      BY Zenon, ReleasedWordType DEF MwQueue, HoldPCs
    <3>2. SetClear(word, {}, {"SPINLOCK"}) \in Word
      BY Zenon, <1>1, SetClearFacts DEF TypeOK
    <3> QED
      BY Zenon, <3>1, <3>2 DEF MwQueue
  <2>2. mw' \in [Threads -> MwType]
    <3>1. mw \in [Threads -> MwType] /\ mw[t] \in MwType
      BY Zenon, <1>1 DEF TypeOK
    <3>2. mw' = [mw EXCEPT ![t] = [mw[t] EXCEPT !.first_wait = FALSE,
                                               !.had_waiters = FALSE]]
      BY Zenon, <3>1 DEF MwQueue
    <3> QED
      BY Zenon, <3>1, <3>2, MwFields
  <2>3. waiters' \in Seq(Threads)
    BY <1>1 DEF TypeOK, MwQueue, Goto, Enqueue
  <2>4. pc' \in [Threads -> PCs]
    BY Zenon, <1>1, PcType DEF MwQueue, PCs, HoldPCs
  <2> QED
    BY Zenon, <1>1, <2>1, <2>2, <2>3, <2>4 DEF TypeOK, MwQueue, clientVars
<1>3. OnlyMoves(t)
  BY Zenon, <1>1 DEF TypeOK, OnlyMoves, MwQueue, Goto
<1>4. StepOK(t)
  <2>1. /\ pc[t] = "mw_queue" /\ l_type' = l_type /\ us' = us
        /\ \/ /\ pc'[t] = "us" /\ word' = SetClear(word, {}, {"SPINLOCK"})
           \/ /\ pc'[t] = "mw_wait"
              /\ word' = SetClear(SubToRelease(word, l_type[t]), {}, {"SPINLOCK"})
    BY Zenon, <1>1 DEF TypeOK, MwQueue, Goto
  <2>2. CASE pc'[t] = "us" /\ word' = SetClear(word, {}, {"SPINLOCK"})
    <3>1. /\ HoldsWrite(t)' <=> HoldsWrite(t)
          /\ HoldsRead(t)' <=> HoldsRead(t)
          /\ HoldsSpinlock(t) /\ ~HoldsSpinlock(t)'
      BY Zenon, <2>1, <2>2 DEF HoldsWrite, HoldsRead, HoldsSpinlock, HoldPCs
    <3> QED
      BY Zenon, <2>2, <3>1, SpinlockGiven
  <2>3. CASE /\ pc'[t] = "mw_wait"
             /\ word' = SetClear(SubToRelease(word, l_type[t]), {}, {"SPINLOCK"})
    <3>1. ~HoldsWrite(t)' /\ ~HoldsRead(t)' /\ ~HoldsSpinlock(t)' /\ HoldsSpinlock(t)
      BY Zenon, <2>1, <2>3 DEF HoldsWrite, HoldsRead, HoldsSpinlock, HoldPCs
    <3> QED
      BY Zenon, <2>1, <2>3, <3>1, ReleaseStep DEF HoldPCs
  <2> QED
    BY Zenon, <2>1, <2>2, <2>3
<1>5. Remembers(t)'
  BY Zenon, <1>1 DEF TypeOK, MwQueue, Goto, Remembers, MwType
<1> QED
  BY Zenon, <1>2, <1>3, <1>4, <1>5 DEF Good

\* nsync_mu_wait_with_deadline tests w->nw.waiting.
LEMMA MwTestGood ==
  ASSUME NEW t \in Threads, LocalInv(t), MwTest(t)
  PROVE  Good(t)
<1>1. TypeOK /\ Remembers(t)
  BY Zenon, RemembersNow
<1>2. TypeOK'
  <2>1. mw' \in [Threads -> MwType]
    <3>1. mw \in [Threads -> MwType] /\ mw[t] \in MwType
      BY Zenon, <1>1 DEF TypeOK
    <3>2. mw' = mw \/ mw' = [mw EXCEPT ![t] = [mw[t] EXCEPT !.outcome = "none"]]
      BY Zenon, <3>1 DEF MwTest
    <3> QED
      BY Zenon, <3>1, <3>2, MwFields
  <2>2. ls' \in [Threads -> LsType]
    <3>1. [clear |-> TRUE, wait_count |-> 0] \in LsType
      BY BoundsAssumption DEF LsType
    <3> QED
      BY Zenon, <1>1, <3>1 DEF TypeOK, MwTest
  <2>3. cond' \in [Threads -> Conds \cup {NoCond}]
    BY Zenon, <1>1 DEF TypeOK, MwTest, Goto
  <2>4. pc' \in [Threads -> PCs]
    BY Zenon, <1>1, PcType DEF MwTest, PCs, HoldPCs
  <2> QED
    BY Zenon, <1>1, <2>1, <2>2, <2>3, <2>4 DEF TypeOK, MwTest, muVars, clientVars
<1>3. OnlyMoves(t)
  BY Zenon, <1>1 DEF TypeOK, OnlyMoves, MwTest, Goto
<1>4. StepOK(t)
  BY Zenon, <1>1, QuietStep DEF TypeOK, MwTest, Goto, HoldsWrite, HoldsRead,
     HoldsSpinlock, HoldPCs, muVars
<1>5. Remembers(t)'
  BY <1>1 DEF TypeOK, MwTest, Goto, Remembers, MwType
<1> QED
  BY Zenon, <1>2, <1>3, <1>4, <1>5 DEF Good

\* nsync_mu_wait_with_deadline returns from its semaphore.
LEMMA MwPGood ==
  ASSUME NEW t \in Threads, LocalInv(t), MwP(t)
  PROVE  Good(t)
<1>1. TypeOK /\ Remembers(t)
  BY Zenon, RemembersNow
<1>2. TypeOK'
  <2>1. sem' \in [Threads -> 0..SemMax]
    BY <1>1, BoundsAssumption DEF TypeOK, MwP, SemP, Goto
  <2>2. pc' \in [Threads -> PCs]
    BY Zenon, <1>1, PcType DEF MwP, SemP, PCs, HoldPCs
  <2> QED
    BY Zenon, <1>1, <2>1, <2>2 DEF TypeOK, MwP, muVars, localVars, clientVars
<1>3. OnlyMoves(t)
  BY Zenon, <1>1 DEF TypeOK, OnlyMoves, MwP, SemP, Goto, localVars
<1>4. StepOK(t)
  BY Zenon, <1>1, QuietStep DEF TypeOK, MwP, SemP, Goto, HoldsWrite, HoldsRead,
     HoldsSpinlock, HoldPCs, muVars, localVars
<1>5. Remembers(t)'
  BY <1>1, Zenon DEF TypeOK, MwP, SemP, Goto, Remembers, localVars
<1> QED
  BY Zenon, <1>2, <1>3, <1>4, <1>5 DEF Good

\* The wait on the semaphore expires.
LEMMA MwExpireGood ==
  ASSUME NEW t \in Threads, LocalInv(t), MwExpire(t)
  PROVE  Good(t)
<1>1. TypeOK /\ Remembers(t)
  BY Zenon, RemembersNow
<1>2. TypeOK'
  <2>1. mw' \in [Threads -> MwType]
    <3>1. mw \in [Threads -> MwType] /\ mw[t] \in MwType
      BY Zenon, <1>1 DEF TypeOK
    <3>2. mw' = [mw EXCEPT ![t] = [mw[t] EXCEPT !.outcome = "expired"]]
      BY Zenon, <3>1 DEF MwExpire
    <3> QED
      BY Zenon, <3>1, <3>2, MwFields
  <2>2. pc' \in [Threads -> PCs]
    BY Zenon, <1>1, PcType DEF MwExpire, PCs, HoldPCs
  <2> QED
    BY Zenon, <1>1, <2>1, <2>2 DEF TypeOK, MwExpire, muVars, waiterVars, clientVars
<1>3. OnlyMoves(t)
  BY Zenon, <1>1 DEF TypeOK, OnlyMoves, MwExpire, Goto
<1>4. StepOK(t)
  BY Zenon, <1>1, QuietStep DEF TypeOK, MwExpire, Goto, HoldsWrite, HoldsRead,
     HoldsSpinlock, HoldPCs, muVars
<1>5. Remembers(t)'
  BY Zenon, <1>1 DEF TypeOK, MwExpire, Goto, Remembers, MwType
<1> QED
  BY Zenon, <1>2, <1>3, <1>4, <1>5 DEF Good

\* mu_try_acquire_after_timeout_or_cancel loads the word.
LEMMA MtLoadGood ==
  ASSUME NEW t \in Threads, LocalInv(t), MtLoad(t)
  PROVE  Good(t)
<1>1. TypeOK /\ Remembers(t)
  BY Zenon, RemembersNow
<1>2. TypeOK'
  <2>1. old' \in [Threads -> Word]
    BY Zenon, <1>1 DEF TypeOK, MtLoad, Goto
  <2>2. pc' \in [Threads -> PCs]
    BY Zenon, <1>1, PcType DEF MtLoad, PCs, HoldPCs
  <2> QED
    BY Zenon, <1>1, <2>1, <2>2 DEF TypeOK, MtLoad, muVars, waiterVars, clientVars
<1>3. OnlyMoves(t)
  BY Zenon, <1>1 DEF TypeOK, OnlyMoves, MtLoad, Goto
<1>4. StepOK(t)
  BY Zenon, <1>1, QuietStep DEF TypeOK, MtLoad, Goto, HoldsWrite, HoldsRead,
     HoldsSpinlock, HoldPCs, muVars
<1>5. Remembers(t)'
  BY <1>1, ZenonT(30) DEF TypeOK, MtLoad, Goto, Remembers, MtCanAcquire, MtCanMark,
     CanAcquire
<1> QED
  BY Zenon, <1>2, <1>3, <1>4, <1>5 DEF Good

\* mu_try_acquire_after_timeout_or_cancel tries to take lock and spinlock.
LEMMA MtCasGood ==
  ASSUME NEW t \in Threads, LocalInv(t), MtCas(t)
  PROVE  Good(t)
<1>1. TypeOK /\ Remembers(t)
  BY Zenon, RemembersNow
<1>2. TypeOK'
  <2>1. word' \in Word
    <3>1. word \in Word /\ "writer" \in LockTypes /\ {"SPINLOCK"} \in SUBSET MU_BITS
      BY Zenon, <1>1 DEF TypeOK, LockTypes, MU_BITS
    <3>2. AddToAcquire(word, "writer") \in Word
      BY Zenon, <3>1, AddFacts
    <3>3. MtAcquired(word) \in Word
      BY Zenon, <3>1, <3>2, SetClearFacts DEF MtAcquired
    <3> QED
      BY Zenon, <3>1, <3>3 DEF MtCas
  <2>2. pc' \in [Threads -> PCs]
    BY <1>1, PcType, Zenon DEF MtCas, PCs, HoldPCs
  <2> QED
    BY Zenon, <1>1, <2>1, <2>2 DEF TypeOK, MtCas, waiterVars, localVars, clientVars
<1>3. OnlyMoves(t)
  BY Zenon, <1>1 DEF TypeOK, OnlyMoves, MtCas, Goto, localVars
<1>4. StepOK(t)
  <2>1. pc[t] = "mt_cas" /\ MtCanAcquire(old[t]) /\ l_type' = l_type /\ us' = us
    BY Zenon, <1>1 DEF MtCas, localVars, Remembers
  <2>2. ~HoldsWrite(t) /\ ~HoldsRead(t) /\ ~HoldsSpinlock(t)
    BY Zenon, <2>1 DEF HoldsWrite, HoldsRead, HoldsSpinlock, HoldPCs
  <2>3. CASE word = old[t]
    <3>1. pc'[t] = "mt_check" /\ word' = MtAcquired(word)
      BY Zenon, <1>1, <2>3 DEF TypeOK, MtCas, Goto
    <3>2. /\ word'.bits = (word.bits \cup {"WLOCK", "SPINLOCK"}) \ {"WRITER_WAITING"}
          /\ word'.readers = word.readers
      BY Zenon, <3>1 DEF MtAcquired, SetClear, AddToAcquire, ClearOnAcquire
    <3>3. "WLOCK" \notin word.bits /\ "SPINLOCK" \notin word.bits /\ word.readers = 0
      BY Zenon, <2>1, <2>3 DEF MtCanAcquire, CanAcquire, ZeroToAcquire
    <3>4. HoldsWrite(t)' /\ ~HoldsRead(t)' /\ HoldsSpinlock(t)'
      BY Zenon, <3>1 DEF HoldsWrite, HoldsRead, HoldsSpinlock, HoldPCs
    <3> QED
      BY <2>2, <3>2, <3>3, <3>4 DEF StepOK, BitFollows, ReadersFollow
  <2>4. CASE word # old[t]
    <3>1. pc'[t] \in {"mt_mark", "mt_load"} /\ word' = word
      BY Zenon, <1>1, <2>4 DEF TypeOK, MtCas, Goto
    <3> QED
      BY Zenon, <2>2, <3>1, QuietStep DEF HoldsWrite, HoldsRead, HoldsSpinlock, HoldPCs
  <2> QED
    BY Zenon, <2>3, <2>4
<1>5. Remembers(t)'
  BY <1>1, Zenon DEF TypeOK, MtCas, Goto, Remembers, localVars
<1> QED
  BY Zenon, <1>2, <1>3, <1>4, <1>5 DEF Good

\* mu_try_acquire_after_timeout_or_cancel marks MU_WRITER_WAITING.
LEMMA MtMarkGood ==
  ASSUME NEW t \in Threads, LocalInv(t), MtMark(t)
  PROVE  Good(t)
<1>1. TypeOK /\ Remembers(t)
  BY Zenon, RemembersNow
<1>2. TypeOK'
  <2>1. word' \in Word
    <3>1. {"WRITER_WAITING"} \in SUBSET MU_BITS
      BY Zenon DEF MU_BITS
    <3> QED
      BY Zenon, <1>1, <3>1, SetClearFacts DEF TypeOK, MtMark
  <2>2. pc' \in [Threads -> PCs]
    BY Zenon, <1>1, PcType DEF MtMark, PCs, HoldPCs
  <2> QED
    BY Zenon, <1>1, <2>1, <2>2 DEF TypeOK, MtMark, waiterVars, localVars, clientVars
<1>3. OnlyMoves(t)
  BY Zenon, <1>1 DEF TypeOK, OnlyMoves, MtMark, Goto, localVars
<1>4. StepOK(t)
  <2>1. /\ pc[t] = "mt_mark" /\ MtCanMark(old[t]) /\ pc'[t] = "mt_load"
        /\ word' = IF word = old[t] THEN SetClear(word, {"WRITER_WAITING"}, {}) ELSE word
    BY <1>1, Zenon DEF TypeOK, MtMark, Goto, Remembers
  <2>2. /\ ~HoldsWrite(t) /\ ~HoldsRead(t) /\ ~HoldsSpinlock(t)
        /\ ~HoldsWrite(t)' /\ ~HoldsRead(t)' /\ ~HoldsSpinlock(t)'
    BY Zenon, <2>1 DEF HoldsWrite, HoldsRead, HoldsSpinlock, HoldPCs
  <2>3. CASE word = old[t]
    <3>1. /\ "SPINLOCK" \notin word.bits /\ word.readers \in Nat
          /\ word'.bits = word.bits \cup {"WRITER_WAITING"}
          /\ word'.readers = word.readers
      BY Zenon, <1>1, <2>1, <2>3 DEF TypeOK, Word, MtCanMark, SetClear
    <3>2. "WLOCK" \in word.bits => word.readers = 0
      BY Zenon, HolderFacts
    <3>3. ReadersFollow(HoldsRead(t), HoldsRead(t)')
      BY <2>2, <3>1 DEF ReadersFollow
    <3>4. /\ BitFollows("WLOCK", HoldsWrite(t), HoldsWrite(t)')
          /\ BitFollows("SPINLOCK", HoldsSpinlock(t), HoldsSpinlock(t)')
      BY Zenon, <2>2, <3>1 DEF BitFollows
    <3> QED
      BY Zenon, <3>1, <3>2, <3>3, <3>4 DEF StepOK
  <2>4. CASE word # old[t]
    BY Zenon, <2>1, <2>2, <2>4, QuietStep
  <2> QED
    BY Zenon, <2>3, <2>4
<1>5. Remembers(t)'
  BY <1>1, Zenon DEF TypeOK, MtMark, Goto, Remembers, localVars
<1> QED
  BY Zenon, <1>2, <1>3, <1>4, <1>5 DEF Good

\* mu_try_acquire_after_timeout_or_cancel, holding both, keeps or returns them.
LEMMA MtCheckGood ==
  ASSUME NEW t \in Threads, LocalInv(t), MtCheck(t)
  PROVE  Good(t)
<1>1. TypeOK /\ Remembers(t)
  BY Zenon, RemembersNow
<1>2. TypeOK'
  <2>1. word' \in Word
    BY <1>1, AddFacts DEF TypeOK, MtCheck
  <2>2. waiters' \in Seq(Threads)
    <3>1. waiters \in Seq(Threads) /\ IndexOf(waiters, t) \in 0..Len(waiters)
      BY <1>1 DEF TypeOK, IndexOf
    <3>2. Without(waiters, IndexOf(waiters, t)) \in Seq(Threads)
      BY <3>1 DEF Without
    <3> QED
      BY Zenon, <3>1, <3>2 DEF MtCheck
  <2>3. mw' \in [Threads -> MwType]
    <3>1. mw \in [Threads -> MwType] /\ mw[t] \in MwType
      BY Zenon, <1>1 DEF TypeOK
    <3>2. mw' = mw \/ mw' = [mw EXCEPT ![t] = [mw[t] EXCEPT !.outcome = "have_lock"]]
      BY Zenon, <3>1 DEF MtCheck
    <3> QED
      BY Zenon, <3>1, <3>2, MwFields
  <2>4. old' \in [Threads -> Word]
    BY Zenon, <1>1 DEF TypeOK, MtCheck, Goto, ZeroWord, Word
  <2>5. /\ waiting' \in [Threads -> BOOLEAN]
        /\ removed' \in [Threads -> BOOLEAN]
    BY Zenon, <1>1 DEF TypeOK, MtCheck, Goto
  <2>6. changed' \in [Threads -> {"nothing", "made_true", "made_false"}]
    BY Zenon, <1>1 DEF TypeOK, MtCheck, Goto
  <2>7. pc' \in [Threads -> PCs]
    BY Zenon, <1>1, PcType DEF MtCheck, PCs, HoldPCs
  <2> QED
    BY Zenon, <1>1, <2>1, <2>2, <2>3, <2>4, <2>5, <2>6, <2>7 DEF TypeOK, MtCheck
<1>3. OnlyMoves(t)
  BY <1>1 DEF TypeOK, OnlyMoves, MtCheck, Goto
<1>4. StepOK(t)
  <2>1. /\ pc[t] = "mt_check" /\ MtCanAcquire(old[t]) /\ word = MtAcquired(old[t])
        /\ l_type' = l_type /\ us' = us /\ l_type[t] \in LockTypes
    BY Zenon, <1>1 DEF TypeOK, MtCheck, Remembers
  <2>2. /\ "WLOCK" \notin old[t].bits /\ "SPINLOCK" \notin old[t].bits
        /\ old[t].readers = 0
    BY Zenon, <2>1 DEF MtCanAcquire, CanAcquire, ZeroToAcquire
  <2>3. "WLOCK" \in word.bits /\ "SPINLOCK" \in word.bits /\ word.readers = 0
    BY Zenon, <2>1, <2>2 DEF MtAcquired, SetClear, AddToAcquire, ClearOnAcquire
  <2>4. HoldsWrite(t) /\ ~HoldsRead(t) /\ HoldsSpinlock(t)
    BY Zenon, <2>1 DEF HoldsWrite, HoldsRead, HoldsSpinlock, HoldPCs
  <2>5. CASE StillQueued(t)
    <3>1. pc'[t] = "mw_eval" /\ word' = AddToAcquire(old[t], l_type[t])
      BY Zenon, <1>1, <2>5 DEF TypeOK, MtCheck, Goto
    <3>2. /\ HoldsWrite(t)' <=> l_type[t] = "writer"
          /\ HoldsRead(t)' <=> l_type[t] = "reader"
          /\ ~HoldsSpinlock(t)'
      BY <2>1, <3>1, Zenon DEF HoldsWrite, HoldsRead, HoldsSpinlock, HoldPCs
    <3>3. /\ "SPINLOCK" \notin word'.bits
          /\ "WLOCK" \in word'.bits <=> l_type[t] = "writer"
          /\ word'.readers = IF l_type[t] = "reader" THEN 1 ELSE 0
      <4>1. CASE l_type[t] = "writer"
        BY Zenon, <2>2, <3>1, <4>1 DEF AddToAcquire
      <4>2. CASE l_type[t] = "reader"
        BY <2>2, <3>1, <4>2 DEF AddToAcquire
      <4> QED
        BY <2>1, <4>1, <4>2, Zenon DEF LockTypes
    <3>4. ReadersFollow(HoldsRead(t), HoldsRead(t)')
      <4>1. CASE l_type[t] = "reader"
        BY <2>3, <2>4, <3>2, <3>3, <4>1 DEF ReadersFollow
      <4>2. CASE l_type[t] # "reader"
        BY <2>3, <2>4, <3>2, <3>3, <4>2 DEF ReadersFollow
      <4> QED
        BY Zenon, <4>1, <4>2
    <3>5. BitFollows("WLOCK", HoldsWrite(t), HoldsWrite(t)')
      BY Zenon, <2>3, <2>4, <3>2, <3>3 DEF BitFollows
    <3>6. BitFollows("SPINLOCK", HoldsSpinlock(t), HoldsSpinlock(t)')
      BY Zenon, <2>3, <2>4, <3>2, <3>3 DEF BitFollows
    <3>7. "WLOCK" \in word'.bits => word'.readers = 0
      BY Zenon, <3>3
    <3> QED
      BY <2>4, <3>4, <3>5, <3>6, <3>7, ZenonT(30) DEF StepOK
  <2>6. CASE ~StillQueued(t)
    <3>1. pc'[t] = "mw_wait" /\ word' = old[t]
      BY Zenon, <1>1, <2>6 DEF TypeOK, MtCheck, Goto
    <3>2. ~HoldsWrite(t)' /\ ~HoldsRead(t)' /\ ~HoldsSpinlock(t)'
      BY Zenon, <3>1 DEF HoldsWrite, HoldsRead, HoldsSpinlock, HoldPCs
    <3>3. "WLOCK" \notin word'.bits /\ "SPINLOCK" \notin word'.bits /\ word'.readers = 0
      BY Zenon, <2>2, <3>1
    <3>4. ReadersFollow(HoldsRead(t), HoldsRead(t)')
      BY <2>3, <2>4, <3>2, <3>3 DEF ReadersFollow
    <3>5. /\ BitFollows("WLOCK", HoldsWrite(t), HoldsWrite(t)')
          /\ BitFollows("SPINLOCK", HoldsSpinlock(t), HoldsSpinlock(t)')
      BY Zenon, <2>3, <2>4, <3>2, <3>3 DEF BitFollows
    <3> QED
      BY <2>4, <3>3, <3>4, <3>5, Zenon DEF StepOK
  <2> QED
    BY Zenon, <2>5, <2>6
<1>5. Remembers(t)'
  <2>1. /\ pc[t] = "mt_check" /\ pc'[t] \in {"mw_eval", "mw_wait"}
        /\ mw' = mw \/ mw' = [mw EXCEPT ![t].outcome = "have_lock"]
    BY Zenon, <1>1 DEF TypeOK, MtCheck, Goto
  <2>2. mw'[t].timed = mw[t].timed
    BY <1>1, <2>1 DEF TypeOK, MwType
  <2> QED
    BY Zenon, <1>1, <2>1, <2>2 DEF Remembers
<1> QED
  BY Zenon, <1>2, <1>3, <1>4, <1>5 DEF Good

\* nsync_mu_wait_with_deadline evaluates its condition.
LEMMA MwEvalGood ==
  ASSUME NEW t \in Threads, LocalInv(t), MwEval(t)
  PROVE  Good(t)
<1>1. TypeOK /\ Remembers(t)
  BY Zenon, RemembersNow
<1>2. TypeOK'
  <2>1. mw' \in [Threads -> MwType]
    BY Zenon, <1>1, NoLocalsType DEF TypeOK, MwEval, Goto
  <2>2. pc' \in [Threads -> PCs]
    BY Zenon, <1>1, PcType DEF MwEval, PCs, HoldPCs
  <2> QED
    BY Zenon, <1>1, <2>1, <2>2 DEF TypeOK, MwEval, muVars, waiterVars, clientVars
<1>3. OnlyMoves(t)
  BY Zenon, <1>1 DEF TypeOK, OnlyMoves, MwEval, Goto
<1>4. StepOK(t)
  <2>1. pc[t] = "mw_eval" /\ word' = word /\ l_type' = l_type /\ us' = us
    BY Zenon DEF MwEval, muVars
  <2>2. mw[t].outcome = "have_lock" => mw[t].timed
    BY Zenon, <1>1 DEF Remembers
  <2>3. pc'[t] \in {"held", "mw_spin"}
    BY Zenon, <1>1, <2>2 DEF TypeOK, MwEval, Goto
  <2> QED
    BY Zenon, <2>1, <2>3, QuietStep DEF HoldsWrite, HoldsRead, HoldsSpinlock, HoldPCs
<1>5. Remembers(t)'
  <2>1. pc'[t] \in {"held", "panic", "mw_spin"} /\ (mw'[t] = mw[t] \/ mw'[t] = NoMw)
    BY Zenon, <1>1 DEF TypeOK, MwEval, Goto
  <2>2. NoMw.outcome = "none"
    BY Zenon DEF NoMw
  <2> QED
    BY Zenon, <1>1, <2>1, <2>2 DEF Remembers
<1> QED
  BY Zenon, <1>2, <1>3, <1>4, <1>5 DEF Good
=============================================================================
