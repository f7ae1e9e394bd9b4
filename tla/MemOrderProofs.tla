--------------------------- MODULE MemOrderProofs ---------------------------
(***************************************************************************)
(* For any number of threads and with every platform's atomic.h, plain     *)
(* accesses do not race: PlainAccessesAreOrdered.  Each step is an atomic  *)
(* operation on one word or an access to plain objects; the lemmas say what*)
(* each does to what the threads know, and one lemma per action follows.   *)
(***************************************************************************)
EXTENDS MemOrder, FiniteSetTheorems, TLAPS

\* What is known and what the word l publishes of the accesses to x is kept.
Keeps(x, l) ==
  \A u \in Threads, h \in {"r", "w"} :
    /\ \A t \in Threads : <<u, x, h>> \in know[t] => <<u, x, h>> \in know'[t]
    /\ <<u, x, h>> \in rel[l] => <<u, x, h>> \in rel'[l]

\* Everything known is kept, and what the word l publishes.
KeepsKnown(l) ==
  /\ know' \in [Threads -> SUBSET Accesses] /\ rel' \in [Atomic -> SUBSET Accesses]
  /\ \A t \in Threads : know[t] \subseteq know'[t]
  /\ \A m \in Atomic \ {l} : rel[m] \subseteq rel'[m]

\* The step takes t from l to m.
Goes(t, l, m) ==
  /\ pc[t] = l /\ pc'[t] = m
  /\ \A u \in Threads \ {t} : pc'[u] = pc[u]
  /\ pc' \in [Threads -> PCs]

\* A program counter.
LEMMA GoesFacts ==
  ASSUME MemTypeOK, NEW t \in Threads, NEW l, NEW m \in PCs, From(t, l, m)
  PROVE  Goes(t, l, m)
BY Zenon DEF MemTypeOK, From, GotoPc, Goes

\* The names of objects are no threads.
LEMMA Names ==
  /\ {"data", "mu_waiters", "cv_waiters", "init"} \subseteq Plain \ Threads
  /\ {"mu", "cv", "once"} \subseteq Atomic \ Threads
  /\ Threads \subseteq Plain /\ Threads \subseteq Atomic
BY Zenon, MemAssumption DEF Plain, Atomic

-----------------------------------------------------------------------------
(* The atomic operations and the accesses.                                 *)

\* A compare-and-swap.
LEMMA RmwFacts ==
  ASSUME MemTypeOK, NEW t \in Threads, NEW l \in Atomic, NEW ord, Rmw(t, l, ord)
  PROVE  /\ KeepsKnown(l) /\ rel[l] \subseteq rel'[l]
         /\ "acq" \in ord => rel[l] \subseteq know'[t]
         /\ "rel" \in ord => know[t] \subseteq rel'[l]
<1>1. Tell(t, ord) \in SUBSET Accesses /\ rel[l] \in SUBSET Accesses
  BY Zenon DEF Tell, MemTypeOK
<1>2. /\ know' \in [Threads -> SUBSET Accesses]
      /\ know'[t] = know[t] \union (IF "acq" \in ord THEN rel[l] ELSE {})
      /\ \A u \in Threads \ {t} : know'[u] = know[u]
  BY Zenon, <1>1 DEF Rmw, Learn, MemTypeOK
<1>3. /\ rel' \in [Atomic -> SUBSET Accesses]
      /\ rel'[l] = rel[l] \union Tell(t, ord)
      /\ \A m \in Atomic \ {l} : rel'[m] = rel[m]
  BY Zenon, <1>1 DEF Rmw, MemTypeOK
<1> QED
  BY Zenon, <1>2, <1>3 DEF KeepsKnown, Tell

\* A load.
LEMMA LoadFacts ==
  ASSUME MemTypeOK, NEW t \in Threads, NEW l \in Atomic, NEW ord, LoadOp(t, l, ord)
  PROVE  /\ KeepsKnown(l) /\ rel' = rel
         /\ "acq" \in ord => rel[l] \subseteq know'[t]
<1>1. rel[l] \in SUBSET Accesses
  BY Zenon DEF MemTypeOK
<1>2. /\ know' \in [Threads -> SUBSET Accesses] /\ rel' = rel
      /\ know'[t] = know[t] \union (IF "acq" \in ord THEN rel[l] ELSE {})
      /\ \A u \in Threads \ {t} : know'[u] = know[u]
  BY Zenon, <1>1 DEF LoadOp, Learn, MemTypeOK
<1> QED
  BY Zenon, <1>2 DEF KeepsKnown, MemTypeOK

\* A store.
LEMMA StoreFacts ==
  ASSUME MemTypeOK, NEW t \in Threads, NEW l \in Atomic, NEW ord, StoreOp(t, l, ord)
  PROVE  /\ KeepsKnown(l) /\ know' = know
         /\ "rel" \in ord => rel'[l] = know[t]
<1>1. Tell(t, ord) \in SUBSET Accesses
  BY Zenon DEF Tell, MemTypeOK
<1>2. /\ rel' \in [Atomic -> SUBSET Accesses] /\ rel'[l] = Tell(t, ord) /\ know' = know
      /\ \A m \in Atomic \ {l} : rel'[m] = rel[m]
  BY Zenon, <1>1 DEF StoreOp, MemTypeOK
<1> QED
  BY Zenon, <1>2 DEF KeepsKnown, Tell, MemTypeOK

\* An access of t to the objects xs: t knows of it and nobody else.
LEMMA TouchFacts ==
  ASSUME MemTypeOK, NEW t \in Threads, NEW xs \in SUBSET Plain, NEW how \in {"r", "w"},
         Touch(t, xs, how)
  PROVE  /\ know' \in [Threads -> SUBSET Accesses] /\ rel' \in [Atomic -> SUBSET Accesses]
         /\ \A x \in xs : <<t, x, how>> \in know'[t]
         /\ \A u \in Threads, x \in Plain, h \in {"r", "w"} :
              /\ <<u, x, h>> \in know[t] => <<u, x, h>> \in know'[t]
              /\ ~(u = t /\ x \in xs /\ h = how) =>
                   /\ \A v \in Threads : <<u, x, h>> \in know[v] => <<u, x, h>> \in know'[v]
                   /\ \A l \in Atomic : <<u, x, h>> \in rel[l] => <<u, x, h>> \in rel'[l]
<1> DEFINE mine == {<<t, x, how>> : x \in xs}
<1>1. mine \subseteq Accesses
  BY DEF Accesses
<1>2. \A u, x, h : <<u, x, h>> \in mine <=> u = t /\ x \in xs /\ h = how
  BY Zenon
<1> HIDE DEF mine
<1>3. /\ know' = [u \in Threads |-> IF u = t THEN know[u] \union mine ELSE know[u] \ mine]
      /\ rel' = [l \in Atomic |-> rel[l] \ mine]
  BY Zenon DEF Touch, mine
<1>4. know' \in [Threads -> SUBSET Accesses] /\ rel' \in [Atomic -> SUBSET Accesses]
  BY Zenon, <1>1, <1>3 DEF MemTypeOK
<1>5. know'[t] = know[t] \union mine /\ \A v \in Threads \ {t} : know'[v] = know[v] \ mine
  BY Zenon, <1>3
<1>6. \A l \in Atomic : rel'[l] = rel[l] \ mine
  BY Zenon, <1>3
<1> QED
  BY Zenon, <1>2, <1>4, <1>5, <1>6

\* An atomic operation keeps what is known; all but a store keep what is published.
LEMMA OperationKeeps ==
  ASSUME NEW l \in Atomic, KeepsKnown(l)
  PROVE  /\ \A x, m : m \in Atomic \ {l} => Keeps(x, m)
         /\ rel[l] \subseteq rel'[l] => \A x : Keeps(x, l)
         /\ KnownToAll => KnownToAll'
<1>1. \A x, m : m \in Atomic \ {l} => Keeps(x, m)
  BY Zenon DEF KeepsKnown, Keeps
<1>2. rel[l] \subseteq rel'[l] => \A x : Keeps(x, l)
  BY Zenon DEF KeepsKnown, Keeps
<1>3. KnownToAll => KnownToAll'
  BY Zenon DEF KeepsKnown, KnownToAll
<1> QED
  BY Zenon, <1>1, <1>2, <1>3

\* An access keeps what is known of other objects, and is known to its thread.
LEMMA AccessKeeps ==
  ASSUME MemTypeOK, NEW t \in Threads, NEW xs \in SUBSET Plain, NEW how \in {"r", "w"},
         Touch(t, xs, how), how = "w" \/ xs \subseteq {"data", "init"}
  PROVE  /\ \A x \in Plain \ xs, l \in Atomic : Keeps(x, l)
         /\ KnownToAll => KnownToAll'
<1>1. \A x \in Plain \ xs, l \in Atomic : Keeps(x, l)
  <2> SUFFICES ASSUME NEW x \in Plain \ xs, NEW l \in Atomic,
                      NEW u \in Threads, NEW h \in {"r", "w"}
               PROVE  /\ \A v \in Threads : <<u, x, h>> \in know[v] => <<u, x, h>> \in know'[v]
                      /\ <<u, x, h>> \in rel[l] => <<u, x, h>> \in rel'[l]
    BY Zenon DEF Keeps
  <2> QED
    BY ZenonT(30), TouchFacts
<1>2. ASSUME KnownToAll PROVE KnownToAll'
  <2> SUFFICES ASSUME NEW v \in Threads, NEW u \in Threads, NEW x \in Plain
               PROVE  /\ x \notin {"data", "init"} => <<u, x, "r">> \in know'[v]
                      /\ <<v, x, "r">> \in know'[v] /\ <<v, x, "w">> \in know'[v]
    BY Zenon DEF KnownToAll
  <2>1. x \notin {"data", "init"} => ~(x \in xs /\ how = "r")
    BY Zenon
  <2>2. x \notin {"data", "init"} => <<u, x, "r">> \in know'[v]
    BY ZenonT(30), <1>2, <2>1, TouchFacts DEF KnownToAll
  <2>3. <<v, x, "r">> \in know'[v] /\ <<v, x, "w">> \in know'[v]
    BY Zenon, <1>2, TouchFacts DEF KnownToAll
  <2> QED
    BY Zenon, <2>2, <2>3
<1> QED
  BY Zenon, <1>1, <1>2

-----------------------------------------------------------------------------
(* What a step of t from l to m leaves as it was.                          *)

\* How a step from l to m that takes a bit from b to c passes a section: t stays where
\* it is, enters while the bit is clear, or leaves.
Passes(b, c, l, m, section) ==
  \/ (c <=> b) /\ (l \in section <=> m \in section)
  \/ ~b /\ c /\ m \in section
  \/ ~c /\ l \in section /\ m \notin section

\* The bit still tells who is inside.
LEMMA InsideFrame ==
  ASSUME NEW t \in Threads, NEW l, NEW m, Goes(t, l, m),
         NEW section, NEW b, NEW c, OneInside(b, section), Passes(b, c, l, m, section)
  PROVE  /\ c <=> \E u \in Threads : pc'[u] \in section
         /\ \A u, v \in Threads : pc'[u] \in section /\ pc'[v] \in section => u = v
BY Zenon DEF Goes, OneInside, Passes

\* The words tell who holds what after a step that passes every section.
LEMMA WordsFrame ==
  ASSUME MemInv, NEW t \in Threads, NEW l, NEW m, Goes(t, l, m),
         Passes(wlock, wlock', l, m, Writing), Passes(spin, spin', l, m, Spinning),
         Passes(cv_spin, cv_spin', l, m, OnCv),
         Passes(once_word = 1, once_word' = 1, l, m, RunningOnce),
         readers' = Cardinality({u \in Threads : pc'[u] \in Reading}),
         wlock' => \A u \in Threads : pc'[u] \notin Reading,
         m = "once_use" => once_word' = 2, once_word = 2 => once_word' = 2
  PROVE  WordsTellHolders'
<1> USE DEF MemInv, WordsTellHolders
<1>1. OneInside(wlock, Writing)'
  BY InsideFrame DEF OneInside
<1>2. OneInside(spin, Spinning)'
  BY InsideFrame DEF OneInside
<1>3. OneInside(cv_spin, OnCv)'
  BY InsideFrame DEF OneInside
<1>4. OneInside(once_word = 1, RunningOnce)'
  BY Zenon DEF OneInside, Goes, Passes
<1>5. \A u \in Threads : pc'[u] = "once_use" => once_word' = 2
  BY Zenon DEF Goes
<1> QED
  BY Zenon, <1>1, <1>2, <1>3, <1>4, <1>5

\* The readers.
LEMMA ReadersFrame ==
  ASSUME NEW t \in Threads, NEW l, NEW m, Goes(t, l, m), l \in Reading <=> m \in Reading
  PROVE  {u \in Threads : pc'[u] \in Reading} = {u \in Threads : pc[u] \in Reading}
BY DEF Goes

\* The data of the mutex, when t takes no part.
LEMMA DataFrame ==
  ASSUME MemInv, NEW t \in Threads, NEW l, NEW m, Goes(t, l, m), Keeps("data", "mu"),
         wlock' = wlock, m \in Writing => l \in Writing, l \in Reading <=> m \in Reading
  PROVE  DataIsHandedOver'
BY Zenon DEF MemInv, DataIsHandedOver, Published, Keeps, Goes

\* A queue, when t does not come to its spinlock and leaves the bit.
LEMMA MuQueueFrame ==
  ASSUME MemInv, NEW t \in Threads, NEW l, NEW m, Goes(t, l, m), Keeps("mu_waiters", "mu"),
         spin' = spin, m \in Spinning => l \in Spinning
  PROVE  QueueIsHandedOver("mu_waiters", "mu", spin, Spinning)'
BY Zenon DEF MemInv, QueueIsHandedOver, Published, Keeps, Goes

\* The queue of a condition variable, likewise.
LEMMA CvQueueFrame ==
  ASSUME MemInv, NEW t \in Threads, NEW l, NEW m, Goes(t, l, m), Keeps("cv_waiters", "cv"),
         cv_spin' = cv_spin, m \in OnCv => l \in OnCv
  PROVE  QueueIsHandedOver("cv_waiters", "cv", cv_spin, OnCv)'
BY Zenon DEF MemInv, QueueIsHandedOver, Published, Keeps, Goes

\* The waiters, when t does not come from or to its wait.
LEMMA WaiterFrame ==
  ASSUME MemInv, NEW t \in Threads, NEW l, NEW m, Goes(t, l, m),
         \A p \in Threads : Keeps(p, p),
         UNCHANGED <<waiting, taken>>, l # "ls_wait"
  PROVE  WaiterIsHandedOver'
BY Zenon DEF MemInv, WaiterIsHandedOver, Keeps, Goes

\* The once.
LEMMA OnceFrame ==
  ASSUME MemInv, NEW t \in Threads, NEW l, NEW m, Goes(t, l, m), Keeps("init", "once"),
         once_word' = once_word, m \notin RunningOnce \union {"once_use"}
  PROVE  OnceIsHandedOver'
BY Zenon DEF MemInv, OnceIsHandedOver, Keeps, Goes

\* The waiters' queue, when t is not in it and handles no waiter.
LEMMA WaitersFrame ==
  ASSUME MemInv, NEW t \in Threads, NEW l, NEW m, Goes(t, l, m),
         UNCHANGED <<queued, waiting, taken>>,
         l \notin {"ls_release", "ls_wait", "us_release", "us_wake"},
         m \notin {"ls_insert", "us_release", "us_wake"}
  PROVE  QueueTellsWaiters'
BY DEF MemInv, QueueTellsWaiters, MemTypeOK, Goes

\* A step of the mutex leaves the cv and the once alone.
LEMMA CvOnceFrame ==
  ASSUME MemInv, NEW t \in Threads, NEW l, NEW m, Goes(t, l, m),
         Keeps("cv_waiters", "cv"), Keeps("init", "once"), UNCHANGED <<cv_spin, once_word>>,
         m \notin OnCv \union RunningOnce \union {"once_use"}
  PROVE  /\ QueueIsHandedOver("cv_waiters", "cv", cv_spin, OnCv)'
         /\ OnceIsHandedOver'
BY Zenon, CvQueueFrame, OnceFrame

\* A step of the cv or the once leaves the mutex alone.
LEMMA MuFrame ==
  ASSUME MemInv, NEW t \in Threads, NEW l, NEW m, Goes(t, l, m),
         Keeps("data", "mu"), Keeps("mu_waiters", "mu"), \A p \in Threads : Keeps(p, p),
         UNCHANGED <<wlock, readers, spin, queued, waiting, taken>>,
         {l, m} \subseteq {"idle", "once_use"} \union OnCv \union RunningOnce
  PROVE  /\ DataIsHandedOver' /\ WaiterIsHandedOver' /\ QueueTellsWaiters'
         /\ QueueIsHandedOver("mu_waiters", "mu", spin, Spinning)'
         /\ readers' = Cardinality({u \in Threads : pc'[u] \in Reading})
         /\ wlock' => \A u \in Threads : pc'[u] \notin Reading
         /\ Passes(wlock, wlock', l, m, Writing) /\ Passes(spin, spin', l, m, Spinning)
<1>1. /\ {l, m} \intersect (Writing \union Reading \union Spinning) = {}
      /\ {l, m} \intersect {"ls_release", "ls_wait", "us_release", "us_wake", "ls_insert"} = {}
  BY Zenon DEF OnCv, RunningOnce, Writing, Reading, Spinning
<1>2. DataIsHandedOver' /\ WaiterIsHandedOver' /\ QueueTellsWaiters'
  BY Zenon, <1>1, DataFrame, WaiterFrame, WaitersFrame
<1>3. QueueIsHandedOver("mu_waiters", "mu", spin, Spinning)'
  BY Zenon, <1>1, MuQueueFrame
<1>4. {u \in Threads : pc'[u] \in Reading} = {u \in Threads : pc[u] \in Reading}
  BY Zenon, <1>1, ReadersFrame
<1>5. readers' = Cardinality({u \in Threads : pc'[u] \in Reading})
  BY Zenon, <1>4 DEF MemInv, WordsTellHolders
<1>6. wlock' => \A u \in Threads : pc'[u] \notin Reading
  BY Zenon, <1>4 DEF MemInv, WordsTellHolders
<1>7. Passes(wlock, wlock', l, m, Writing) /\ Passes(spin, spin', l, m, Spinning)
  BY Zenon, <1>1 DEF Passes
<1> QED
  BY Zenon, <1>2, <1>3, <1>5, <1>6, <1>7

\* The count of readers tells who may read.
LEMMA ReaderCount ==
  ASSUME MemInv
  PROVE  /\ IsFiniteSet({u \in Threads : pc[u] \in Reading})
         /\ readers = 0 => \A u \in Threads : pc[u] \notin Reading
         /\ readers = 1 => \A u, v \in Threads : pc[u] \in Reading /\ pc[v] \in Reading => u = v
<1> DEFINE R == {u \in Threads : pc[u] \in Reading}
<1>1. IsFiniteSet(R)
  BY Zenon, MemAssumption, FS_Subset
<1>2. readers = Cardinality(R)
  BY Zenon DEF MemInv, WordsTellHolders
<1>3. readers = 0 => R = {}
  BY Zenon, <1>1, <1>2, FS_EmptySet
<1>4. readers = 1 => \E x : R = {x}
  BY Zenon, <1>1, <1>2, FS_Singleton
<1> QED
  BY <1>1, <1>3, <1>4

-----------------------------------------------------------------------------
(* One lemma per action.                                                   *)

\* The writer's acquire: all accesses are published, because nobody reads.
LEMMA LockInv ==
  ASSUME MemInv, order' = order, NEW t \in Threads, nsync_mu_lock(t)
  PROVE  MemInv'
<1> USE DEF MemInv
<1>1. Goes(t, "idle", "write")
  BY Zenon, GoesFacts DEF nsync_mu_lock, PCs, Writing
<1>2. /\ ~wlock /\ wlock' /\ wlock' \in BOOLEAN /\ readers = 0
      /\ UNCHANGED <<order, readers, spin, queued, waiting, cv_spin, once_word, taken>>
  BY Zenon DEF nsync_mu_lock
<1>3. /\ KeepsKnown("mu") /\ rel["mu"] \subseteq rel'["mu"] /\ rel["mu"] \subseteq know'[t]
      /\ "mu" \in Atomic
  BY Zenon, RmwFacts, Names DEF nsync_mu_lock, ATM_CAS_ACQ, MemTypeOK, OrdersSuffice
<1>4. MemTypeOK'
  BY Zenon, <1>1, <1>2, <1>3 DEF MemTypeOK, OrdersSuffice, KeepsKnown, Goes
<1>5. (\A x, w : w \in Atomic => Keeps(x, w)) /\ KnownToAll'
  BY Zenon, <1>3, OperationKeeps
<1>6. \A u \in Threads : pc[u] \notin Reading /\ pc'[u] \notin Reading
  BY Zenon, <1>1, <1>2, ReaderCount DEF Goes, Reading
<1>7. WordsTellHolders'
  <2>1. readers' = Cardinality({u \in Threads : pc'[u] \in Reading})
    BY Zenon, <1>1, <1>2, ReadersFrame DEF WordsTellHolders, Reading
  <2> QED
    BY Zenon, <1>1, <1>2, <1>6, <2>1, WordsFrame
       DEF Passes, Writing, Spinning, OnCv, RunningOnce
<1>8. QueueTellsWaiters'
  BY Zenon, <1>1, <1>2, WaitersFrame
<1>9. DataIsHandedOver'
  BY Zenon, <1>1, <1>2, <1>3, <1>5, <1>6
     DEF DataIsHandedOver, Published, Goes, Keeps, Writing, WordsTellHolders, OneInside
<1>10. QueueIsHandedOver("mu_waiters", "mu", spin, Spinning)'
  BY Zenon, <1>1, <1>2, <1>3, <1>5, MuQueueFrame DEF Spinning
<1>11. WaiterIsHandedOver'
  BY Zenon, <1>1, <1>2, <1>5, WaiterFrame, Names
<1>12. /\ QueueIsHandedOver("cv_waiters", "cv", cv_spin, OnCv)'
       /\ OnceIsHandedOver'
  BY Zenon, <1>1, <1>2, <1>5, CvOnceFrame, Names DEF OnCv, RunningOnce
<1> QED
  BY Zenon, <1>4, <1>5, <1>7, <1>8, <1>9, <1>10, <1>11, <1>12

\* A reader's acquire: all writes are published.
LEMMA RlockInv ==
  ASSUME MemInv, order' = order, NEW t \in Threads, nsync_mu_rlock(t)
  PROVE  MemInv'
<1> USE DEF MemInv
<1>1. Goes(t, "idle", "read")
  BY Zenon, GoesFacts DEF nsync_mu_rlock, PCs, Reading
<1>2. /\ ~wlock /\ readers' = readers + 1
      /\ UNCHANGED <<order, wlock, spin, queued, waiting, cv_spin, once_word, taken>>
  BY Zenon DEF nsync_mu_rlock
<1>3. /\ KeepsKnown("mu") /\ rel["mu"] \subseteq rel'["mu"] /\ rel["mu"] \subseteq know'[t]
      /\ "mu" \in Atomic
  BY Zenon, RmwFacts, Names DEF nsync_mu_rlock, ATM_CAS_ACQ, MemTypeOK, OrdersSuffice
<1>4. MemTypeOK'
  BY <1>1, <1>2, <1>3 DEF MemTypeOK, OrdersSuffice, KeepsKnown, Goes
<1>5. (\A x, w : w \in Atomic => Keeps(x, w)) /\ KnownToAll'
  BY Zenon, <1>3, OperationKeeps
<1>7. WordsTellHolders'
  <2>1. /\ {u \in Threads : pc'[u] \in Reading} = {u \in Threads : pc[u] \in Reading} \union {t}
        /\ t \notin {u \in Threads : pc[u] \in Reading}
    BY Zenon, <1>1 DEF Goes, Reading
  <2>2. readers' = Cardinality({u \in Threads : pc'[u] \in Reading})
    BY SMTT(30), <1>2, <2>1, ReaderCount, FS_AddElement DEF WordsTellHolders
  <2> QED
    BY Zenon, <1>1, <1>2, <2>2, WordsFrame
       DEF Passes, Writing, Spinning, OnCv, RunningOnce
<1>8. QueueTellsWaiters'
  BY Zenon, <1>1, <1>2, WaitersFrame
<1>9. DataIsHandedOver'
  BY Zenon, <1>1, <1>2, <1>3, <1>5
     DEF DataIsHandedOver, Published, Goes, Keeps, Writing, Reading, WordsTellHolders, OneInside
<1>10. QueueIsHandedOver("mu_waiters", "mu", spin, Spinning)'
  BY Zenon, <1>1, <1>2, <1>3, <1>5, MuQueueFrame DEF Spinning
<1>11. WaiterIsHandedOver'
  BY Zenon, <1>1, <1>2, <1>5, WaiterFrame, Names
<1>12. /\ QueueIsHandedOver("cv_waiters", "cv", cv_spin, OnCv)'
       /\ OnceIsHandedOver'
  BY Zenon, <1>1, <1>2, <1>5, CvOnceFrame, Names DEF OnCv, RunningOnce
<1> QED
  BY Zenon, <1>4, <1>5, <1>7, <1>8, <1>9, <1>10, <1>11, <1>12

\* The writer's release publishes all that the writer knows.
LEMMA UnlockInv ==
  ASSUME MemInv, order' = order, NEW t \in Threads, nsync_mu_unlock(t)
  PROVE  MemInv'
<1> USE DEF MemInv
<1>1. Goes(t, "unlock", "idle")
  BY Zenon, GoesFacts DEF nsync_mu_unlock, PCs
<1>2. /\ ~wlock' /\ wlock' \in BOOLEAN
      /\ UNCHANGED <<order, readers, spin, queued, waiting, cv_spin, once_word, taken>>
  BY Zenon DEF nsync_mu_unlock
<1>3. /\ KeepsKnown("mu") /\ rel["mu"] \subseteq rel'["mu"] /\ know[t] \subseteq rel'["mu"]
      /\ "mu" \in Atomic
  BY Zenon, RmwFacts, Names DEF nsync_mu_unlock, ATM_CAS_REL, MemTypeOK, OrdersSuffice
<1>4. MemTypeOK'
  BY Zenon, <1>1, <1>2, <1>3 DEF MemTypeOK, OrdersSuffice, KeepsKnown, Goes
<1>5. (\A x, w : w \in Atomic => Keeps(x, w)) /\ KnownToAll'
  BY Zenon, <1>3, OperationKeeps
<1>7. WordsTellHolders'
  <2>1. /\ readers' = Cardinality({u \in Threads : pc'[u] \in Reading})
        /\ wlock' => \A u \in Threads : pc'[u] \notin Reading
    BY Zenon, <1>1, <1>2, ReadersFrame DEF WordsTellHolders, Reading, Goes
  <2> QED
    BY Zenon, <1>1, <1>2, <2>1, WordsFrame
       DEF Passes, Writing, Spinning, OnCv, RunningOnce
<1>8. QueueTellsWaiters'
  BY Zenon, <1>1, <1>2, WaitersFrame
<1>9. DataIsHandedOver'
  BY Zenon, <1>1, <1>2, <1>3, <1>5
     DEF DataIsHandedOver, Published, Goes, Keeps, Writing, Reading, WordsTellHolders, OneInside
<1>10. QueueIsHandedOver("mu_waiters", "mu", spin, Spinning)'
  BY Zenon, <1>1, <1>2, <1>3, <1>5, MuQueueFrame DEF Spinning
<1>11. WaiterIsHandedOver'
  BY Zenon, <1>1, <1>2, <1>5, WaiterFrame, Names
<1>12. /\ QueueIsHandedOver("cv_waiters", "cv", cv_spin, OnCv)'
       /\ OnceIsHandedOver'
  BY Zenon, <1>1, <1>2, <1>5, CvOnceFrame, Names DEF OnCv, RunningOnce
<1> QED
  BY Zenon, <1>4, <1>5, <1>7, <1>8, <1>9, <1>10, <1>11, <1>12

\* A reader's release publishes its reads.
LEMMA RunlockInv ==
  ASSUME MemInv, order' = order, NEW t \in Threads, nsync_mu_runlock(t)
  PROVE  MemInv'
<1> USE DEF MemInv
<1>1. Goes(t, "runlock", "idle")
  BY Zenon, GoesFacts DEF nsync_mu_runlock, PCs
<1>2. /\ readers' = readers - 1
      /\ UNCHANGED <<order, wlock, spin, queued, waiting, cv_spin, once_word, taken>>
  BY Zenon DEF nsync_mu_runlock
<1>3. /\ KeepsKnown("mu") /\ rel["mu"] \subseteq rel'["mu"] /\ know[t] \subseteq rel'["mu"]
      /\ "mu" \in Atomic
  BY Zenon, RmwFacts, Names DEF nsync_mu_runlock, ATM_CAS_REL, MemTypeOK, OrdersSuffice
<1>6. /\ readers' = Cardinality({u \in Threads : pc'[u] \in Reading}) /\ readers' \in Nat
      /\ ~wlock
  <2>1. /\ {u \in Threads : pc'[u] \in Reading} = {u \in Threads : pc[u] \in Reading} \ {t}
        /\ t \in {u \in Threads : pc[u] \in Reading}
    BY Zenon, <1>1 DEF Goes, Reading
  <2>2. /\ Cardinality({u \in Threads : pc'[u] \in Reading}) = readers - 1
        /\ IsFiniteSet({u \in Threads : pc'[u] \in Reading})
    BY <2>1, ReaderCount, FS_RemoveElement DEF WordsTellHolders
  <2>3. Cardinality({u \in Threads : pc'[u] \in Reading}) \in Nat
    BY Zenon, <2>2, FS_CardinalityType
  <2>4. ~wlock
    BY Zenon, <2>1 DEF WordsTellHolders
  <2> QED
    BY Zenon, <1>2, <2>2, <2>3, <2>4
<1>4. MemTypeOK'
  BY Zenon, <1>1, <1>2, <1>3, <1>6 DEF MemTypeOK, OrdersSuffice, KeepsKnown, Goes
<1>5. (\A x, w : w \in Atomic => Keeps(x, w)) /\ KnownToAll'
  BY Zenon, <1>3, OperationKeeps
<1>7. WordsTellHolders'
  BY Zenon, <1>1, <1>2, <1>6, WordsFrame
     DEF Passes, Writing, Spinning, OnCv, RunningOnce
<1>8. QueueTellsWaiters'
  BY Zenon, <1>1, <1>2, WaitersFrame
<1>9. DataIsHandedOver'
  BY SMTT(30), <1>1, <1>2, <1>3, <1>5
     DEF DataIsHandedOver, Published, Goes, Keeps, Writing, Reading, KnownToAll, Plain
<1>10. QueueIsHandedOver("mu_waiters", "mu", spin, Spinning)'
  BY Zenon, <1>1, <1>2, <1>3, <1>5, MuQueueFrame DEF Spinning
<1>11. WaiterIsHandedOver'
  BY Zenon, <1>1, <1>2, <1>5, WaiterFrame, Names
<1>12. /\ QueueIsHandedOver("cv_waiters", "cv", cv_spin, OnCv)'
       /\ OnceIsHandedOver'
  BY Zenon, <1>1, <1>2, <1>5, CvOnceFrame, Names DEF OnCv, RunningOnce
<1> QED
  BY Zenon, <1>4, <1>5, <1>7, <1>8, <1>9, <1>10, <1>11, <1>12

\* The spinlock bit is taken with an acquire: the queue is published.
LEMMA LsSpinInv ==
  ASSUME MemInv, order' = order, NEW t \in Threads, LsSpin(t)
  PROVE  MemInv'
<1> USE DEF MemInv
<1>1. Goes(t, "idle", "ls_queue")
  BY Zenon, GoesFacts DEF LsSpin, PCs, Spinning
<1>2. /\ ~spin /\ spin' /\ spin' \in BOOLEAN
      /\ UNCHANGED <<order, wlock, readers, queued, waiting, cv_spin, once_word, taken>>
  BY Zenon DEF LsSpin
<1>3. /\ KeepsKnown("mu") /\ rel["mu"] \subseteq rel'["mu"] /\ rel["mu"] \subseteq know'[t]
      /\ "mu" \in Atomic
  BY Zenon, RmwFacts, Names DEF LsSpin, ATM_CAS_ACQ, MemTypeOK, OrdersSuffice
<1>4. MemTypeOK'
  BY Zenon, <1>1, <1>2, <1>3 DEF MemTypeOK, OrdersSuffice, KeepsKnown, Goes
<1>5. (\A x, w : w \in Atomic => Keeps(x, w)) /\ KnownToAll'
  BY Zenon, <1>3, OperationKeeps
<1>7. WordsTellHolders'
  <2>1. /\ readers' = Cardinality({u \in Threads : pc'[u] \in Reading})
        /\ wlock' => \A u \in Threads : pc'[u] \notin Reading
    BY Zenon, <1>1, <1>2, ReadersFrame DEF WordsTellHolders, Reading, Goes
  <2> QED
    BY Zenon, <1>1, <1>2, <2>1, WordsFrame
       DEF Passes, Writing, Spinning, OnCv, RunningOnce
<1>8. QueueTellsWaiters'
  BY Zenon, <1>1, <1>2, WaitersFrame
<1>9. DataIsHandedOver'
  BY Zenon, <1>1, <1>2, <1>3, <1>5, DataFrame DEF Writing, Reading
<1>10. QueueIsHandedOver("mu_waiters", "mu", spin, Spinning)'
  BY Zenon, <1>1, <1>2, <1>3, <1>5 DEF QueueIsHandedOver, Published, Keeps, Goes,
     WordsTellHolders, OneInside
<1>11. WaiterIsHandedOver'
  BY Zenon, <1>1, <1>2, <1>5, WaiterFrame, Names
<1>12. /\ QueueIsHandedOver("cv_waiters", "cv", cv_spin, OnCv)'
       /\ OnceIsHandedOver'
  BY Zenon, <1>1, <1>2, <1>5, CvOnceFrame, Names DEF OnCv, RunningOnce
<1> QED
  BY Zenon, <1>4, <1>5, <1>7, <1>8, <1>9, <1>10, <1>11, <1>12

\* The flag is set with a plain store, which publishes nothing; the waiter is its own.
LEMMA LsFlagInv ==
  ASSUME MemInv, order' = order, NEW t \in Threads, LsFlag(t)
  PROVE  MemInv'
<1> USE DEF MemInv
<1>1. Goes(t, "ls_queue", "ls_insert")
  BY Zenon, GoesFacts DEF LsFlag, PCs, Spinning
<1>2. /\ waiting' = [waiting EXCEPT ![t] = TRUE]
      /\ UNCHANGED <<order, wlock, readers, spin, queued, cv_spin, once_word, taken>>
  BY Zenon DEF LsFlag
<1>3. KeepsKnown(t) /\ know' = know /\ t \in Atomic
  BY Zenon, StoreFacts, Names DEF LsFlag, ATM_STORE
<1>4. MemTypeOK'
  BY Zenon, <1>1, <1>2, <1>3 DEF MemTypeOK, OrdersSuffice, KeepsKnown, Goes
<1>5. (\A x, l : l \in Atomic \ {t} => Keeps(x, l)) /\ KnownToAll'
  BY Zenon, <1>3, OperationKeeps
<1>6. "mu" \in Atomic \ {t} /\ "cv" \in Atomic \ {t} /\ "once" \in Atomic \ {t}
  BY Zenon, Names
<1>7. WordsTellHolders'
  <2>1. /\ readers' = Cardinality({u \in Threads : pc'[u] \in Reading})
        /\ wlock' => \A u \in Threads : pc'[u] \notin Reading
    BY Zenon, <1>1, <1>2, ReadersFrame DEF WordsTellHolders, Reading, Goes
  <2> QED
    BY Zenon, <1>1, <1>2, <2>1, WordsFrame
       DEF Passes, Writing, Spinning, OnCv, RunningOnce
<1>8. QueueTellsWaiters'
  BY <1>1, <1>2 DEF QueueTellsWaiters, MemTypeOK, Goes
<1>9. DataIsHandedOver'
  BY Zenon, <1>1, <1>2, <1>5, <1>6, DataFrame DEF Writing, Reading
<1>10. QueueIsHandedOver("mu_waiters", "mu", spin, Spinning)'
  BY Zenon, <1>1, <1>2, <1>5, <1>6, MuQueueFrame DEF Spinning
<1>11. WaiterIsHandedOver'
  <2> SUFFICES ASSUME NEW p \in Threads, NEW u \in Threads
               PROVE  \/ <<u, p, "w">> \in know'[p]
                      \/ pc'[p] = "ls_wait" /\ taken'[u] = p
                      \/ pc'[p] = "ls_wait" /\ ~waiting'[p] /\ <<u, p, "w">> \in rel'[p]
    BY Zenon DEF WaiterIsHandedOver
  <2>1. CASE p = t
    BY Zenon, <1>1, <1>3, <2>1 DEF WaiterIsHandedOver, Goes
  <2>2. CASE p # t
    BY Zenon, <1>1, <1>2, <1>3, <2>2, Names DEF WaiterIsHandedOver, Goes, KeepsKnown, MemTypeOK
  <2> QED
    BY Zenon, <2>1, <2>2
<1>12. /\ QueueIsHandedOver("cv_waiters", "cv", cv_spin, OnCv)'
       /\ OnceIsHandedOver'
  BY Zenon, <1>1, <1>2, <1>5, <1>6, CvOnceFrame DEF OnCv, RunningOnce
<1> QED
  BY Zenon, <1>4, <1>5, <1>7, <1>8, <1>9, <1>10, <1>11, <1>12

\* A holder accesses the data: it alone, or only readers, hold the mutex.
LEMMA SectionInv ==
  ASSUME MemInv, order' = order, NEW t \in Threads, CriticalSection(t)
  PROVE  MemInv'
<1> USE DEF MemInv
<1>1. \/ Goes(t, "write", "unlock") /\ Touch(t, {"data"}, "w")
      \/ Goes(t, "read", "runlock") /\ Touch(t, {"data"}, "r")
  BY Zenon, GoesFacts DEF CriticalSection, PCs, Writing, Reading
<1>2. UNCHANGED <<order, wlock, readers, spin, queued, waiting, cv_spin, once_word, taken>>
  BY Zenon DEF CriticalSection
<1>3. PICK how \in {"r", "w"} :
        /\ Touch(t, {"data"}, how) /\ (how = "w" <=> pc[t] \in Writing)
        /\ \/ how = "w" /\ Goes(t, "write", "unlock")
           \/ how = "r" /\ Goes(t, "read", "runlock")
  BY Zenon, <1>1 DEF Goes, Writing
<1>0. {"data"} \in SUBSET Plain /\ "data" \in Plain /\ "mu" \in Atomic
  BY Zenon, Names
<1>4. MemTypeOK'
  <2>1. know' \in [Threads -> SUBSET Accesses] /\ rel' \in [Atomic -> SUBSET Accesses]
    BY SMTT(30), <1>0, <1>3, TouchFacts
  <2> QED
    BY <1>2, <1>3, <2>1 DEF MemTypeOK, OrdersSuffice, Goes
<1>5. (\A x \in Plain \ {"data"}, l \in Atomic : Keeps(x, l)) /\ KnownToAll'
  BY Zenon, <1>3, AccessKeeps, Names
<1>6. PICK l, m : /\ Goes(t, l, m) /\ <<l, m>> \in {<<"write", "unlock">>, <<"read", "runlock">>}
                  /\ (l \in Writing <=> m \in Writing) /\ (l \in Reading <=> m \in Reading)
                  /\ l \notin Spinning \union OnCv \union RunningOnce
                  /\ m \notin Spinning \union OnCv \union RunningOnce
  BY <1>3 DEF Writing, Reading, Spinning, OnCv, RunningOnce
<1>7. WordsTellHolders'
  <2>1. /\ readers' = Cardinality({u \in Threads : pc'[u] \in Reading})
        /\ wlock' => \A u \in Threads : pc'[u] \notin Reading
    BY Zenon, <1>2, <1>6, ReadersFrame DEF WordsTellHolders, Goes
  <2> QED
    BY Zenon, <1>2, <1>6, <2>1, WordsFrame DEF Passes
<1>8. QueueTellsWaiters'
  BY Zenon, <1>2, <1>6, WaitersFrame
<1>9. DataIsHandedOver'
  <2>1. \A u, v \in Threads, h \in {"r", "w"} :
          ~(u = t /\ h = how) =>
             /\ <<u, "data", h>> \in know[v] => <<u, "data", h>> \in know'[v]
             /\ <<u, "data", h>> \in rel["mu"] => <<u, "data", h>> \in rel'["mu"]
    <3> DEFINE xs == {"data"}
    <3>1. Touch(t, xs, how) /\ xs \in SUBSET Plain
      BY Zenon, <1>0, <1>3
    <3> HIDE DEF xs
    <3>2. CASE how = "w"
      BY ZenonT(30), <1>0, <3>1, <3>2, TouchFacts DEF xs
    <3>3. CASE how = "r"
      BY Zenon, <1>0, <3>1, <3>3, TouchFacts DEF xs
    <3> QED
      BY Zenon, <3>2, <3>3
  <2>2. \A h \in {"r", "w"} : <<t, "data", h>> \in know'[t]
    BY Zenon, <1>5, Names DEF KnownToAll
  <2>3. CASE how = "w"
    BY Zenon, <1>2, <1>3, <2>1, <2>2, <2>3
       DEF DataIsHandedOver, Published, Goes, Writing, Reading, WordsTellHolders, OneInside
  <2>4. CASE how = "r"
    BY Zenon, <1>2, <1>3, <2>1, <2>2, <2>4
       DEF DataIsHandedOver, Published, Goes, Writing, Reading, WordsTellHolders, OneInside
  <2> QED
    BY Zenon, <2>3, <2>4
<1>10. QueueIsHandedOver("mu_waiters", "mu", spin, Spinning)'
  BY Zenon, <1>2, <1>5, <1>6, MuQueueFrame, Names
<1>11. WaiterIsHandedOver'
  BY Zenon, <1>2, <1>5, <1>6, WaiterFrame, Names
<1>12. /\ QueueIsHandedOver("cv_waiters", "cv", cv_spin, OnCv)'
       /\ OnceIsHandedOver'
  BY Zenon, <1>2, <1>5, <1>6, CvOnceFrame, Names
<1> QED
  BY Zenon, <1>4, <1>5, <1>7, <1>8, <1>9, <1>10, <1>11, <1>12

\* A thread enters the queue and makes its waiter ready.
LEMMA LsInsertInv ==
  ASSUME MemInv, order' = order, NEW t \in Threads, LsInsert(t)
  PROVE  MemInv'
<1> USE DEF MemInv
<1>1. Goes(t, "ls_insert", "ls_release")
  BY Zenon, GoesFacts DEF LsInsert, PCs, Spinning
<1>2. /\ queued' = queued \union {t}
      /\ UNCHANGED <<order, wlock, readers, spin, waiting, cv_spin, once_word, taken>>
  BY Zenon DEF LsInsert
<1>3. Touch(t, {"mu_waiters", t}, "w") /\ {"mu_waiters", t} \in SUBSET Plain
  BY Zenon, Names DEF LsInsert
<1>4. MemTypeOK'
  BY Zenon, <1>1, <1>2, <1>3, TouchFacts DEF MemTypeOK, OrdersSuffice, Goes
<1>5. (\A x \in Plain \ {"mu_waiters", t}, l \in Atomic : Keeps(x, l)) /\ KnownToAll'
  BY Zenon, <1>3, AccessKeeps
<1>6. \A u \in Threads, v \in Threads, x \in Plain :
        /\ u # t /\ <<u, x, "w">> \in know[v] => <<u, x, "w">> \in know'[v]
        /\ <<t, x, "w">> \in know'[t]
        /\ u # t => \A l \in Atomic : <<u, x, "w">> \in rel[l] => <<u, x, "w">> \in rel'[l]
        /\ x \notin {"mu_waiters", t} => (<<u, x, "w">> \in know[v] => <<u, x, "w">> \in know'[v])
        /\ x \notin {"mu_waiters", t} =>
             \A l \in Atomic : <<u, x, "w">> \in rel[l] => <<u, x, "w">> \in rel'[l]
  BY ZenonT(30), <1>3, <1>5, TouchFacts DEF KnownToAll
<1>7. WordsTellHolders'
  <2>1. /\ readers' = Cardinality({u \in Threads : pc'[u] \in Reading})
        /\ wlock' => \A u \in Threads : pc'[u] \notin Reading
    BY Zenon, <1>1, <1>2, ReadersFrame DEF WordsTellHolders, Reading, Goes
  <2> QED
    BY Zenon, <1>1, <1>2, <2>1, WordsFrame
       DEF Passes, Writing, Spinning, OnCv, RunningOnce
<1>8. QueueTellsWaiters'
  BY <1>1, <1>2 DEF QueueTellsWaiters, MemTypeOK, Goes
<1>9. DataIsHandedOver'
  BY Zenon, <1>1, <1>2, <1>5, DataFrame, Names DEF Writing, Reading
<1>10. QueueIsHandedOver("mu_waiters", "mu", spin, Spinning)'
  BY Zenon, <1>1, <1>2, <1>6, Names DEF QueueIsHandedOver, Goes, Spinning, WordsTellHolders,
     OneInside
<1>11. WaiterIsHandedOver'
  BY Zenon, <1>1, <1>2, <1>6, Names DEF WaiterIsHandedOver, Goes
<1>12. /\ QueueIsHandedOver("cv_waiters", "cv", cv_spin, OnCv)'
       /\ OnceIsHandedOver'
  BY Zenon, <1>1, <1>2, <1>5, CvOnceFrame, Names DEF OnCv, RunningOnce
<1> QED
  BY Zenon, <1>4, <1>5, <1>7, <1>8, <1>9, <1>10, <1>11, <1>12

\* A waiter is used again.
LEMMA ReuseInv ==
  ASSUME MemInv, order' = order, NEW t \in Threads, Reuse(t)
  PROVE  MemInv'
<1> USE DEF MemInv
<1>1. Goes(t, "reuse", "idle")
  BY Zenon, GoesFacts DEF Reuse, PCs
<1>2. UNCHANGED <<order, wlock, readers, spin, queued, waiting, cv_spin, once_word, taken>>
  BY Zenon DEF Reuse
<1>3. Touch(t, {t}, "w") /\ {t} \in SUBSET Plain
  BY Zenon, Names DEF Reuse
<1>4. MemTypeOK'
  BY Zenon, <1>1, <1>2, <1>3, TouchFacts DEF MemTypeOK, OrdersSuffice, Goes
<1>5. (\A x \in Plain \ {t}, l \in Atomic : Keeps(x, l)) /\ KnownToAll'
  BY Zenon, <1>3, AccessKeeps
<1>7. WordsTellHolders'
  <2>1. /\ readers' = Cardinality({u \in Threads : pc'[u] \in Reading})
        /\ wlock' => \A u \in Threads : pc'[u] \notin Reading
    BY Zenon, <1>1, <1>2, ReadersFrame DEF WordsTellHolders, Reading, Goes
  <2> QED
    BY Zenon, <1>1, <1>2, <2>1, WordsFrame
       DEF Passes, Writing, Spinning, OnCv, RunningOnce
<1>8. QueueTellsWaiters'
  BY Zenon, <1>1, <1>2, WaitersFrame
<1>9. DataIsHandedOver'
  BY Zenon, <1>1, <1>2, <1>5, DataFrame, Names DEF Writing, Reading
<1>10. QueueIsHandedOver("mu_waiters", "mu", spin, Spinning)'
  BY Zenon, <1>1, <1>2, <1>5, MuQueueFrame, Names DEF Spinning
<1>11. WaiterIsHandedOver'
  <2>1. \A u, v \in Threads, p \in Threads :
          /\ <<u, p, "w">> \in know[v] /\ (u # t \/ p # t) => <<u, p, "w">> \in know'[v]
          /\ <<u, p, "w">> \in rel[p] /\ (u # t \/ p # t) => <<u, p, "w">> \in rel'[p]
    BY ZenonT(30), <1>3, TouchFacts, Names
  <2>2. <<t, t, "w">> \in know'[t]
    BY Zenon, <1>5, Names DEF KnownToAll
  <2> QED
    BY Zenon, <1>1, <1>2, <2>1, <2>2 DEF WaiterIsHandedOver, Goes
<1>12. /\ QueueIsHandedOver("cv_waiters", "cv", cv_spin, OnCv)'
       /\ OnceIsHandedOver'
  BY Zenon, <1>1, <1>2, <1>5, CvOnceFrame, Names DEF OnCv, RunningOnce
<1> QED
  BY Zenon, <1>4, <1>5, <1>7, <1>8, <1>9, <1>10, <1>11, <1>12

\* The release of the spinlock bit publishes what was done to the queue.
LEMMA ReleaseSpinlockInv ==
  ASSUME MemInv, order' = order, NEW t \in Threads, ReleaseSpinlock(t)
  PROVE  MemInv'
<1> USE DEF MemInv
<1>0. PICK l, m : /\ Goes(t, l, m)
                  /\ <<l, m>> \in {<<"ls_release", "ls_wait">>, <<"us_release", "us_wake">>}
  BY Zenon, GoesFacts DEF ReleaseSpinlock, PCs
<1>1. /\ Goes(t, l, m) /\ l \in Spinning
      /\ l \notin Writing \union Reading \union OnCv \union RunningOnce
      /\ m \notin Writing \union Reading \union Spinning \union OnCv \union RunningOnce \union {"once_use"}
  BY Zenon, <1>0 DEF Writing, Reading, Spinning, OnCv, RunningOnce
<1>2. /\ ~spin' /\ spin' \in BOOLEAN
      /\ UNCHANGED <<order, wlock, readers, queued, waiting, cv_spin, once_word, taken>>
  BY Zenon DEF ReleaseSpinlock
<1>3. /\ KeepsKnown("mu") /\ rel["mu"] \subseteq rel'["mu"] /\ know[t] \subseteq rel'["mu"]
      /\ "mu" \in Atomic
  BY Zenon, RmwFacts, Names DEF ReleaseSpinlock, ATM_CAS_REL, MemTypeOK, OrdersSuffice
<1>4. MemTypeOK'
  BY Zenon, <1>1, <1>2, <1>3 DEF MemTypeOK, OrdersSuffice, KeepsKnown, Goes
<1>5. (\A x, w : w \in Atomic => Keeps(x, w)) /\ KnownToAll'
  BY Zenon, <1>3, OperationKeeps
<1>7. WordsTellHolders'
  <2>1. /\ readers' = Cardinality({u \in Threads : pc'[u] \in Reading})
        /\ wlock' => \A u \in Threads : pc'[u] \notin Reading
    BY Zenon, <1>1, <1>2, ReadersFrame DEF WordsTellHolders, Goes
  <2>2. m # "once_use"
    BY Zenon, <1>1
  <2> QED
    BY Zenon, <1>1, <1>2, <2>1, <2>2, WordsFrame DEF Passes
<1>8. QueueTellsWaiters'
  BY <1>0, <1>2 DEF QueueTellsWaiters, MemTypeOK, Goes
<1>9. DataIsHandedOver'
  BY SMTT(30), <1>1, <1>2, <1>3, <1>5, DataFrame
<1>10. QueueIsHandedOver("mu_waiters", "mu", spin, Spinning)'
  BY Zenon, <1>1, <1>2, <1>3, <1>5 DEF QueueIsHandedOver, Published, Keeps, Goes,
     WordsTellHolders, OneInside
<1>11. WaiterIsHandedOver'
  BY Zenon, <1>0, <1>1, <1>2, <1>5, WaiterFrame, Names
<1>12. /\ QueueIsHandedOver("cv_waiters", "cv", cv_spin, OnCv)'
       /\ OnceIsHandedOver'
  BY Zenon, <1>1, <1>2, <1>5, CvOnceFrame, Names
<1> QED
  BY Zenon, <1>4, <1>5, <1>7, <1>8, <1>9, <1>10, <1>11, <1>12

\* The flag is seen clear: the thread learns of what its waker did to its waiter.
LEMMA LsWaitInv ==
  ASSUME MemInv, order' = order, NEW t \in Threads, LsWait(t)
  PROVE  MemInv'
<1> USE DEF MemInv
<1>1. Goes(t, "ls_wait", "reuse")
  BY Zenon, GoesFacts DEF LsWait, PCs
<1>2. ~waiting[t] /\ UNCHANGED <<order, wlock, readers, spin, queued, waiting, cv_spin, once_word, taken>>
  BY Zenon DEF LsWait
<1>3. KeepsKnown(t) /\ rel' = rel /\ rel[t] \subseteq know'[t] /\ t \in Atomic
  BY SMTT(30), LoadFacts, Names DEF LsWait, ATM_LOAD_ACQ, MemTypeOK, OrdersSuffice
<1>4. MemTypeOK'
  BY Zenon, <1>1, <1>2, <1>3 DEF MemTypeOK, OrdersSuffice, KeepsKnown, Goes
<1>5. (\A x, w : w \in Atomic => Keeps(x, w)) /\ KnownToAll'
  BY Zenon, <1>3, OperationKeeps
<1>7. WordsTellHolders'
  <2>1. /\ readers' = Cardinality({u \in Threads : pc'[u] \in Reading})
        /\ wlock' => \A u \in Threads : pc'[u] \notin Reading
    BY SMTT(30), <1>1, <1>2, ReadersFrame DEF WordsTellHolders, Reading, Goes
  <2> QED
    BY Zenon, <1>1, <1>2, <2>1, WordsFrame
       DEF Passes, Writing, Spinning, OnCv, RunningOnce
<1>8. QueueTellsWaiters'
  BY <1>1, <1>2 DEF QueueTellsWaiters, MemTypeOK, Goes
<1>9. DataIsHandedOver'
  BY Zenon, <1>1, <1>2, <1>5, DataFrame, Names DEF Writing, Reading
<1>10. QueueIsHandedOver("mu_waiters", "mu", spin, Spinning)'
  BY Zenon, <1>1, <1>2, <1>5, MuQueueFrame, Names DEF Spinning
<1>11. WaiterIsHandedOver'
  <2>1. \A u \in Threads : taken[u] # t
    BY <1>1, <1>2, MemAssumption DEF QueueTellsWaiters
  <2> QED
    BY Zenon, <1>1, <1>2, <1>3, <2>1 DEF WaiterIsHandedOver, Goes, KeepsKnown
<1>12. /\ QueueIsHandedOver("cv_waiters", "cv", cv_spin, OnCv)'
       /\ OnceIsHandedOver'
  BY Zenon, <1>1, <1>2, <1>5, CvOnceFrame, Names DEF OnCv, RunningOnce
<1> QED
  BY Zenon, <1>4, <1>5, <1>7, <1>8, <1>9, <1>10, <1>11, <1>12

\* The mutex is released and the spinlock taken at once: the swap publishes what the
\* holder did and acquires the queue.
LEMMA UsSpinInv ==
  ASSUME MemInv, order' = order, NEW t \in Threads, UsSpin(t)
  PROVE  MemInv'
<1> USE DEF MemInv
<1>0. PICK l : /\ Goes(t, l, "us_queue") /\ ~spin /\ spin' /\ spin' \in BOOLEAN
               /\ UNCHANGED <<order, queued, waiting, cv_spin, once_word, taken>>
               /\ \/ l = "unlock" /\ ~wlock' /\ wlock' \in BOOLEAN /\ readers' = readers
                  \/ l = "runlock" /\ readers = 1 /\ readers' = 0 /\ wlock' = wlock
  <2>1. "us_queue" \in PCs
    BY Zenon DEF PCs, Spinning
  <2>2. CASE From(t, "unlock", "us_queue") /\ wlock' = FALSE /\ UNCHANGED readers
    BY Zenon, <2>1, <2>2, GoesFacts DEF UsSpin
  <2>3. CASE From(t, "runlock", "us_queue") /\ readers = 1 /\ readers' = 0 /\ UNCHANGED wlock
    BY Zenon, <2>1, <2>3, GoesFacts DEF UsSpin
  <2> QED
    BY Zenon, <2>2, <2>3 DEF UsSpin
<1>3. /\ KeepsKnown("mu") /\ rel["mu"] \subseteq rel'["mu"] /\ know[t] \subseteq rel'["mu"]
      /\ rel["mu"] \subseteq know'[t] /\ "mu" \in Atomic
  BY Zenon, RmwFacts, Names DEF UsSpin, ATM_CAS_RELACQ, MemTypeOK, OrdersSuffice
<1>2. /\ l \in {"unlock", "runlock"} /\ readers' \in Nat /\ wlock' \in BOOLEAN
      /\ l \notin Spinning \union OnCv \union RunningOnce
      /\ "us_queue" \notin Writing \union Reading \union OnCv \union RunningOnce \union {"once_use"}
      /\ "us_queue" \in Spinning
  BY <1>0 DEF MemTypeOK, Writing, Reading, Spinning, OnCv, RunningOnce
<1>4. MemTypeOK'
  BY SMTT(30), <1>0, <1>2, <1>3 DEF MemTypeOK, OrdersSuffice, KeepsKnown, Goes
<1>5. (\A x, w : w \in Atomic => Keeps(x, w)) /\ KnownToAll'
  BY Zenon, <1>3, OperationKeeps
<1>6. /\ readers' = Cardinality({u \in Threads : pc'[u] \in Reading})
      /\ wlock' => \A u \in Threads : pc'[u] \notin Reading
      /\ Passes(wlock, wlock', l, "us_queue", Writing)
      /\ l = "runlock" => ~wlock /\ \A u \in Threads : pc'[u] \notin Reading
  <2>1. CASE l = "unlock"
    BY Zenon, <1>0, <2>1, ReadersFrame DEF WordsTellHolders, Reading, Writing, Goes, Passes
  <2>2. CASE l = "runlock"
    <3>1. ~wlock /\ \A u \in Threads : pc'[u] \notin Reading
      BY Zenon, <1>0, <2>2, ReaderCount DEF WordsTellHolders, Reading, Goes
    <3>2. {u \in Threads : pc'[u] \in Reading} = {}
      BY Zenon, <3>1
    <3> QED
      BY <1>0, <2>2, <3>1, <3>2, FS_EmptySet DEF Passes, Writing
  <2> QED
    BY Zenon, <1>2, <2>1, <2>2
<1>7. WordsTellHolders'
  BY Zenon, <1>0, <1>2, <1>6, WordsFrame DEF Passes
<1>8. QueueTellsWaiters'
  BY Zenon, <1>0, <1>2, WaitersFrame
<1>9. DataIsHandedOver'
  <2>1. CASE l = "unlock"
    BY ZenonT(30), <1>0, <1>3, <1>5, <2>1
       DEF DataIsHandedOver, Published, Goes, Keeps, Writing, Reading, WordsTellHolders, OneInside
  <2>2. CASE l = "runlock"
    <3>1. \A u \in Threads : <<u, "data", "w">> \in rel'["mu"]
      BY Zenon, <1>0, <1>3, <2>2 DEF DataIsHandedOver, Goes, Reading
    <3>2. \A u \in Threads \ {t} : pc[u] \notin Reading
      BY Zenon, <1>0, <1>6, <2>2 DEF Goes
    <3>3. <<t, "data", "r">> \in rel'["mu"]
      BY Zenon, <1>3, Names DEF KnownToAll
    <3> QED
      BY Zenon, <1>0, <1>2, <1>3, <1>5, <1>6, <2>2, <3>1, <3>2, <3>3
         DEF DataIsHandedOver, Published, Goes, Keeps, Writing, WordsTellHolders, OneInside
  <2> QED
    BY Zenon, <1>2, <2>1, <2>2
<1>10. QueueIsHandedOver("mu_waiters", "mu", spin, Spinning)'
  BY Zenon, <1>0, <1>3, <1>5 DEF QueueIsHandedOver, Published, Keeps, Goes, WordsTellHolders,
     OneInside
<1>11. WaiterIsHandedOver'
  BY Zenon, <1>0, <1>2, <1>5, WaiterFrame, Names
<1>12. /\ QueueIsHandedOver("cv_waiters", "cv", cv_spin, OnCv)'
       /\ OnceIsHandedOver'
  BY Zenon, <1>0, <1>2, <1>5, CvOnceFrame, Names
<1> QED
  BY Zenon, <1>4, <1>5, <1>7, <1>8, <1>9, <1>10, <1>11, <1>12

\* A waiter is taken out of the queue: from now on its owner has something to learn.
LEMMA UsRemoveInv ==
  ASSUME MemInv, order' = order, NEW t \in Threads, UsRemove(t)
  PROVE  MemInv'
<1> USE DEF MemInv
<1>1. Goes(t, "us_queue", "us_release")
  BY Zenon, GoesFacts DEF UsRemove, PCs, Spinning
<1>2. UNCHANGED <<order, wlock, readers, spin, waiting, cv_spin, once_word>>
  BY Zenon DEF UsRemove
<1>3. PICK p \in queued : /\ queued' = queued \ {p} /\ taken' = [taken EXCEPT ![t] = p]
                          /\ Touch(t, {"mu_waiters", p}, "w")
  BY Zenon DEF UsRemove
<1>0. /\ {"mu_waiters", p} \in SUBSET Plain /\ p \in Threads /\ p \in Plain /\ p \in Atomic
      /\ p # NoThread
  BY Zenon, Names, MemAssumption DEF MemTypeOK
<1>4. MemTypeOK'
  BY Zenon, <1>0, <1>1, <1>2, <1>3, TouchFacts DEF MemTypeOK, OrdersSuffice, Goes
<1>5. (\A x \in Plain \ {"mu_waiters", p}, l \in Atomic : Keeps(x, l)) /\ KnownToAll'
  BY Zenon, <1>0, <1>3, AccessKeeps
<1>6. \A u \in Threads, v \in Threads, x \in Plain :
        /\ u # t /\ <<u, x, "w">> \in know[v] => <<u, x, "w">> \in know'[v]
        /\ <<t, x, "w">> \in know'[t]
        /\ x \notin {"mu_waiters", p} => (<<u, x, "w">> \in know[v] => <<u, x, "w">> \in know'[v])
        /\ x \notin {"mu_waiters", p} =>
             \A l \in Atomic : <<u, x, "w">> \in rel[l] => <<u, x, "w">> \in rel'[l]
  BY ZenonT(30), <1>0, <1>3, <1>5, TouchFacts DEF KnownToAll
<1>13. pc[p] = "ls_wait" /\ waiting[p] /\ p # t /\ \A u \in Threads : taken[u] # p
  <2>1. pc[p] \in {"ls_release", "ls_wait"} /\ waiting[p]
    BY Zenon, <1>3 DEF QueueTellsWaiters
  <2>2. pc[p] # "ls_release"
    BY Zenon, <1>0, <1>1 DEF WordsTellHolders, OneInside, Spinning, Goes
  <2>3. \A u \in Threads : taken[u] # p
    BY <1>0, <1>3 DEF QueueTellsWaiters
  <2> QED
    BY SMTT(30), <1>1, <2>1, <2>2, <2>3 DEF Goes
<1>7. WordsTellHolders'
  <2>1. /\ readers' = Cardinality({u \in Threads : pc'[u] \in Reading})
        /\ wlock' => \A u \in Threads : pc'[u] \notin Reading
    BY Zenon, <1>1, <1>2, ReadersFrame DEF WordsTellHolders, Reading, Goes
  <2> QED
    BY Zenon, <1>1, <1>2, <2>1, WordsFrame
       DEF Passes, Writing, Spinning, OnCv, RunningOnce
<1>8. QueueTellsWaiters'
  <2>1. \A u \in queued' : pc'[u] \in {"ls_release", "ls_wait"} /\ waiting'[u]
    BY Zenon, <1>1, <1>2, <1>3 DEF QueueTellsWaiters, Goes, MemTypeOK
  <2>2. \A u \in Threads : pc'[u] = "ls_insert" => waiting'[u]
    BY <1>1, <1>2 DEF QueueTellsWaiters, Goes
  <2>3. taken'[t] = p /\ \A u \in Threads \ {t} : taken'[u] = taken[u]
    BY Zenon, <1>3 DEF MemTypeOK
  <2>4. ASSUME NEW u \in Threads
        PROVE  /\ taken'[u] # NoThread <=> pc'[u] \in {"us_release", "us_wake"}
               /\ taken'[u] # NoThread =>
                    /\ pc'[taken'[u]] = "ls_wait" /\ waiting'[taken'[u]] /\ taken'[u] \notin queued'
                    /\ \A v \in Threads : taken'[v] = taken'[u] => v = u
    <3>1. CASE u = t
      BY <1>0, <1>1, <1>2, <1>3, <1>13, <2>3, <3>1 DEF Goes
    <3>2. CASE u # t
      BY SMTT(30), <1>0, <1>1, <1>2, <1>3, <1>13, <2>3, <3>2 DEF QueueTellsWaiters, Goes,
         MemTypeOK
    <3> QED
      BY Zenon, <3>1, <3>2
  <2> QED
    BY Zenon, <2>1, <2>2, <2>4 DEF QueueTellsWaiters
<1>9. DataIsHandedOver'
  BY SMTT(30), <1>0, <1>1, <1>2, <1>5, DataFrame, Names DEF Writing, Reading
<1>10. QueueIsHandedOver("mu_waiters", "mu", spin, Spinning)'
  BY Zenon, <1>1, <1>2, <1>6, Names DEF QueueIsHandedOver, Goes, Spinning, WordsTellHolders,
     OneInside
<1>11. WaiterIsHandedOver'
  <2> SUFFICES ASSUME NEW q \in Threads, NEW u \in Threads
               PROVE  \/ <<u, q, "w">> \in know'[q]
                      \/ pc'[q] = "ls_wait" /\ taken'[u] = q
                      \/ pc'[q] = "ls_wait" /\ ~waiting'[q] /\ <<u, q, "w">> \in rel'[q]
    BY Zenon DEF WaiterIsHandedOver
  <2>1. taken'[t] = p /\ \A v \in Threads \ {t} : taken'[v] = taken[v]
    BY Zenon, <1>3 DEF MemTypeOK
  <2>2. taken[t] = NoThread
    BY SMTT(30), <1>1 DEF QueueTellsWaiters, Goes
  <2>3. CASE q = p
    <3>1. CASE u = t
      BY Zenon, <1>1, <1>13, <2>1, <2>3, <3>1 DEF Goes
    <3>2. CASE u # t
      BY Zenon, <1>0, <1>6, <1>13, <2>3, <3>2 DEF WaiterIsHandedOver
    <3> QED
      BY Zenon, <3>1, <3>2
  <2>4. CASE q # p
    <3>1. q \in Plain \ {"mu_waiters", p} /\ q \in Atomic /\ q # NoThread
      BY Zenon, <2>4, Names, MemAssumption
    <3>2. pc[q] = "ls_wait" => pc'[q] = "ls_wait"
      BY Zenon, <1>1 DEF Goes
    <3>3. taken[u] = q => taken'[u] = q
      BY Zenon, <2>1, <2>2, <3>1
    <3> QED
      BY Zenon, <1>2, <1>6, <3>1, <3>2, <3>3 DEF WaiterIsHandedOver
  <2> QED
    BY SMTT(30), <2>3, <2>4
<1>12. /\ QueueIsHandedOver("cv_waiters", "cv", cv_spin, OnCv)'
       /\ OnceIsHandedOver'
  BY Zenon, <1>0, <1>1, <1>2, <1>5, CvOnceFrame, Names DEF OnCv, RunningOnce
<1> QED
  BY Zenon, <1>4, <1>5, <1>7, <1>8, <1>9, <1>10, <1>11, <1>12

\* The waker's release store of the flag publishes its access to the waiter.
LEMMA UsWakeInv ==
  ASSUME MemInv, order' = order, NEW t \in Threads, UsWake(t)
  PROVE  MemInv'
<1> USE DEF MemInv
<1>1. Goes(t, "us_wake", "idle")
  BY Zenon, GoesFacts DEF UsWake, PCs
<1>2. UNCHANGED <<order, wlock, readers, spin, queued, cv_spin, once_word>>
  BY Zenon DEF UsWake
<1>0. PICK p \in Threads : /\ p = taken[t] /\ pc[p] = "ls_wait" /\ waiting[p] /\ p \notin queued
                           /\ \A u \in Threads : taken[u] = p => u = t
  BY <1>1 DEF QueueTellsWaiters, Goes, MemTypeOK
<1>3. /\ KeepsKnown(p) /\ know' = know /\ rel'[p] = know[t] /\ p \in Atomic
      /\ waiting' = [waiting EXCEPT ![p] = FALSE] /\ taken' = [taken EXCEPT ![t] = NoThread]
  BY Zenon, <1>0, StoreFacts, Names DEF UsWake, ATM_STORE_REL, MemTypeOK, OrdersSuffice
<1>4. MemTypeOK'
  BY SMTT(30), <1>1, <1>2, <1>3 DEF MemTypeOK, OrdersSuffice, KeepsKnown, Goes
<1>5. (\A x, l : l \in Atomic \ {p} => Keeps(x, l)) /\ KnownToAll'
  BY Zenon, <1>3, OperationKeeps
<1>6. "mu" \in Atomic \ {p} /\ "cv" \in Atomic \ {p} /\ "once" \in Atomic \ {p}
  BY Zenon, Names
<1>13. /\ p # t /\ taken'[t] = NoThread /\ \A u \in Threads \ {t} : taken'[u] = taken[u]
       /\ ~waiting'[p] /\ \A u \in Threads \ {p} : waiting'[u] = waiting[u]
  BY Zenon, <1>0, <1>1, <1>3 DEF MemTypeOK, Goes
<1>7. WordsTellHolders'
  <2>1. /\ readers' = Cardinality({u \in Threads : pc'[u] \in Reading})
        /\ wlock' => \A u \in Threads : pc'[u] \notin Reading
    BY Zenon, <1>1, <1>2, ReadersFrame DEF WordsTellHolders, Reading, Goes
  <2> QED
    BY Zenon, <1>1, <1>2, <2>1, WordsFrame
       DEF Passes, Writing, Spinning, OnCv, RunningOnce
<1>8. QueueTellsWaiters'
  <2>1. \A u \in queued' : pc'[u] \in {"ls_release", "ls_wait"} /\ waiting'[u]
    BY <1>0, <1>1, <1>2, <1>13 DEF QueueTellsWaiters, Goes, MemTypeOK
  <2>2. \A u \in Threads : pc'[u] = "ls_insert" => waiting'[u]
    BY SMTT(30), <1>0, <1>1, <1>13 DEF QueueTellsWaiters, Goes
  <2>3. ASSUME NEW u \in Threads
        PROVE  /\ taken'[u] # NoThread <=> pc'[u] \in {"us_release", "us_wake"}
               /\ taken'[u] # NoThread =>
                    /\ pc'[taken'[u]] = "ls_wait" /\ waiting'[taken'[u]] /\ taken'[u] \notin queued'
                    /\ \A v \in Threads : taken'[v] = taken'[u] => v = u
    <3>1. CASE u = t
      BY Zenon, <1>1, <1>13, <3>1 DEF Goes
    <3>2. CASE u # t
      BY <1>0, <1>1, <1>2, <1>13, <3>2 DEF QueueTellsWaiters, Goes, MemTypeOK
    <3> QED
      BY Zenon, <3>1, <3>2
  <2> QED
    BY Zenon, <2>1, <2>2, <2>3 DEF QueueTellsWaiters
<1>9. DataIsHandedOver'
  BY SMTT(30), <1>1, <1>2, <1>5, <1>6, DataFrame DEF Writing, Reading
<1>10. QueueIsHandedOver("mu_waiters", "mu", spin, Spinning)'
  BY Zenon, <1>1, <1>2, <1>5, <1>6, MuQueueFrame DEF Spinning
<1>11. WaiterIsHandedOver'
  <2> SUFFICES ASSUME NEW q \in Threads, NEW u \in Threads
               PROVE  \/ <<u, q, "w">> \in know'[q]
                      \/ pc'[q] = "ls_wait" /\ taken'[u] = q
                      \/ pc'[q] = "ls_wait" /\ ~waiting'[q] /\ <<u, q, "w">> \in rel'[q]
    BY Zenon DEF WaiterIsHandedOver
  <2>1. CASE q = p
    <3>1. CASE u = t
      <4>1. <<t, p, "w">> \in know[t]
        BY Zenon, <1>0, Names DEF KnownToAll
      <4> QED
        BY Zenon, <1>0, <1>1, <1>3, <1>13, <2>1, <3>1, <4>1 DEF Goes
    <3>2. CASE u # t
      BY Zenon, <1>0, <1>3, <2>1, <3>2 DEF WaiterIsHandedOver
    <3> QED
      BY Zenon, <3>1, <3>2
  <2>2. CASE q # p
    <3>1. q \in Atomic \ {p} /\ q # NoThread
      BY Zenon, <2>2, Names, MemAssumption
    <3>2. pc[q] = "ls_wait" => pc'[q] = "ls_wait"
      BY Zenon, <1>1 DEF Goes
    <3>3. taken[u] = q => taken'[u] = q
      BY Zenon, <1>0, <1>13, <2>2
    <3>4. rel[q] \subseteq rel'[q]
      BY Zenon, <1>3, <3>1 DEF KeepsKnown
    <3> QED
      BY SMTT(30), <1>3, <1>13, <2>2, <3>2, <3>3, <3>4 DEF WaiterIsHandedOver
  <2> QED
    BY Zenon, <2>1, <2>2
<1>12. /\ QueueIsHandedOver("cv_waiters", "cv", cv_spin, OnCv)'
       /\ OnceIsHandedOver'
  BY Zenon, <1>1, <1>2, <1>5, <1>6, CvOnceFrame DEF OnCv, RunningOnce
<1> QED
  BY Zenon, <1>4, <1>5, <1>7, <1>8, <1>9, <1>10, <1>11, <1>12

\* The spinlock of a cv is taken with an acquire.
LEMMA SpinInv ==
  ASSUME MemInv, order' = order, NEW t \in Threads, nsync_spin_test_and_set_(t)
  PROVE  MemInv'
<1> USE DEF MemInv
<1>1. Goes(t, "idle", "cv_queue") /\ {"idle", "cv_queue"} \subseteq {"idle", "once_use"} \union OnCv \union RunningOnce
  BY Zenon, GoesFacts DEF nsync_spin_test_and_set_, PCs, OnCv, RunningOnce
<1>2. /\ ~cv_spin /\ cv_spin' /\ cv_spin' \in BOOLEAN
      /\ UNCHANGED <<order, wlock, readers, spin, queued, waiting, once_word, taken>>
  BY Zenon DEF nsync_spin_test_and_set_, unchangedMu
<1>3. /\ KeepsKnown("cv") /\ rel["cv"] \subseteq rel'["cv"] /\ rel["cv"] \subseteq know'[t]
      /\ "cv" \in Atomic
  BY SMTT(30), RmwFacts, Names DEF nsync_spin_test_and_set_, ATM_CAS_ACQ, MemTypeOK,
     OrdersSuffice
<1>4. MemTypeOK'
  BY SMTT(30), <1>1, <1>2, <1>3 DEF MemTypeOK, OrdersSuffice, KeepsKnown, Goes
<1>5. (\A x, l : l \in Atomic \ {"cv"} => Keeps(x, l)) /\ KnownToAll'
  BY Zenon, <1>3, OperationKeeps
<1>6. /\ Keeps("data", "mu") /\ Keeps("mu_waiters", "mu") /\ \A p \in Threads : Keeps(p, p)
      /\ Keeps("init", "once")
  BY <1>5, Names
<1>7. /\ DataIsHandedOver' /\ WaiterIsHandedOver' /\ QueueTellsWaiters'
      /\ QueueIsHandedOver("mu_waiters", "mu", spin, Spinning)'
      /\ readers' = Cardinality({u \in Threads : pc'[u] \in Reading})
      /\ wlock' => \A u \in Threads : pc'[u] \notin Reading
      /\ Passes(wlock, wlock', "idle", "cv_queue", Writing) /\ Passes(spin, spin', "idle", "cv_queue", Spinning)
  BY Zenon, <1>1, <1>2, <1>6, MuFrame
<1>8. WordsTellHolders'
  BY Zenon, <1>1, <1>2, <1>7, WordsFrame DEF Passes, OnCv, RunningOnce
<1>9. QueueIsHandedOver("cv_waiters", "cv", cv_spin, OnCv)'
  BY Zenon, <1>1, <1>2, <1>3 DEF QueueIsHandedOver, Published, KeepsKnown, Goes,
     WordsTellHolders, OneInside
<1>10. OnceIsHandedOver'
  BY SMTT(30), <1>1, <1>2, <1>6, OnceFrame DEF RunningOnce
<1> QED
  BY Zenon, <1>4, <1>5, <1>7, <1>8, <1>9, <1>10

\* The queue of a cv is used.
LEMMA CvSectionInv ==
  ASSUME MemInv, order' = order, NEW t \in Threads, CvSection(t)
  PROVE  MemInv'
<1> USE DEF MemInv
<1>1. Goes(t, "cv_queue", "cv_release") /\ {"cv_queue", "cv_release"} \subseteq {"idle", "once_use"} \union OnCv \union RunningOnce
  BY Zenon, GoesFacts DEF CvSection, PCs, OnCv, RunningOnce
<1>2. /\ UNCHANGED <<order, wlock, readers, spin, queued, waiting, cv_spin, once_word, taken>>
  BY Zenon DEF CvSection, unchangedMu
<1>3. Touch(t, {"cv_waiters"}, "w") /\ {"cv_waiters"} \in SUBSET Plain
  BY Zenon, Names DEF CvSection
<1>4. MemTypeOK'
  BY Zenon, <1>1, <1>2, <1>3, TouchFacts DEF MemTypeOK, OrdersSuffice, Goes
<1>5. (\A x \in Plain \ {"cv_waiters"}, l \in Atomic : Keeps(x, l)) /\ KnownToAll'
  BY Zenon, <1>3, AccessKeeps
<1>6. /\ Keeps("data", "mu") /\ Keeps("mu_waiters", "mu") /\ \A p \in Threads : Keeps(p, p)
      /\ Keeps("init", "once")
  BY Zenon, <1>5, Names
<1>7. /\ DataIsHandedOver' /\ WaiterIsHandedOver' /\ QueueTellsWaiters'
      /\ QueueIsHandedOver("mu_waiters", "mu", spin, Spinning)'
      /\ readers' = Cardinality({u \in Threads : pc'[u] \in Reading})
      /\ wlock' => \A u \in Threads : pc'[u] \notin Reading
      /\ Passes(wlock, wlock', "cv_queue", "cv_release", Writing) /\ Passes(spin, spin', "cv_queue", "cv_release", Spinning)
  BY Zenon, <1>1, <1>2, <1>6, MuFrame
<1>8. WordsTellHolders'
  BY Zenon, <1>1, <1>2, <1>7, WordsFrame DEF Passes, OnCv, RunningOnce
<1>9. QueueIsHandedOver("cv_waiters", "cv", cv_spin, OnCv)'
  <2>1. \A u, v \in Threads :
          /\ u # t /\ <<u, "cv_waiters", "w">> \in know[v] => <<u, "cv_waiters", "w">> \in know'[v]
          /\ <<t, "cv_waiters", "w">> \in know'[t]
    <3> DEFINE xs == {"cv_waiters"}
    <3>1. Touch(t, xs, "w") /\ xs \in SUBSET Plain /\ "cv_waiters" \in Plain
      BY Zenon, <1>3
    <3> HIDE DEF xs
    <3> QED
      BY Zenon, <1>5, <3>1, TouchFacts DEF KnownToAll
  <2> QED
    BY Zenon, <1>1, <1>2, <2>1 DEF QueueIsHandedOver, Goes, OnCv, WordsTellHolders, OneInside
<1>10. OnceIsHandedOver'
  BY SMTT(30), <1>1, <1>2, <1>6, OnceFrame DEF RunningOnce
<1> QED
  BY Zenon, <1>4, <1>5, <1>7, <1>8, <1>9, <1>10

\* The release store of a cv's word publishes what was done to the queue.
LEMMA CvReleaseInv ==
  ASSUME MemInv, order' = order, NEW t \in Threads, CvRelease(t)
  PROVE  MemInv'
<1> USE DEF MemInv
<1>1. Goes(t, "cv_release", "idle") /\ {"cv_release", "idle"} \subseteq {"idle", "once_use"} \union OnCv \union RunningOnce
  BY Zenon, GoesFacts DEF CvRelease, PCs, OnCv, RunningOnce
<1>2. /\ ~cv_spin' /\ cv_spin' \in BOOLEAN
      /\ UNCHANGED <<order, wlock, readers, spin, queued, waiting, once_word, taken>>
  BY Zenon DEF CvRelease, unchangedMu
<1>3. /\ KeepsKnown("cv") /\ know' = know /\ rel'["cv"] = know[t]
      /\ "cv" \in Atomic
  BY SMTT(30), StoreFacts, Names DEF CvRelease, ATM_STORE_REL, MemTypeOK, OrdersSuffice
<1>4. MemTypeOK'
  BY Zenon, <1>1, <1>2, <1>3 DEF MemTypeOK, OrdersSuffice, KeepsKnown, Goes
<1>5. (\A x, l : l \in Atomic \ {"cv"} => Keeps(x, l)) /\ KnownToAll'
  BY Zenon, <1>3, OperationKeeps
<1>6. /\ Keeps("data", "mu") /\ Keeps("mu_waiters", "mu") /\ \A p \in Threads : Keeps(p, p)
      /\ Keeps("init", "once")
  BY <1>5, Names
<1>7. /\ DataIsHandedOver' /\ WaiterIsHandedOver' /\ QueueTellsWaiters'
      /\ QueueIsHandedOver("mu_waiters", "mu", spin, Spinning)'
      /\ readers' = Cardinality({u \in Threads : pc'[u] \in Reading})
      /\ wlock' => \A u \in Threads : pc'[u] \notin Reading
      /\ Passes(wlock, wlock', "cv_release", "idle", Writing) /\ Passes(spin, spin', "cv_release", "idle", Spinning)
  BY Zenon, <1>1, <1>2, <1>6, MuFrame
<1>8. WordsTellHolders'
  BY Zenon, <1>1, <1>2, <1>7, WordsFrame DEF Passes, OnCv, RunningOnce
<1>9. QueueIsHandedOver("cv_waiters", "cv", cv_spin, OnCv)'
  BY Zenon, <1>1, <1>2, <1>3 DEF QueueIsHandedOver, Published, Goes, OnCv, WordsTellHolders,
     OneInside
<1>10. OnceIsHandedOver'
  BY SMTT(30), <1>1, <1>2, <1>6, OnceFrame DEF RunningOnce
<1> QED
  BY Zenon, <1>4, <1>5, <1>7, <1>8, <1>9, <1>10

\* A once is claimed.
LEMMA OnceBeginInv ==
  ASSUME MemInv, order' = order, NEW t \in Threads, OnceBegin(t)
  PROVE  MemInv'
<1> USE DEF MemInv
<1>1. Goes(t, "idle", "once_run") /\ {"idle", "once_run"} \subseteq {"idle", "once_use"} \union OnCv \union RunningOnce
  BY Zenon, GoesFacts DEF OnceBegin, PCs, OnCv, RunningOnce
<1>2. /\ once_word = 0 /\ once_word' = 1
      /\ UNCHANGED <<order, wlock, readers, spin, queued, waiting, cv_spin, taken>>
  BY Zenon DEF OnceBegin, unchangedMu
<1>3. /\ KeepsKnown("once") /\ rel["once"] \subseteq rel'["once"]
      /\ "once" \in Atomic
  BY SMTT(30), RmwFacts, Names DEF OnceBegin, ATM_CAS_ACQ, MemTypeOK, OrdersSuffice
<1>4. MemTypeOK'
  BY SMTT(30), <1>1, <1>2, <1>3 DEF MemTypeOK, OrdersSuffice, KeepsKnown, Goes
<1>5. (\A x, l : l \in Atomic \ {"once"} => Keeps(x, l)) /\ KnownToAll'
  BY Zenon, <1>3, OperationKeeps
<1>6. /\ Keeps("data", "mu") /\ Keeps("mu_waiters", "mu") /\ \A p \in Threads : Keeps(p, p)
      /\ Keeps("cv_waiters", "cv")
  BY <1>5, Names
<1>7. /\ DataIsHandedOver' /\ WaiterIsHandedOver' /\ QueueTellsWaiters'
      /\ QueueIsHandedOver("mu_waiters", "mu", spin, Spinning)'
      /\ readers' = Cardinality({u \in Threads : pc'[u] \in Reading})
      /\ wlock' => \A u \in Threads : pc'[u] \notin Reading
      /\ Passes(wlock, wlock', "idle", "once_run", Writing) /\ Passes(spin, spin', "idle", "once_run", Spinning)
  BY Zenon, <1>1, <1>2, <1>6, MuFrame
<1>8. WordsTellHolders'
  BY <1>1, <1>2, <1>7, WordsFrame DEF Passes, OnCv, RunningOnce
<1>9. QueueIsHandedOver("cv_waiters", "cv", cv_spin, OnCv)'
  BY Zenon, <1>1, <1>2, <1>6, CvQueueFrame DEF OnCv
<1>10. OnceIsHandedOver'
  BY <1>1, <1>2, <1>3 DEF OnceIsHandedOver, KeepsKnown, Goes
<1> QED
  BY Zenon, <1>4, <1>5, <1>7, <1>8, <1>9, <1>10

\* The function of a once initializes.
LEMMA OnceRunInv ==
  ASSUME MemInv, order' = order, NEW t \in Threads, OnceRun(t)
  PROVE  MemInv'
<1> USE DEF MemInv
<1>1. Goes(t, "once_run", "once_store") /\ {"once_run", "once_store"} \subseteq {"idle", "once_use"} \union OnCv \union RunningOnce
  BY Zenon, GoesFacts DEF OnceRun, PCs, OnCv, RunningOnce
<1>2. /\ UNCHANGED <<order, wlock, readers, spin, queued, waiting, cv_spin, once_word, taken>>
  BY Zenon DEF OnceRun, unchangedMu
<1>3. Touch(t, {"init"}, "w") /\ {"init"} \in SUBSET Plain
  BY Zenon, Names DEF OnceRun
<1>4. MemTypeOK'
  BY Zenon, <1>1, <1>2, <1>3, TouchFacts DEF MemTypeOK, OrdersSuffice, Goes
<1>5. (\A x \in Plain \ {"init"}, l \in Atomic : Keeps(x, l)) /\ KnownToAll'
  BY Zenon, <1>3, AccessKeeps
<1>6. /\ Keeps("data", "mu") /\ Keeps("mu_waiters", "mu") /\ \A p \in Threads : Keeps(p, p)
      /\ Keeps("cv_waiters", "cv")
  BY Zenon, <1>5, Names
<1>7. /\ DataIsHandedOver' /\ WaiterIsHandedOver' /\ QueueTellsWaiters'
      /\ QueueIsHandedOver("mu_waiters", "mu", spin, Spinning)'
      /\ readers' = Cardinality({u \in Threads : pc'[u] \in Reading})
      /\ wlock' => \A u \in Threads : pc'[u] \notin Reading
      /\ Passes(wlock, wlock', "once_run", "once_store", Writing) /\ Passes(spin, spin', "once_run", "once_store", Spinning)
  BY Zenon, <1>1, <1>2, <1>6, MuFrame
<1>8. WordsTellHolders'
  BY Zenon, <1>1, <1>2, <1>7, WordsFrame DEF Passes, OnCv, RunningOnce
<1>9. QueueIsHandedOver("cv_waiters", "cv", cv_spin, OnCv)'
  BY Zenon, <1>1, <1>2, <1>6, CvQueueFrame DEF OnCv
<1>10. OnceIsHandedOver'
  <2>1. \A u, v \in Threads :
          /\ u # t /\ <<u, "init", "w">> \in know[v] => <<u, "init", "w">> \in know'[v]
          /\ <<t, "init", "w">> \in know'[t]
    <3> DEFINE xs == {"init"}
    <3>1. Touch(t, xs, "w") /\ xs \in SUBSET Plain /\ "init" \in Plain
      BY Zenon, <1>3
    <3> HIDE DEF xs
    <3> QED
      BY Zenon, <1>5, <3>1, TouchFacts DEF KnownToAll
  <2>2. once_word = 1
    BY Zenon, <1>1 DEF Goes, RunningOnce, WordsTellHolders, OneInside
  <2>3. \A v \in Threads : pc'[v] \in RunningOnce \union {"once_use"} => v = t
    BY <1>1, <2>2 DEF Goes, RunningOnce, WordsTellHolders, OneInside
  <2>4. \A u \in Threads : <<u, "init", "w">> \in know'[t]
    BY Zenon, <1>1, <2>1 DEF OnceIsHandedOver, Goes, RunningOnce
  <2>5. once_word' # 0 /\ once_word' # 2
    BY <1>2, <2>2
  <2> QED
    BY Zenon, <2>3, <2>4, <2>5 DEF OnceIsHandedOver
<1> QED
  BY Zenon, <1>4, <1>5, <1>7, <1>8, <1>9, <1>10

\* The release store of 2 publishes what the function did.
LEMMA OnceStoreInv ==
  ASSUME MemInv, order' = order, NEW t \in Threads, OnceStore(t)
  PROVE  MemInv'
<1> USE DEF MemInv
<1>1. Goes(t, "once_store", "idle") /\ {"once_store", "idle"} \subseteq {"idle", "once_use"} \union OnCv \union RunningOnce
  BY Zenon, GoesFacts DEF OnceStore, PCs, OnCv, RunningOnce
<1>2. /\ once_word' = 2
      /\ UNCHANGED <<order, wlock, readers, spin, queued, waiting, cv_spin, taken>>
  BY Zenon DEF OnceStore, unchangedMu
<1>3. /\ KeepsKnown("once") /\ know' = know /\ rel'["once"] = know[t]
      /\ "once" \in Atomic
  BY SMTT(30), StoreFacts, Names DEF OnceStore, ATM_STORE_REL, MemTypeOK, OrdersSuffice
<1>4. MemTypeOK'
  BY SMTT(30), <1>1, <1>2, <1>3 DEF MemTypeOK, OrdersSuffice, KeepsKnown, Goes
<1>5. (\A x, l : l \in Atomic \ {"once"} => Keeps(x, l)) /\ KnownToAll'
  BY Zenon, <1>3, OperationKeeps
<1>6. /\ Keeps("data", "mu") /\ Keeps("mu_waiters", "mu") /\ \A p \in Threads : Keeps(p, p)
      /\ Keeps("cv_waiters", "cv")
  BY <1>5, Names
<1>7. /\ DataIsHandedOver' /\ WaiterIsHandedOver' /\ QueueTellsWaiters'
      /\ QueueIsHandedOver("mu_waiters", "mu", spin, Spinning)'
      /\ readers' = Cardinality({u \in Threads : pc'[u] \in Reading})
      /\ wlock' => \A u \in Threads : pc'[u] \notin Reading
      /\ Passes(wlock, wlock', "once_store", "idle", Writing) /\ Passes(spin, spin', "once_store", "idle", Spinning)
  BY Zenon, <1>1, <1>2, <1>6, MuFrame
<1>8. WordsTellHolders'
  BY <1>1, <1>2, <1>7, WordsFrame DEF Passes, OnCv, RunningOnce
<1>9. QueueIsHandedOver("cv_waiters", "cv", cv_spin, OnCv)'
  BY Zenon, <1>1, <1>2, <1>6, CvQueueFrame DEF OnCv
<1>10. OnceIsHandedOver'
  <2>1. \A u \in Threads : <<u, "init", "w">> \in rel'["once"]
    BY Zenon, <1>1, <1>3 DEF OnceIsHandedOver, Goes, RunningOnce
  <2>2. once_word' # 0
    BY <1>2
  <2>3. \A u, v \in Threads : pc'[v] \in RunningOnce \union {"once_use"} => <<u, "init", "w">> \in know'[v]
    BY Zenon, <1>1, <1>3 DEF OnceIsHandedOver, Goes, RunningOnce
  <2> QED
    BY Zenon, <2>1, <2>2, <2>3 DEF OnceIsHandedOver
<1> QED
  BY Zenon, <1>4, <1>5, <1>7, <1>8, <1>9, <1>10

\* A once found done by an acquiring load.
LEMMA OnceTestInv ==
  ASSUME MemInv, order' = order, NEW t \in Threads, OnceTest(t)
  PROVE  MemInv'
<1> USE DEF MemInv
<1>1. Goes(t, "idle", "once_use") /\ {"idle", "once_use"} \subseteq {"idle", "once_use"} \union OnCv \union RunningOnce
  BY Zenon, GoesFacts DEF OnceTest, PCs, OnCv, RunningOnce
<1>2. /\ once_word = 2
      /\ UNCHANGED <<order, wlock, readers, spin, queued, waiting, cv_spin, once_word, taken>>
  BY Zenon DEF OnceTest, unchangedMu
<1>3. /\ KeepsKnown("once") /\ rel' = rel /\ rel["once"] \subseteq know'[t]
      /\ "once" \in Atomic
  BY SMTT(30), LoadFacts, Names DEF OnceTest, ATM_LOAD_ACQ, MemTypeOK, OrdersSuffice
<1>4. MemTypeOK'
  BY SMTT(30), <1>1, <1>2, <1>3 DEF MemTypeOK, OrdersSuffice, KeepsKnown, Goes
<1>5. (\A x, l : l \in Atomic \ {"once"} => Keeps(x, l)) /\ KnownToAll'
  BY Zenon, <1>3, OperationKeeps
<1>6. /\ Keeps("data", "mu") /\ Keeps("mu_waiters", "mu") /\ \A p \in Threads : Keeps(p, p)
      /\ Keeps("cv_waiters", "cv")
  BY <1>5, Names
<1>7. /\ DataIsHandedOver' /\ WaiterIsHandedOver' /\ QueueTellsWaiters'
      /\ QueueIsHandedOver("mu_waiters", "mu", spin, Spinning)'
      /\ readers' = Cardinality({u \in Threads : pc'[u] \in Reading})
      /\ wlock' => \A u \in Threads : pc'[u] \notin Reading
      /\ Passes(wlock, wlock', "idle", "once_use", Writing) /\ Passes(spin, spin', "idle", "once_use", Spinning)
  BY Zenon, <1>1, <1>2, <1>6, MuFrame
<1>8. WordsTellHolders'
  BY Zenon, <1>1, <1>2, <1>7, WordsFrame DEF Passes, OnCv, RunningOnce
<1>9. QueueIsHandedOver("cv_waiters", "cv", cv_spin, OnCv)'
  BY Zenon, <1>1, <1>2, <1>6, CvQueueFrame DEF OnCv
<1>10. OnceIsHandedOver'
  BY Zenon, <1>1, <1>2, <1>3 DEF OnceIsHandedOver, KeepsKnown, Goes, RunningOnce
<1> QED
  BY Zenon, <1>4, <1>5, <1>7, <1>8, <1>9, <1>10

\* What a once has initialized is read.
LEMMA OnceUseInv ==
  ASSUME MemInv, order' = order, NEW t \in Threads, OnceUse(t)
  PROVE  MemInv'
<1> USE DEF MemInv
<1>1. Goes(t, "once_use", "idle") /\ {"once_use", "idle"} \subseteq {"idle", "once_use"} \union OnCv \union RunningOnce
  BY Zenon, GoesFacts DEF OnceUse, PCs, OnCv, RunningOnce
<1>2. /\ UNCHANGED <<order, wlock, readers, spin, queued, waiting, cv_spin, once_word, taken>>
  BY Zenon DEF OnceUse, unchangedMu
<1>3. Touch(t, {"init"}, "r") /\ {"init"} \in SUBSET Plain
  BY Zenon, Names DEF OnceUse
<1>4. MemTypeOK'
  BY Zenon, <1>1, <1>2, <1>3, TouchFacts DEF MemTypeOK, OrdersSuffice, Goes
<1>5. (\A x \in Plain \ {"init"}, l \in Atomic : Keeps(x, l)) /\ KnownToAll'
  BY Zenon, <1>3, AccessKeeps
<1>6. /\ Keeps("data", "mu") /\ Keeps("mu_waiters", "mu") /\ \A p \in Threads : Keeps(p, p)
      /\ Keeps("cv_waiters", "cv")
  BY Zenon, <1>5, Names
<1>7. /\ DataIsHandedOver' /\ WaiterIsHandedOver' /\ QueueTellsWaiters'
      /\ QueueIsHandedOver("mu_waiters", "mu", spin, Spinning)'
      /\ readers' = Cardinality({u \in Threads : pc'[u] \in Reading})
      /\ wlock' => \A u \in Threads : pc'[u] \notin Reading
      /\ Passes(wlock, wlock', "once_use", "idle", Writing) /\ Passes(spin, spin', "once_use", "idle", Spinning)
  BY Zenon, <1>1, <1>2, <1>6, MuFrame
<1>8. WordsTellHolders'
  BY Zenon, <1>1, <1>2, <1>7, WordsFrame DEF Passes, OnCv, RunningOnce
<1>9. QueueIsHandedOver("cv_waiters", "cv", cv_spin, OnCv)'
  BY Zenon, <1>1, <1>2, <1>6, CvQueueFrame DEF OnCv
<1>10. OnceIsHandedOver'
  <2>1. \A u, v \in Threads :
          /\ <<u, "init", "w">> \in know[v] => <<u, "init", "w">> \in know'[v]
          /\ <<u, "init", "w">> \in rel["once"] => <<u, "init", "w">> \in rel'["once"]
    <3> DEFINE xs == {"init"}
    <3>1. Touch(t, xs, "r") /\ xs \in SUBSET Plain /\ "init" \in Plain /\ "once" \in Atomic
      BY Zenon, <1>3, Names
    <3> HIDE DEF xs
    <3> QED
      BY Zenon, <3>1, TouchFacts
  <2> QED
    BY Zenon, <1>1, <1>2, <2>1 DEF OnceIsHandedOver, Goes, RunningOnce
<1> QED
  BY Zenon, <1>4, <1>5, <1>7, <1>8, <1>9, <1>10

-----------------------------------------------------------------------------

\* Each platform's header gives the orders that the protocols count on.
LEMMA HeadersSuffice == MemInit => OrdersSuffice
BY SMTT(30) DEF MemInit, OrdersSuffice, c11, cpp11, gcc_new, gcc_new_debug, gcc_old, macos,
   netbsd,
   win32, Fenced, Relaxed, Acquire, Release, AcqRel

\* At the start all threads know of everything.
LEMMA InitInv == MemInit => MemInv
<1> SUFFICES ASSUME MemInit PROVE MemInv
  BY Zenon
<1>0. /\ know = [t \in Threads |-> Accesses] /\ rel = [l \in Atomic |-> {}]
      /\ wlock = FALSE /\ readers = 0 /\ spin = FALSE /\ queued = {}
      /\ waiting = [t \in Threads |-> FALSE] /\ cv_spin = FALSE /\ once_word = 0
      /\ pc = [t \in Threads |-> "idle"] /\ taken = [t \in Threads |-> NoThread]
  BY Zenon DEF MemInit
<1>1. \A t \in Threads : know[t] = Accesses /\ pc[t] = "idle" /\ taken[t] = NoThread
  BY Zenon, <1>0
<1>2. \A t \in Threads, x \in Plain, h \in {"r", "w"} : <<t, x, h>> \in Accesses
  BY Zenon DEF Accesses
<1>3. MemTypeOK
  <2>1. readers \in Nat /\ once_word \in 0..2
    BY <1>0
  <2>2. "idle" \in PCs
    BY Zenon DEF PCs
  <2> QED
    BY Zenon, <1>0, <2>1, <2>2, HeadersSuffice DEF MemTypeOK
<1>4. WordsTellHolders
  <2>1. {t \in Threads : pc[t] \in Reading} = {}
    BY Zenon, <1>1 DEF Reading
  <2> QED
    BY <1>0, <1>1, <2>1, FS_EmptySet
       DEF WordsTellHolders, OneInside, Writing, Reading, Spinning, OnCv, RunningOnce
<1>5. QueueTellsWaiters
  BY Zenon, <1>0, <1>1 DEF QueueTellsWaiters
<1>6. KnownToAll
  BY Zenon, <1>1, <1>2 DEF KnownToAll
<1>7. DataIsHandedOver
  BY Zenon, <1>1, <1>2, Names DEF DataIsHandedOver, Published
<1>8. /\ QueueIsHandedOver("mu_waiters", "mu", spin, Spinning)
      /\ QueueIsHandedOver("cv_waiters", "cv", cv_spin, OnCv)
  BY Zenon, <1>1, <1>2, Names DEF QueueIsHandedOver, Published
<1>9. WaiterIsHandedOver
  BY Zenon, <1>1, <1>2, Names DEF WaiterIsHandedOver
<1>10. OnceIsHandedOver
  <2>1. once_word # 2
    BY <1>0
  <2> QED
    BY Zenon, <1>1, <1>2, <2>1, Names DEF OnceIsHandedOver, RunningOnce
<1> QED
  BY Zenon, <1>3, <1>4, <1>5, <1>6, <1>7, <1>8, <1>9, <1>10 DEF MemInv

\* Every step keeps the invariant.
LEMMA NextInv == MemInv /\ [MemNext]_memVars => MemInv'
<1> SUFFICES ASSUME MemInv, [MemNext]_memVars PROVE MemInv'
  OBVIOUS
<1>1. CASE UNCHANGED memVars
  BY ZenonT(30), <1>1 DEF memVars, MemInv, MemTypeOK, OrdersSuffice, WordsTellHolders,
     OneInside,
     QueueTellsWaiters, KnownToAll, DataIsHandedOver, QueueIsHandedOver, Published,
     WaiterIsHandedOver, OnceIsHandedOver
<1>2. ASSUME order' = order, NEW t \in Threads, MuStep(t) PROVE MemInv'
  BY SMTT(30), <1>2, LockInv, RlockInv, SectionInv, UnlockInv, RunlockInv, LsSpinInv, LsFlagInv,
     LsInsertInv, ReleaseSpinlockInv, LsWaitInv, ReuseInv, UsSpinInv, UsRemoveInv, UsWakeInv
     DEF MuStep
<1>3. ASSUME order' = order, NEW t \in Threads, CvStep(t) PROVE MemInv'
  BY Zenon, <1>3, SpinInv, CvSectionInv, CvReleaseInv DEF CvStep
<1>4. ASSUME order' = order, NEW t \in Threads, OnceStep(t) PROVE MemInv'
  BY Zenon, <1>4, OnceBeginInv, OnceRunInv, OnceStoreInv, OnceTestInv, OnceUseInv DEF OnceStep
<1> QED
  BY Zenon, <1>1, <1>2, <1>3, <1>4 DEF MemNext

\* The invariant orders the accesses that are about to be made.
LEMMA InvOrders == MemInv => PlainAccessesAreOrdered
<1> SUFFICES ASSUME MemInv PROVE PlainAccessesAreOrdered
  BY Zenon
<1> USE DEF MemInv, Ordered
<1>1. ProtectedDataIsOrdered
  BY Zenon DEF ProtectedDataIsOrdered, DataIsHandedOver, Writing, Reading
<1>2. WaiterQueueIsOrdered
  BY Zenon, Names DEF WaiterQueueIsOrdered, QueueIsHandedOver, Spinning, KnownToAll
<1>3. WaiterReuseIsOrdered
  BY Zenon, Names DEF WaiterReuseIsOrdered, WaiterIsHandedOver, KnownToAll
<1>4. CvQueueIsOrdered
  BY Zenon, Names DEF CvQueueIsOrdered, QueueIsHandedOver, OnCv, KnownToAll
<1>5. OnceIsOrdered
  BY Zenon DEF OnceIsOrdered, OnceIsHandedOver
<1> QED
  BY Zenon, <1>1, <1>2, <1>3, <1>4, <1>5 DEF PlainAccessesAreOrdered

\* With the orders of any of the headers and any number of threads, the plain
\* accesses of the mutex, its queue, the waiters, a cv's queue and a once are ordered
\* by the atomic operations: there is no data race.
THEOREM NoDataRace == MemSpec => []PlainAccessesAreOrdered
<1>1. MemSpec => []MemInv
  BY InitInv, NextInv, PTL DEF MemSpec
<1> QED
  BY <1>1, InvOrders, PTL
=============================================================================
