------------------------------ MODULE MemOrder ------------------------------
(***************************************************************************)
(* The memory orders of the atomic operations, as each platform's atomic.h *)
(* gives them, that internal/mu.c, common.c, cv.c and once.c use to hand   *)
(* plain memory from thread to thread.                                     *)
(*                                                                         *)
(* Other modules take memory to be sequentially consistent, which the C++  *)
(* model gives only to programs whose plain accesses are ordered by        *)
(* synchronization.  That is checked here.  The last access of each thread *)
(* to each plain object is tracked through acquire and release operations: *)
(* know[t] holds the accesses that happen before what t does next, and     *)
(* rel[l] those that a thread which acquires from l learns of.             *)
(*                                                                         *)
(* The protocols are reduced to the accesses: a mutex with its waiter queue*)
(* and the spinlock bit in the same word, a waiter's flag, a cv's spinlock,*)
(* and a once.                                                             *)
(***************************************************************************)
EXTENDS Integers, FiniteSets

CONSTANTS
  Threads,
  NoThread,
  MaxMade   \* bound: the calls of each thread

\* A thread has one waiter, which is none of the objects named below.
ASSUME MemAssumption ==
  /\ IsFiniteSet(Threads) /\ NoThread \notin Threads
  /\ {"data", "mu_waiters", "cv_waiters", "init", "mu", "cv", "once"} \intersect Threads = {}

\* Plain objects and atomic words.  A thread names its waiter, and the waiter's flag.
Plain == {"data", "mu_waiters", "cv_waiters", "init"} \union Threads
Atomic == {"mu", "cv", "once"} \union Threads

\* The last access of a thread to an object, reading or writing.
Accesses == Threads \X Plain \X {"r", "w"}

VARIABLES
  order,                 \* the orders of the operations: a platform's header
  protocol,              \* "mu", "cv" or "once": what the threads use
  know, rel,
  wlock, readers, spin,  \* the mutex word
  queued,                 \* the threads in its queue
  waiting,               \* their waiting flags
  cv_spin, once_word,
  pc,
  taken,                 \* the waiter that an unlock removed from the queue
  made

memVars == <<order, protocol, know, rel, wlock, readers, spin, queued, waiting, cv_spin, once_word, pc, taken, made>>

----------------------------------------------------------------------------
(* The orders of each header.  ATM_CAS, which orders nothing on some of    *)
(* them, is used only for counters and is left out.                        *)

Relaxed == {}
Acquire == {"acq"}
Release == {"rel"}
AcqRel == {"acq", "rel"}

\* An operation with a barrier before it, or one after it.
Fenced(before, op, after) ==
  op \union (IF before THEN Release ELSE {}) \union (IF after THEN Acquire ELSE {})

c11 == [cas_acq |-> Acquire, cas_rel |-> Release, cas_relacq |-> AcqRel,
        load |-> Relaxed, load_acq |-> Acquire, store |-> Relaxed, store_rel |-> Release]

cpp11 == [cas_acq |-> Acquire, cas_rel |-> Release, cas_relacq |-> AcqRel,
          load |-> Relaxed, load_acq |-> Acquire, store |-> Relaxed, store_rel |-> Release]

gcc_new == [cas_acq |-> Acquire, cas_rel |-> Release, cas_relacq |-> AcqRel,
            load |-> Relaxed, load_acq |-> Acquire, store |-> Relaxed, store_rel |-> Release]

\* The same operations; what is logged about them is left out.
gcc_new_debug == [cas_acq |-> Acquire, cas_rel |-> Release, cas_relacq |-> AcqRel,
                  load |-> Relaxed, load_acq |-> Acquire, store |-> Relaxed, store_rel |-> Release]

\* A __sync operation is a full barrier.  ATM_LD_ACQ_ and ATM_ST_REL_ keep only the
\* compiler from reordering where the hardware does not.
gcc_old == [cas_acq |-> AcqRel, cas_rel |-> AcqRel, cas_relacq |-> AcqRel,
            load |-> Relaxed, load_acq |-> Fenced(FALSE, Relaxed, TRUE),
            store |-> Relaxed, store_rel |-> Fenced(TRUE, Relaxed, FALSE)]

\* OSAtomicCompareAndSwap32Barrier
macos == [cas_acq |-> AcqRel, cas_rel |-> AcqRel, cas_relacq |-> AcqRel,
          load |-> Relaxed, load_acq |-> Fenced(FALSE, Relaxed, TRUE),
          store |-> Relaxed, store_rel |-> Fenced(TRUE, Relaxed, FALSE)]

\* InterlockedCompareExchange
win32 == [cas_acq |-> AcqRel, cas_rel |-> AcqRel, cas_relacq |-> AcqRel,
          load |-> Relaxed, load_acq |-> Fenced(FALSE, Relaxed, TRUE),
          store |-> Relaxed, store_rel |-> Fenced(TRUE, Relaxed, FALSE)]

\* membar_exit before, membar_enter or membar_sync after.
netbsd ==
  [cas_acq |-> Fenced(FALSE, Relaxed, TRUE), cas_rel |-> Fenced(TRUE, Relaxed, FALSE),
   cas_relacq |-> Fenced(TRUE, Relaxed, TRUE),
   load |-> Relaxed, load_acq |-> Fenced(FALSE, Relaxed, TRUE),
   store |-> Relaxed, store_rel |-> Fenced(TRUE, Relaxed, FALSE)]

MemInit ==
  /\ order \in {c11, cpp11, gcc_new, gcc_new_debug, gcc_old, macos, netbsd, win32}
  /\ protocol \in {"mu", "cv", "once"}
  /\ know = [t \in Threads |-> Accesses] /\ rel = [l \in Atomic |-> {}]
  /\ wlock = FALSE /\ readers = 0 /\ spin = FALSE /\ queued = {}
  /\ waiting = [t \in Threads |-> FALSE] /\ cv_spin = FALSE /\ once_word = 0
  /\ pc = [t \in Threads |-> "idle"] /\ taken = [t \in Threads |-> NoThread]
  /\ made = [t \in Threads |-> 0]

----------------------------------------------------------------------------
(* Atomic operations.  A read-modify-write continues the release sequence  *)
(* it finds; a store ends it.                                              *)

Learn(t, l, ord) == know' = [know EXCEPT ![t] = @ \union (IF "acq" \in ord THEN rel[l] ELSE {})]
Tell(t, ord) == IF "rel" \in ord THEN know[t] ELSE {}

Rmw(t, l, ord) == Learn(t, l, ord) /\ rel' = [rel EXCEPT ![l] = @ \union Tell(t, ord)]
LoadOp(t, l, ord) == Learn(t, l, ord) /\ UNCHANGED rel
StoreOp(t, l, ord) == rel' = [rel EXCEPT ![l] = Tell(t, ord)] /\ UNCHANGED know

ATM_CAS_ACQ(t, l) == Rmw(t, l, order.cas_acq)

ATM_CAS_REL(t, l) == Rmw(t, l, order.cas_rel)

\* Mutant: only a release.
ATM_CAS_RELonly(t, l) == Rmw(t, l, order.cas_rel)

ATM_CAS_RELACQ(t, l) == Rmw(t, l, order.cas_relacq)

ATM_LOAD(t, l) == LoadOp(t, l, order.load)

ATM_LOAD_ACQ(t, l) == LoadOp(t, l, order.load_acq)

ATM_STORE(t, l) == StoreOp(t, l, order.store)

ATM_STORE_REL(t, l) == StoreOp(t, l, order.store_rel)

\* t accesses the objects xs: nobody else has heard of that.
Touch(t, xs, how) ==
  LET mine == {<<t, x, how>> : x \in xs} IN
  /\ know' = [u \in Threads |-> IF u = t THEN know[u] \union mine ELSE know[u] \ mine]
  /\ rel' = [l \in Atomic |-> rel[l] \ mine]

GotoPc(t, l) == pc' = [pc EXCEPT ![t] = l]
From(t, l, m) ==
  /\ pc[t] = l /\ GotoPc(t, m)
  /\ IF l = "idle" THEN made[t] < MaxMade /\ made' = [made EXCEPT ![t] = @ + 1] ELSE UNCHANGED made

----------------------------------------------------------------------------
(* The mutex                                                               *)

nsync_mu_lock(t) ==
  /\ From(t, "idle", "write") /\ ~wlock /\ readers = 0
  /\ wlock' = TRUE /\ ATM_CAS_ACQ(t, "mu")
  /\ UNCHANGED <<readers, spin, queued, waiting, cv_spin, once_word, taken>>

nsync_mu_rlock(t) ==
  /\ From(t, "idle", "read") /\ ~wlock
  /\ readers' = readers + 1 /\ ATM_CAS_ACQ(t, "mu")
  /\ UNCHANGED <<wlock, spin, queued, waiting, cv_spin, once_word, taken>>

CriticalSection(t) ==
  /\ \/ From(t, "write", "unlock") /\ Touch(t, {"data"}, "w")
     \/ From(t, "read", "runlock") /\ Touch(t, {"data"}, "r")
  /\ UNCHANGED <<wlock, readers, spin, queued, waiting, cv_spin, once_word, taken>>

nsync_mu_unlock(t) ==
  /\ From(t, "unlock", "idle") /\ wlock' = FALSE /\ ATM_CAS_REL(t, "mu")
  /\ UNCHANGED <<readers, spin, queued, waiting, cv_spin, once_word, taken>>

nsync_mu_runlock(t) ==
  /\ From(t, "runlock", "idle") /\ readers' = readers - 1 /\ ATM_CAS_REL(t, "mu")
  /\ UNCHANGED <<wlock, spin, queued, waiting, cv_spin, once_word, taken>>

\* nsync_mu_lock_slow_ on a mutex that is held: take the spinlock, ...
LsSpin(t) ==
  /\ From(t, "idle", "ls_queue") /\ (wlock \/ readers > 0) /\ ~spin
  /\ spin' = TRUE /\ ATM_CAS_ACQ(t, "mu")
  /\ UNCHANGED <<wlock, readers, queued, waiting, cv_spin, once_word, taken>>

\* ... set the flag, ...
LsFlag(t) ==
  /\ From(t, "ls_queue", "ls_insert")
  /\ waiting' = [waiting EXCEPT ![t] = TRUE] /\ ATM_STORE(t, t)
  /\ UNCHANGED <<wlock, readers, spin, queued, cv_spin, once_word, taken>>

\* ... enter the queue, ...
LsInsert(t) ==
  /\ From(t, "ls_insert", "ls_release")
  /\ queued' = queued \union {t} /\ Touch(t, {"mu_waiters", t}, "w")
  /\ UNCHANGED <<wlock, readers, spin, waiting, cv_spin, once_word, taken>>

\* ... release the spinlock and wait.
ReleaseSpinlock(t) ==
  /\ From(t, "ls_release", "ls_wait") \/ From(t, "us_release", "us_wake")
  /\ spin' = FALSE /\ ATM_CAS_REL(t, "mu")
  /\ UNCHANGED <<wlock, readers, queued, waiting, cv_spin, once_word, taken>>

LsWait(t) ==
  /\ From(t, "ls_wait", "reuse") /\ ~waiting[t] /\ ATM_LOAD_ACQ(t, t)
  /\ UNCHANGED <<wlock, readers, spin, queued, waiting, cv_spin, once_word, taken>>

\* The waiter is used again.
Reuse(t) ==
  /\ From(t, "reuse", "idle") /\ Touch(t, {t}, "w")
  /\ UNCHANGED <<wlock, readers, spin, queued, waiting, cv_spin, once_word, taken>>

\* nsync_mu_unlock_slow_: release the mutex and take the spinlock at once, ...
UsSpin(t) ==
  /\ ~spin /\ queued # {}
  /\ \/ From(t, "unlock", "us_queue") /\ wlock' = FALSE /\ UNCHANGED readers
     \/ From(t, "runlock", "us_queue") /\ readers = 1 /\ readers' = 0 /\ UNCHANGED wlock
  /\ spin' = TRUE /\ ATM_CAS_RELACQ(t, "mu")
  /\ UNCHANGED <<queued, waiting, cv_spin, once_word, taken>>

\* ... take a waiter out of the queue, ...
UsRemove(t) ==
  /\ From(t, "us_queue", "us_release")
  /\ \E p \in queued :
       /\ queued' = queued \ {p} /\ taken' = [taken EXCEPT ![t] = p]
       /\ Touch(t, {"mu_waiters", p}, "w")
  /\ UNCHANGED <<wlock, readers, spin, waiting, cv_spin, once_word>>

\* ... and, after the release of the spinlock, wake it.
UsWake(t) ==
  /\ From(t, "us_wake", "idle")
  /\ waiting' = [waiting EXCEPT ![taken[t]] = FALSE] /\ ATM_STORE_REL(t, taken[t])
  /\ taken' = [taken EXCEPT ![t] = NoThread]
  /\ UNCHANGED <<wlock, readers, spin, queued, cv_spin, once_word>>

----------------------------------------------------------------------------
(* A critical section on a cv, between nsync_spin_test_and_set_ and a      *)
(* release store; and a once.                                              *)

unchangedMu == UNCHANGED <<wlock, readers, spin, queued, waiting, taken>>

nsync_spin_test_and_set_(t) ==
  /\ From(t, "idle", "cv_queue") /\ ~cv_spin
  /\ cv_spin' = TRUE /\ ATM_CAS_ACQ(t, "cv") /\ UNCHANGED once_word /\ unchangedMu

CvSection(t) ==
  /\ From(t, "cv_queue", "cv_release")
  /\ Touch(t, {"cv_waiters"}, "w") /\ UNCHANGED <<cv_spin, once_word>> /\ unchangedMu

CvRelease(t) ==
  /\ From(t, "cv_release", "idle")
  /\ cv_spin' = FALSE /\ ATM_STORE_REL(t, "cv") /\ UNCHANGED once_word /\ unchangedMu

OnceBegin(t) ==
  /\ From(t, "idle", "once_run") /\ once_word = 0
  /\ once_word' = 1 /\ ATM_CAS_ACQ(t, "once") /\ UNCHANGED cv_spin /\ unchangedMu

OnceRun(t) ==
  /\ From(t, "once_run", "once_store")
  /\ Touch(t, {"init"}, "w") /\ UNCHANGED <<cv_spin, once_word>> /\ unchangedMu

OnceStore(t) ==
  /\ From(t, "once_store", "idle")
  /\ once_word' = 2 /\ ATM_STORE_REL(t, "once") /\ UNCHANGED cv_spin /\ unchangedMu

OnceTest(t) ==
  /\ From(t, "idle", "once_use") /\ once_word = 2
  /\ ATM_LOAD_ACQ(t, "once") /\ UNCHANGED <<cv_spin, once_word>> /\ unchangedMu

OnceUse(t) ==
  /\ From(t, "once_use", "idle")
  /\ Touch(t, {"init"}, "r") /\ UNCHANGED <<cv_spin, once_word>> /\ unchangedMu

MuStep(t) ==
  \/ nsync_mu_lock(t) \/ nsync_mu_rlock(t) \/ CriticalSection(t)
  \/ nsync_mu_unlock(t) \/ nsync_mu_runlock(t)
  \/ LsSpin(t) \/ LsFlag(t) \/ LsInsert(t) \/ ReleaseSpinlock(t) \/ LsWait(t) \/ Reuse(t)
  \/ UsSpin(t) \/ UsRemove(t) \/ UsWake(t)

CvStep(t) == nsync_spin_test_and_set_(t) \/ CvSection(t) \/ CvRelease(t)

OnceStep(t) == OnceBegin(t) \/ OnceRun(t) \/ OnceStore(t) \/ OnceTest(t) \/ OnceUse(t)

MemNext ==
  /\ UNCHANGED <<order, protocol>>
  /\ \E t \in Threads :
       \/ protocol = "mu" /\ MuStep(t)
       \/ protocol = "cv" /\ CvStep(t)
       \/ protocol = "once" /\ OnceStep(t)

MemSpec == MemInit /\ [][MemNext]_memVars

----------------------------------------------------------------------------
(* Properties: what t is about to access has been accessed by others only  *)
(* before, in the sense of the C++ memory model.                           *)

Ordered(t, x, how) ==
  \A u \in Threads \ {t} :
    <<u, x, "w">> \in know[t] /\ (how = "w" => <<u, x, "r">> \in know[t])

\* What a mutex protects is never raced for: an unlock's release CAS orders the
\* critical section before those of all later holders, through any number of
\* other threads' changes of the word and through several readers' releases.
ProtectedDataIsOrdered ==
  \A t \in Threads : /\ pc[t] = "write" => Ordered(t, "data", "w")
                     /\ pc[t] = "read" => Ordered(t, "data", "r")

\* The mutex's waiter queue is handed over by the spinlock bit of the same word,
\* which is taken with an acquire also by the CAS that releases the mutex.
WaiterQueueIsOrdered ==
  \A t \in Threads :
    pc[t] \in {"ls_insert", "us_queue"} => Ordered(t, "mu_waiters", "w")

\* A waiter may be used again once its flag is seen clear: the thread that woke it
\* has made its last access to it before it stored the flag.
WaiterReuseIsOrdered ==
  \A t \in Threads : pc[t] \in {"reuse", "ls_insert"} => Ordered(t, t, "w")

\* A cv's queue is handed over by nsync_spin_test_and_set_ and the release store.
CvQueueIsOrdered ==
  \A t \in Threads : pc[t] = "cv_queue" => Ordered(t, "cv_waiters", "w")

\* A caller whose nsync_run_once returns on the fast path sees what the function did.
OnceIsOrdered == \A t \in Threads : pc[t] = "once_use" => Ordered(t, "init", "r")

\* Plain accesses do not race: with every platform's atomic.h, the operations on
\* the words order the accesses to what a mutex protects, to queues, to waiters
\* used again and to what a once has initialized.
PlainAccessesAreOrdered ==
  /\ ProtectedDataIsOrdered /\ WaiterQueueIsOrdered /\ WaiterReuseIsOrdered
  /\ CvQueueIsOrdered /\ OnceIsOrdered

----------------------------------------------------------------------------
(* The inductive invariant: the words say who may access what, and whoever *)
(* may has heard of all earlier accesses.                                  *)

Writing == {"write", "unlock"}
Reading == {"read", "runlock"}
Spinning == {"ls_queue", "ls_insert", "ls_release", "us_queue", "us_release"}
OnCv == {"cv_queue", "cv_release"}
RunningOnce == {"once_run", "once_store"}
PCs == {"idle", "ls_wait", "reuse", "us_wake", "once_use"}
         \union Writing \union Reading \union Spinning \union OnCv \union RunningOnce

\* The operations that the protocols count on are acquires and releases.
OrdersSuffice ==
  /\ "acq" \in order.cas_acq /\ "rel" \in order.cas_rel
  /\ "acq" \in order.cas_relacq /\ "rel" \in order.cas_relacq
  /\ "acq" \in order.load_acq /\ "rel" \in order.store_rel

MemTypeOK ==
  /\ know \in [Threads -> SUBSET Accesses] /\ rel \in [Atomic -> SUBSET Accesses]
  /\ wlock \in BOOLEAN /\ readers \in Nat /\ spin \in BOOLEAN /\ cv_spin \in BOOLEAN
  /\ once_word \in 0..2
  /\ queued \in SUBSET Threads /\ waiting \in [Threads -> BOOLEAN]
  /\ pc \in [Threads -> PCs] /\ taken \in [Threads -> Threads \union {NoThread}]
  /\ OrdersSuffice

\* A bit is set exactly while one thread is in the section that it stands for.
OneInside(bit, section) ==
  /\ bit <=> \E t \in Threads : pc[t] \in section
  /\ \A t, u \in Threads : pc[t] \in section /\ pc[u] \in section => t = u

\* The words tell who holds what.
WordsTellHolders ==
  /\ OneInside(wlock, Writing) /\ OneInside(spin, Spinning)
  /\ OneInside(cv_spin, OnCv) /\ OneInside(once_word = 1, RunningOnce)
  /\ readers = Cardinality({t \in Threads : pc[t] \in Reading})
  /\ wlock => \A t \in Threads : pc[t] \notin Reading
  /\ \A t \in Threads : pc[t] = "once_use" => once_word = 2

\* A waiter is in the queue or in the hands of one waker while its owner waits.
QueueTellsWaiters ==
  /\ \A p \in queued : pc[p] \in {"ls_release", "ls_wait"} /\ waiting[p]
  /\ \A t \in Threads : pc[t] = "ls_insert" => waiting[t]
  /\ \A t \in Threads :
       /\ taken[t] # NoThread <=> pc[t] \in {"us_release", "us_wake"}
       /\ taken[t] # NoThread =>
            /\ pc[taken[t]] = "ls_wait" /\ waiting[taken[t]] /\ taken[t] \notin queued
            /\ \A u \in Threads : taken[u] = taken[t] => u = t

\* All threads have heard of the access a, or will when they acquire from l.
Published(a, l) == a \in rel[l] \/ \A t \in Threads : a \in know[t]

\* Nobody reads but what a mutex or a once protects, and a thread knows what it did.
KnownToAll ==
  \A t, u \in Threads, x \in Plain :
    /\ x \notin {"data", "init"} => <<u, x, "r">> \in know[t]
    /\ <<t, x, "r">> \in know[t] /\ <<t, x, "w">> \in know[t]

\* The accesses to what a mutex protects are known to its writer; what is not read
\* right now is published, and the readers know of all writes.
DataIsHandedOver ==
  \A u \in Threads :
    /\ \A t \in Threads :
         /\ pc[t] \in Writing => <<u, "data", "w">> \in know[t] /\ <<u, "data", "r">> \in know[t]
         /\ pc[t] \in Reading => <<u, "data", "w">> \in know[t]
    /\ ~wlock => /\ Published(<<u, "data", "w">>, "mu")
                 /\ pc[u] \in Reading \/ Published(<<u, "data", "r">>, "mu")

\* The queue x under the lock bit of the word l goes from section to section.
QueueIsHandedOver(x, l, bit, section) ==
  \A u \in Threads :
    /\ \A t \in Threads : pc[t] \in section => <<u, x, "w">> \in know[t]
    /\ ~bit => Published(<<u, x, "w">>, l)

\* The owner of a waiter knows of all accesses to it, but while it waits for that of
\* the waker, of which it learns from its flag.
WaiterIsHandedOver ==
  \A p, u \in Threads :
    \/ <<u, p, "w">> \in know[p]
    \/ pc[p] = "ls_wait" /\ taken[u] = p
    \/ pc[p] = "ls_wait" /\ ~waiting[p] /\ <<u, p, "w">> \in rel[p]

\* What a once initializes is untouched, then known to the thread that runs the
\* function, then published to those that find the once done.
OnceIsHandedOver ==
  \A u \in Threads :
    /\ once_word = 0 => \A t \in Threads : <<u, "init", "w">> \in know[t]
    /\ once_word = 2 => <<u, "init", "w">> \in rel["once"]
    /\ \A t \in Threads : pc[t] \in RunningOnce \union {"once_use"} => <<u, "init", "w">> \in know[t]

MemInv ==
  /\ MemTypeOK /\ WordsTellHolders /\ QueueTellsWaiters /\ KnownToAll /\ DataIsHandedOver
  /\ QueueIsHandedOver("mu_waiters", "mu", spin, Spinning)
  /\ QueueIsHandedOver("cv_waiters", "cv", cv_spin, OnCv)
  /\ WaiterIsHandedOver /\ OnceIsHandedOver
=============================================================================
