----------------------------- MODULE WaiterPool -----------------------------
(***************************************************************************)
(* The pool of waiter structs of internal/common.c, with the thread's own  *)
(* waiter kept in a thread-local variable or under a pthread key           *)
(* (platform/posix/src/per_thread_waiter.c).                               *)
(*                                                                         *)
(* A thread may use several waiters at once: nsync_wait_n() keeps one while*)
(* the enqueue functions it calls lock mutexes.  The first is the thread's *)
(* own; the others come from a list of free ones.  When a thread exits, the*)
(* destructors of its thread-local variables run in any order, and one of  *)
(* them may use nsync after the thread's waiter was given back.            *)
(*                                                                         *)
(* Wakers are not threads of this module: a waiter's "waiting" field is    *)
(* cleared, and its semaphore posted later, by steps of the environment.   *)
(***************************************************************************)
EXTENDS Integers, FiniteSets, SequencesExt

CONSTANTS
  Threads, Waiters,
  None,             \* NULL
  SpinLimit,        \* spins before nsync_spin_delay_ yields; 7 in the code
  Programs          \* builds and client programs, one of which is chosen at the start

\* PTHREAD_DESTRUCTOR_ITERATIONS
ASSUME ExitUsesAssumption == \A p \in Programs : p.max_exit_uses < 4

VARIABLES
  free_waiters, free_waiters_mu,
  allocated,        \* waiters returned by malloc
  flags,            \* w->flags
  waiting, sem,     \* w->nw.waiting and w->sem
  posts,            \* nsync_mu_semaphore_v calls still to come
  pt_once, keys,    \* do_once's word, and the number of keys created
  waiter_for_thread, key,  \* the thread-local variable and the key's value
  held,             \* the waiters a thread uses, the latest last
  life, uses, started,
  th,               \* the call in progress
  program

poolVars == <<free_waiters, free_waiters_mu, allocated, flags>>
semVars == <<waiting, sem, posts>>
threadVars == <<waiter_for_thread, key>>
onceVars == <<pt_once, keys>>
lifeVars == <<life, uses, started>>
vars == <<poolVars, semVars, threadVars, onceVars, held, lifeVars, th, program>>

ThreadLocal == program.thread_local    \* HAVE_THREAD_LOCAL
Sleepers == program.sleepers           \* bound: the threads that sleep on waiters
MaxHeld == program.max_held            \* bound: waiters a thread uses at once
MaxUses == program.max_uses            \* bound: calls of nsync_waiter_new_ by a running thread
MaxExitUses == program.max_exit_uses   \* bound: the same, by destructors other than waiter_destroy
MaxThreads == program.max_threads      \* bound: threads that start in place of others

Resting == [at |-> "rest", k |-> "rest", w |-> None, tw |-> None, o |-> 0, attempts |-> 0]

Init ==
  /\ program \in Programs
  /\ free_waiters = <<>> /\ free_waiters_mu = 0 /\ allocated = {}
  /\ flags = [w \in Waiters |-> {}] /\ waiting = [w \in Waiters |-> 0]
  /\ sem = [w \in Waiters |-> 0] /\ posts = [w \in Waiters |-> 0]
  /\ pt_once = 0 /\ keys = 0
  /\ waiter_for_thread = [t \in Threads |-> None] /\ key = [t \in Threads |-> None]
  /\ held = [t \in Threads |-> <<>>]
  /\ life = [t \in Threads |-> "running"] /\ uses = [t \in Threads |-> 0]
  /\ started = 0
  /\ th = [t \in Threads |-> Resting]

Set(t, x) == th' = [th EXCEPT ![t] = x]
Go(t, l) == Set(t, [th[t] EXCEPT !.at = l])

----------------------------------------------------------------------------
(* nsync_spin_test_and_set_ on free_waiters_mu.                            *)

SpinTest(test) == free_waiters_mu = 0

SpinAcquire(t, from, to) ==
  /\ th[t].at = from /\ SpinTest(1)
  /\ free_waiters_mu' = 1
  /\ Set(t, [th[t] EXCEPT !.at = to, !.attempts = 0])
  /\ UNCHANGED <<free_waiters, allocated, flags, semVars, threadVars, onceVars, held, lifeVars>>

\* nsync_spin_delay_: ever longer loops, then nsync_yield_.
SpinDelay(t) ==
  /\ th[t].at \in {"n_lock", "f_lock"} /\ ~SpinTest(1)
  /\ Set(t, [th[t] EXCEPT !.attempts = IF @ < SpinLimit THEN @ + 1 ELSE @])
  /\ UNCHANGED <<poolVars, semVars, threadVars, onceVars, held, lifeVars>>

----------------------------------------------------------------------------
(* do_once, before every use of the key.                                   *)

OnceLoad(t) ==
  /\ th[t].at = "o_load"
  /\ Set(t, [th[t] EXCEPT !.at = IF pt_once = 2 THEN th[t].k ELSE "o_cas", !.o = pt_once])
  /\ UNCHANGED <<poolVars, semVars, threadVars, onceVars, held, lifeVars>>

\* The compare-and-swap, or the load after it failed, which ends the loop.
OnceCas(t) ==
  /\ th[t].at = "o_cas"
  /\ IF th[t].o = 0 /\ pt_once = 0 THEN pt_once' = 1 /\ Go(t, "o_create")
     ELSE /\ UNCHANGED pt_once
          /\ Set(t, [th[t] EXCEPT !.at = IF th[t].o = 0 THEN "o_cas" ELSE "o_spin",
                                  !.o = pt_once])
  /\ UNCHANGED <<poolVars, semVars, threadVars, keys, held, lifeVars>>

OnceCreate(t) ==
  /\ th[t].at = "o_create"
  /\ keys' = keys + 1 /\ Go(t, "o_store")
  /\ UNCHANGED <<poolVars, semVars, threadVars, pt_once, held, lifeVars>>

OnceStore(t) ==
  /\ th[t].at = "o_store"
  /\ pt_once' = 2 /\ Go(t, "o_spin")
  /\ UNCHANGED <<poolVars, semVars, threadVars, keys, held, lifeVars>>

OnceSpin(t) ==
  /\ th[t].at = "o_spin" /\ pt_once = 2 /\ Go(t, th[t].k)
  /\ UNCHANGED <<poolVars, semVars, threadVars, onceVars, held, lifeVars>>

----------------------------------------------------------------------------
(* nsync_waiter_new_                                                       *)

\* The thread's waiter is looked up in the variable or, after do_once, under the
\* key.
NewLookup(t) ==
  /\ th[t].at = "n_lookup"
  /\ IF ThreadLocal
     THEN Set(t, [th[t] EXCEPT !.at = "n_own", !.tw = waiter_for_thread[t]])
     ELSE Set(t, [th[t] EXCEPT !.at = "o_load", !.k = "n_get"])
  /\ UNCHANGED <<poolVars, semVars, threadVars, onceVars, held, lifeVars>>

NewGet(t) ==
  /\ th[t].at = "n_get"
  /\ Set(t, [th[t] EXCEPT !.at = "n_own", !.tw = key[t]])
  /\ UNCHANGED <<poolVars, semVars, threadVars, onceVars, held, lifeVars>>

Take(t, w) ==
  /\ flags' = [flags EXCEPT ![w] = @ \union {"IN_USE"}]
  /\ held' = [held EXCEPT ![t] = Append(@, w)]

OwnIsFree(w) == flags[w] = {"RESERVED"}

\* The thread's waiter is used if it is free.
NewOwn(t) ==
  LET w == th[t].tw IN
  /\ th[t].at = "n_own"
  /\ IF w # None /\ OwnIsFree(w)
     THEN Take(t, w) /\ Set(t, Resting)
     ELSE Go(t, "n_lock") /\ UNCHANGED <<flags, held>>
  /\ UNCHANGED <<free_waiters, free_waiters_mu, allocated, semVars, threadVars, onceVars, lifeVars>>

\* nsync_dll_first_ of the free list.
NewFirst(t) ==
  /\ th[t].at = "n_first"
  /\ Set(t, [th[t] EXCEPT !.at = "n_remove",
                          !.w = IF free_waiters = <<>> THEN None ELSE free_waiters[1]])
  /\ UNCHANGED <<poolVars, semVars, threadVars, onceVars, held, lifeVars>>

\* The release store follows the removal.
NewRemove(t) ==
  /\ th[t].at = "n_remove"
  /\ free_waiters' = SelectSeq(free_waiters, LAMBDA w : w # th[t].w)
  /\ free_waiters_mu' = 0
  /\ Go(t, IF th[t].w = None THEN "n_alloc" ELSE "n_reserve")
  /\ UNCHANGED <<allocated, flags, semVars, threadVars, onceVars, held, lifeVars>>

NewAlloc(t) ==
  /\ th[t].at = "n_alloc" /\ allocated # Waiters
  /\ LET w == CHOOSE u \in Waiters : u \notin allocated IN
       /\ allocated' = allocated \union {w}
       /\ flags' = [flags EXCEPT ![w] = {}]
       /\ waiting' = [waiting EXCEPT ![w] = 0] /\ sem' = [sem EXCEPT ![w] = 0]
       /\ Set(t, [th[t] EXCEPT !.at = "n_reserve", !.w = w])
  /\ UNCHANGED <<free_waiters, free_waiters_mu, posts, threadVars, onceVars, held, lifeVars>>

\* A thread without a waiter makes this one its own.
NewReserve(t) ==
  LET w == th[t].w IN
  /\ th[t].at = "n_reserve"
  /\ IF th[t].tw = None
     THEN /\ flags' = [flags EXCEPT ![w] = @ \union {"RESERVED"}]
          /\ Set(t, [th[t] EXCEPT !.at = "o_load", !.k = "n_set"]) /\ UNCHANGED held
     ELSE Take(t, w) /\ Set(t, Resting)
  /\ UNCHANGED <<free_waiters, free_waiters_mu, allocated, semVars, threadVars, onceVars, lifeVars>>

\* nsync_set_per_thread_waiter_ after do_once, and the end of the call.
NewSet(t) ==
  /\ th[t].at = "n_set"
  /\ key' = [key EXCEPT ![t] = th[t].w]
  /\ waiter_for_thread' = IF ThreadLocal THEN [waiter_for_thread EXCEPT ![t] = th[t].w]
                          ELSE waiter_for_thread
  /\ Take(t, th[t].w) /\ Set(t, Resting)
  /\ UNCHANGED <<free_waiters, free_waiters_mu, allocated, semVars, onceVars, lifeVars>>

----------------------------------------------------------------------------
(* nsync_waiter_free_ and waiter_destroy                                   *)

GoesToPool(w) == "RESERVED" \notin flags[w]

nsync_waiter_free_(t) ==
  LET w == Last(held[t]) IN
  /\ th[t].at \in {"rest", "free"} /\ held[t] # <<>>
  /\ flags' = [flags EXCEPT ![w] = @ \ {"IN_USE"}]
  /\ held' = [held EXCEPT ![t] = Front(@)]
  /\ Set(t, IF GoesToPool(w) THEN [Resting EXCEPT !.at = "f_lock", !.w = w] ELSE Resting)
  /\ UNCHANGED <<free_waiters, free_waiters_mu, allocated, semVars, threadVars, onceVars, lifeVars>>

\* Mutant: the lock of the list is not released.
FreeInsertLocked(t) ==
  /\ th[t].at = "f_insert"
  /\ free_waiters' = <<th[t].w>> \o free_waiters
  /\ Set(t, Resting)
  /\ UNCHANGED <<free_waiters_mu, allocated, flags, semVars, threadVars, onceVars, held, lifeVars>>

FreeInsert(t) ==
  /\ th[t].at = "f_insert"
  /\ free_waiters' = <<th[t].w>> \o free_waiters
  /\ free_waiters_mu' = 0
  /\ Set(t, Resting)
  /\ UNCHANGED <<allocated, flags, semVars, threadVars, onceVars, held, lifeVars>>

\* Mutant: waiter_for_thread still points to the waiter.
ForgetNot(t) == waiter_for_thread

Forget(t) == [waiter_for_thread EXCEPT ![t] = None]

\* The key's value is cleared by the thread library before the destructor runs.
waiter_destroy(t) ==
  LET w == key[t] IN
  /\ life[t] = "exiting" /\ th[t].at = "rest" /\ held[t] = <<>> /\ w # None
  /\ key' = [key EXCEPT ![t] = None]
  /\ waiter_for_thread' = Forget(t)
  /\ flags' = [flags EXCEPT ![w] = @ \ {"RESERVED"}]
  /\ Set(t, [Resting EXCEPT !.at = "f_lock", !.w = w])
  /\ UNCHANGED <<free_waiters, free_waiters_mu, allocated, semVars, onceVars, held, lifeVars>>

----------------------------------------------------------------------------
(* The threads, the waits they make and the wakers.                        *)

\* A running thread, or a destructor of an exiting one, needs a waiter.
Use(t) ==
  /\ th[t].at = "rest" /\ Len(held[t]) < MaxHeld
  /\ uses[t] < CASE life[t] = "running" -> MaxUses
                 [] life[t] = "exiting" -> MaxExitUses
                 [] OTHER -> 0
  /\ uses' = [uses EXCEPT ![t] = @ + 1]
  /\ Set(t, [Resting EXCEPT !.at = "n_lookup"])
  /\ UNCHANGED <<poolVars, semVars, threadVars, onceVars, held, life, started>>

\* The waiter is queued somewhere.
BeginWait(t) ==
  /\ t \in Sleepers /\ life[t] = "running" /\ th[t].at = "rest" /\ held[t] # <<>>
  /\ waiting' = [waiting EXCEPT ![Last(held[t])] = 1]
  /\ Go(t, "wait")
  /\ UNCHANGED <<poolVars, sem, posts, threadVars, onceVars, held, lifeVars>>

\* while (ATM_LOAD_ACQ (&w->nw.waiting) != 0) { nsync_mu_semaphore_p (&w->sem); }
WaitTest(t) ==
  /\ th[t].at = "wait"
  /\ Go(t, IF waiting[Last(held[t])] = 0 THEN "free" ELSE "p")
  /\ UNCHANGED <<poolVars, semVars, threadVars, onceVars, held, lifeVars>>

\* Mutant: a post ends the wait.
WaitPOnce(t) ==
  /\ th[t].at = "p" /\ sem[Last(held[t])] > 0
  /\ sem' = [sem EXCEPT ![Last(held[t])] = @ - 1]
  /\ Go(t, "free")
  /\ UNCHANGED <<poolVars, waiting, posts, threadVars, onceVars, held, lifeVars>>

WaitP(t) ==
  /\ th[t].at = "p" /\ sem[Last(held[t])] > 0
  /\ sem' = [sem EXCEPT ![Last(held[t])] = @ - 1]
  /\ Go(t, "wait")
  /\ UNCHANGED <<poolVars, waiting, posts, threadVars, onceVars, held, lifeVars>>

\* A waker removes the waiter from its queue and clears "waiting" ...
Wake(w) ==
  /\ waiting[w] = 1
  /\ waiting' = [waiting EXCEPT ![w] = 0]
  /\ posts' = [posts EXCEPT ![w] = @ + 1]
  /\ UNCHANGED <<poolVars, sem, threadVars, onceVars, held, lifeVars, th>>

\* ... and posts the semaphore, which may be in use by another thread by then.
Post(w) ==
  /\ posts[w] > 0
  /\ posts' = [posts EXCEPT ![w] = @ - 1] /\ sem' = [sem EXCEPT ![w] = @ + 1]
  /\ UNCHANGED <<poolVars, waiting, threadVars, onceVars, held, lifeVars, th>>

Exit(t) ==
  /\ life[t] = "running" /\ th[t].at = "rest" /\ held[t] = <<>>
  /\ life' = [life EXCEPT ![t] = "exiting"] /\ uses' = [uses EXCEPT ![t] = 0]
  /\ UNCHANGED <<poolVars, semVars, threadVars, onceVars, held, started, th>>

\* No destructor is left to run.  The thread's variables go with it.
Die(t) ==
  /\ life[t] = "exiting" /\ th[t].at = "rest" /\ held[t] = <<>> /\ key[t] = None
  /\ life' = [life EXCEPT ![t] = "dead"]
  /\ waiter_for_thread' = [waiter_for_thread EXCEPT ![t] = None]
  /\ UNCHANGED <<poolVars, semVars, key, onceVars, held, uses, started, th>>

StartThread(t) ==
  /\ life[t] = "dead" /\ started < MaxThreads
  /\ life' = [life EXCEPT ![t] = "running"] /\ uses' = [uses EXCEPT ![t] = 0]
  /\ started' = started + 1
  /\ UNCHANGED <<poolVars, semVars, threadVars, onceVars, held, th>>

Step(t) ==
  \/ SpinAcquire(t, "n_lock", "n_first") \/ SpinAcquire(t, "f_lock", "f_insert")
  \/ SpinDelay(t)
  \/ OnceLoad(t) \/ OnceCas(t) \/ OnceCreate(t) \/ OnceStore(t) \/ OnceSpin(t)
  \/ NewLookup(t) \/ NewGet(t) \/ NewOwn(t) \/ NewFirst(t) \/ NewRemove(t)
  \/ NewAlloc(t) \/ NewReserve(t) \/ NewSet(t)
  \/ nsync_waiter_free_(t) \/ FreeInsert(t) \/ waiter_destroy(t)
  \/ WaitTest(t) \/ WaitP(t) \/ Die(t)

Client(t) == Use(t) \/ BeginWait(t) \/ Exit(t) \/ StartThread(t)

Waker(w) == Wake(w) \/ Post(w)

Stopped == (\A t \in Threads : life[t] = "dead") /\ UNCHANGED vars

Next ==
  /\ (\E t \in Threads : Step(t) \/ Client(t)) \/ (\E w \in Waiters : Waker(w)) \/ Stopped
  /\ UNCHANGED program

Spec == Init /\ [][Next]_vars

\* Every call goes on; queued waiters are woken, threads end.
FairSpec ==
  /\ Spec
  /\ \A t \in Threads : /\ WF_vars(Step(t) /\ UNCHANGED program)
                        /\ WF_vars(Exit(t) /\ UNCHANGED program)
  /\ \A w \in Waiters : /\ WF_vars(Wake(w) /\ UNCHANGED program)
                        /\ WF_vars(Post(w) /\ UNCHANGED program)

----------------------------------------------------------------------------
(* Properties                                                              *)

TypeOK ==
  /\ free_waiters \in Seq(allocated) /\ free_waiters_mu \in 0..1
  /\ allocated \subseteq Waiters
  /\ flags \in [Waiters -> SUBSET {"RESERVED", "IN_USE"}]
  /\ waiting \in [Waiters -> 0..1]
  /\ \A w \in Waiters : sem[w] \in Nat /\ posts[w] \in Nat
  /\ pt_once \in 0..2 /\ keys \in Nat
  /\ waiter_for_thread \in [Threads -> allocated \union {None}]
  /\ key \in [Threads -> allocated \union {None}]
  /\ \A t \in Threads : held[t] \in Seq(allocated) /\ th[t].attempts \in 0..SpinLimit

\* The places where w is: positions of the free list, uses by a thread, and calls
\* that are taking w from or putting it into the list.
Places(w) ==
  {<<"list", i>> : i \in {j \in DOMAIN free_waiters : free_waiters[j] = w}} \union
  UNION {{<<t, i>> : i \in {j \in DOMAIN held[t] : held[t][j] = w}} : t \in Threads} \union
  {<<t, "call">> : t \in {u \in Threads :
     /\ th[u].w = w
     /\ ~(th[u].at = "n_remove" /\ w \in ToSet(free_waiters))}}

\* nsync_waiter_new_, nsync_waiter_free_ and waiter_destroy hand every waiter to
\* one thread at a time and lose none: a waiter is in one place, or else it is the
\* idle waiter that one thread that has not ended keeps.
WaiterHasOneUser ==
  \A w \in allocated :
    \/ Cardinality(Places(w)) = 1 /\ Cardinality({t \in Threads : key[t] = w}) <= 1
    \/ /\ Places(w) = {} /\ flags[w] = {"RESERVED"}
       /\ Cardinality({t \in Threads : life[t] # "dead" /\ key[t] = w}) = 1

\* ASSERT ((w->flags & (WAITER_RESERVED|WAITER_IN_USE)) == WAITER_RESERVED) in
\* waiter_destroy, and ASSERT ((w->flags & WAITER_IN_USE) != 0) in
\* nsync_waiter_free_, hold when the functions are called.
PoolAssertionsHold ==
  \A t \in Threads :
    /\ \A i \in DOMAIN held[t] : "IN_USE" \in flags[held[t][i]]
    /\ held[t] = <<>> /\ th[t].at = "rest" /\ key[t] # None => flags[key[t]] = {"RESERVED"}

\* waiters are allocated only when the pool has none left: however many threads
\* come and go, there are never more than are in use at one time.
PoolIsReused == Cardinality(allocated) <= MaxHeld * Cardinality(Threads)

\* do_once creates one key, before anybody uses it.
KeyIsCreatedOnce ==
  /\ keys <= 1
  /\ \A t \in Threads : th[t].at \in {"n_get", "n_set"} => keys = 1

\* A thread asleep on a waiter that was woken has a post in its semaphore or on
\* its way, whatever posts meant for earlier users of the waiter did.
WokenSleeperIsPosted ==
  \A t \in Threads :
    LET w == Last(held[t]) IN
    th[t].at = "p" /\ waiting[w] = 0 => sem[w] + posts[w] > 0

\* A waiter is queued only while its thread is in the wait loop: a post meant for
\* an earlier user does not make a thread give up a waiter that is still queued.
QueuedWaiterIsHeld ==
  \A w \in Waiters :
    waiting[w] = 1 =>
      \E t \in Threads : th[t].at \in {"wait", "p"} /\ Last(held[t]) = w

\* A thread that exits gives its waiter back and ends.
ExitingThreadEnds == \A t \in Threads : life[t] = "exiting" ~> life[t] = "dead"

\* The pool hands every waiter to one thread at a time, through exits of threads
\* and calls made by their destructors: no waiter is lost or shared, no more
\* are allocated than are used at one time, the key under which threads keep theirs
\* is created once, and the assertions of common.c hold.
PoolInv ==
  TypeOK /\ WaiterHasOneUser /\ PoolAssertionsHold /\ PoolIsReused /\ KeyIsCreatedOnce

\* Posts that arrive when their waiter has a new user do no harm: the user is
\* neither left asleep once woken nor made to give up a waiter that is still queued.
LatePostsAreHarmless == WokenSleeperIsPosted /\ QueuedWaiterIsHeld
=============================================================================
