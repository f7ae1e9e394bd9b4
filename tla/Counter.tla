------------------------------ MODULE Counter ------------------------------
(***************************************************************************)
(* nsync_counter: internal/counter.c.                                      *)
(*                                                                         *)
(* counter_mu is an abstract mutual exclusion lock (Mu implements one).    *)
(* Everything but "value" and "waited" is touched only with it held, so a  *)
(* critical section is cut only where value or waited is accessed, or a    *)
(* semaphore posted.  A counter word has Width bits and wraps.             *)
(*                                                                         *)
(* The store of "waited" in counter_ready_time is relaxed, and made without*)
(* the lock: others may see it only after later loads of the thread that   *)
(* made it, but at the latest when that thread has held counter_mu.        *)
(*                                                                         *)
(* The waiters are the nw structures of nsync_wait_n (module WaitN), one   *)
(* per thread and object, with a semaphore per thread.                     *)
(***************************************************************************)
EXTENDS Integers, Sequences, FiniteSets, SequencesExt

CONSTANTS
  Threads,       \* model values
  NoThread,      \* a model value that is no thread
  Counters,      \* model values
  Width,         \* bits of a counter (32 in the code)
  MaxAdds,       \* bound: adds made by a thread
  SemMax         \* bound: count at which a semaphore stops counting

ASSUME CounterAssumption ==
  /\ NoThread \notin Threads /\ Width \in Nat \ {0} /\ MaxAdds \in Nat
  /\ SemMax \in Nat \ {0}

VARIABLES
  value, waited, counter_mu, waiters,  \* fields of each counter
  storing,                  \* the counters whose "waited" each thread has set,
                            \* while others cannot see that yet
  waiting,                  \* nw->waiting, for each thread and object
  sem,                      \* the count of each thread's semaphore
  add,                      \* locals of nsync_counter_add, for each thread
  adds,                     \* adds made by each thread
  freed,                    \* the counters that were freed
  failed                    \* what stopped the program (an ASSERT), or "none"

cntVars == <<value, waited, storing, counter_mu, waiters, add, adds, freed, failed>>

NoAdd == [at |-> "none"]

\* An unsigned integer of Width bits.
Word(x) == x % 2^Width

\* nsync_counter_new with one of some values; the rest of the counter is zero.
nsync_counter_new(values) ==
  /\ value \in [Counters -> values]
  /\ waited = [c \in Counters |-> FALSE]
  /\ counter_mu = [c \in Counters |-> NoThread]
  /\ waiters = [c \in Counters |-> <<>>]

CounterInit(values) ==
  /\ nsync_counter_new(values)
  /\ storing = [t \in Threads |-> {}]
  /\ sem = [t \in Threads |-> 0]
  /\ add = [t \in Threads |-> NoAdd]
  /\ adds = [t \in Threads |-> 0]
  /\ freed = {} /\ failed = "none"

\* From here on, others see that thread t has set c's "waited".
StoreSeen(t, c) ==
  /\ storing' = [storing EXCEPT ![t] = @ \ {c}]
  /\ waited' = [waited EXCEPT ![c] = @ \/ c \in storing[t]]

SemV(t) == sem' = [sem EXCEPT ![t] = IF @ < SemMax THEN @ + 1 ELSE @]

---------------------------------------------------------------------------
(* nsync_counter_add with delta # 0; with delta = 0 it only reads value.   *)

\* Lock, and add with a CAS.
nsync_counter_add(t, c, delta) ==
  /\ add[t].at = "none" /\ adds[t] < MaxAdds /\ c \notin freed
  /\ counter_mu[c] = NoThread
  /\ counter_mu' = [counter_mu EXCEPT ![c] = t] /\ StoreSeen(t, c)
  /\ value' = [value EXCEPT ![c] = Word(@ + delta)]
  /\ add' = [add EXCEPT ![t] = [at |-> "check", c |-> c, delta |-> delta,
                                     nw |-> NoThread]]
  /\ adds' = [adds EXCEPT ![t] = @ + 1]
  /\ UNCHANGED <<waiters, waiting, sem, freed, failed>>

\* Mutant: the increment of a counter that has been waited for is accepted.
MayBeForgotten(new, delta, w) ==
  IF delta > 0 THEN new > Word(new - delta) ELSE new < Word(new - delta)

\* The two ASSERTs, on the new value and on "waited".
MayBe(new, delta, w) ==
  IF delta > 0 THEN (new # delta \/ ~w) /\ new > Word(new - delta)
               ELSE new < Word(new - delta)

\* Load "waited" and check; then wake the waiters if the value is zero, else
\* unlock and return.
AddCheck(t) ==
  LET c == add[t].c IN
  /\ add[t].at = "check"
  /\ \/ /\ ~MayBe(value[c], add[t].delta, waited[c])
        /\ failed' = "add" /\ UNCHANGED <<add, counter_mu>>
     \/ /\ MayBe(value[c], add[t].delta, waited[c]) /\ value[c] = 0
        /\ add' = [add EXCEPT ![t].at = "wake"] /\ UNCHANGED <<failed, counter_mu>>
     \/ /\ MayBe(value[c], add[t].delta, waited[c]) /\ value[c] # 0
        /\ add' = [add EXCEPT ![t] = NoAdd]
        /\ counter_mu' = [counter_mu EXCEPT ![c] = NoThread] /\ UNCHANGED failed
  /\ UNCHANGED <<value, waited, storing, waiters, waiting, sem, adds, freed>>

MoreToWake(q) == q # <<>>

\* Dequeue the next waiter nw and clear its flag ...
AddWake(t) ==
  LET c == add[t].c  p == Head(waiters[c]) IN
  /\ add[t].at = "wake" /\ waiters[c] # <<>>
  /\ waiters' = [waiters EXCEPT ![c] = Tail(@)]
  /\ waiting' = [waiting EXCEPT ![p][c] = FALSE]
  /\ add' = [add EXCEPT ![t].at = "v", ![t].nw = p]
  /\ UNCHANGED <<value, waited, storing, counter_mu, sem, adds, freed, failed>>

\* ... then read nw->sem and post it.
AddV(t) ==
  /\ add[t].at = "v"
  /\ SemV(add[t].nw)
  /\ add' = [add EXCEPT ![t].at = IF MoreToWake(waiters[add[t].c]) THEN "wake" ELSE "unlock",
                        ![t].nw = NoThread]
  /\ UNCHANGED <<value, waited, storing, counter_mu, waiters, waiting, adds, freed, failed>>

AddUnlock(t) ==
  /\ add[t].at = "unlock" \/ (add[t].at = "wake" /\ waiters[add[t].c] = <<>>)
  /\ counter_mu' = [counter_mu EXCEPT ![add[t].c] = NoThread]
  /\ add' = [add EXCEPT ![t] = NoAdd]
  /\ UNCHANGED <<value, waited, storing, waiters, waiting, sem, adds, freed, failed>>

\* nsync_counter_free: "no concurrent or future operations are applied to c".
nsync_counter_free(c) ==
  /\ c \notin freed /\ counter_mu[c] = NoThread
  /\ IF waiters[c] = <<>> THEN freed' = freed \union {c} /\ UNCHANGED failed
                          ELSE failed' = "free" /\ UNCHANGED freed
  /\ UNCHANGED <<value, waited, storing, counter_mu, waiters, waiting, sem, add, adds>>

AddStep(t) == AddCheck(t) \/ AddWake(t) \/ AddV(t) \/ AddUnlock(t)

---------------------------------------------------------------------------
(* nsync_counter_waitable_funcs: what nsync_wait_n does to a counter.      *)

\* counter_ready_time: first store that someone waits, then load the value.
counter_mark(t, c) ==
  storing' = IF waited[c] THEN storing ELSE [storing EXCEPT ![t] = @ \union {c}]

\* The store becomes visible before it must.
MarkSeen(t, c) ==
  /\ c \in storing[t] /\ StoreSeen(t, c)
  /\ UNCHANGED <<value, counter_mu, waiters, waiting, sem, add, adds, freed, failed>>

counter_is_ready(c) == value[c] = 0

\* counter_enqueue and counter_dequeue run with counter_mu free.
counter_enqueue(t, c) ==
  /\ counter_mu[c] = NoThread
  /\ StoreSeen(t, c)
  /\ waiters' = IF value[c] = 0 THEN waiters
                ELSE [waiters EXCEPT ![c] = Append(@, t)]
  /\ waiting' = [waiting EXCEPT ![t][c] = value[c] # 0]


counter_dequeue(t, c) ==
  /\ counter_mu[c] = NoThread
  /\ waiters' = IF waiting[t][c]
                THEN [waiters EXCEPT ![c] = SelectSeq(@, LAMBDA x : x # t)]
                ELSE waiters
  /\ waiting' = [waiting EXCEPT ![t][c] = FALSE]

\* The result of counter_dequeue.
counter_still_enqueued(c) == value[c] # 0
===========================================================================
