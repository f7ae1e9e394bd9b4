----------------------------- MODULE PthreadKey -----------------------------
(***************************************************************************)
(* Thread-specific data for Windows: platform/win32/src/                   *)
(* pthread_key_win32.cc, on which the per-thread waiters rest there.       *)
(*                                                                         *)
(* A key is a slot number in its low bits and a version above them, so that*)
(* a slot can be used again while threads still hold values of the slot's  *)
(* earlier keys.  A thread that ends goes through its values, with a copy  *)
(* of the destructors, at most four times.  Functions that hold mu are one *)
(* step.  A thread's array is its own.                                     *)
(***************************************************************************)
EXTENDS Integers, FiniteSets

CONSTANTS
  KeyThreads, Values, Destructors,
  Nil,            \* nullptr
  kMaxKeys,       \* 128 in the code
  KeyPrograms,    \* client programs, one of which is chosen at the start
  MaxCreates      \* bound: keys created

ASSUME KeysAssumption == kMaxKeys \in Nat \ {0, 1} /\ Nil \notin Values \union Destructors

Slots == 0..kMaxKeys - 1
Keys == 0..kMaxKeys * (MaxCreates + 1)

VARIABLES
  dest,           \* dest[]: allocated, key and destructor of every slot
  array,          \* array_ of every thread: key and value of every slot
  ending,             \* threads, with the locals of ~PerThreadData of ending ones
  created, sets,
  stored,          \* history: the value a thread last stored under a key
  destOf,         \* history: the destructor a key was created with
  called,         \* history: the latest call of a destructor
  key_program

keyVars == <<dest, array, ending, created, sets, stored, destOf, called, key_program>>

DeletedKeys == key_program.deleted    \* bound: the keys that may be deleted
MaxSets == key_program.max_sets       \* bound: values a running thread sets
MaxResets == key_program.max_resets   \* bound: values set by the destructors of a thread

Running == [at |-> "running", attempt |-> 0, again |-> TRUE, i |-> 0, copy |-> <<>>]

KeyInit ==
  /\ dest = [i \in Slots |-> [allocated |-> FALSE, key |-> 0, dest |-> Nil]]
  /\ array = [t \in KeyThreads |-> [i \in Slots |-> [key |-> 0, value |-> Nil]]]
  /\ ending = [t \in KeyThreads |-> Running]
  /\ created = 0 /\ sets = [t \in KeyThreads |-> 0]
  /\ stored = [t \in KeyThreads |-> [k \in Keys |-> Nil]]
  /\ destOf = [k \in Keys |-> Nil] /\ called = <<>>
  /\ key_program \in KeyPrograms

\* key & kKeyMask
SlotOf(key) == key % kMaxKeys

Live(key) == dest[SlotOf(key)].allocated /\ dest[SlotOf(key)].key = key

\* key += kMaxKeys; key |= i, where the low bits of key are 0 or i.
NextKey(key, i) == (key \div kMaxKeys + 1) * kMaxKeys + i

Usable == Slots \ {0}

\* The first free slot after slot 0.  Without one the function returns EAGAIN.
nsync_pthread_key_create(destructor) ==
  /\ created < MaxCreates /\ created' = created + 1
  /\ \E i \in Usable :
       /\ ~dest[i].allocated /\ \A j \in Usable \ (i..kMaxKeys) : dest[j].allocated
       /\ LET key == NextKey(dest[i].key, i) IN
          /\ dest' = [dest EXCEPT ![i] = [allocated |-> TRUE, key |-> key, dest |-> destructor]]
          /\ destOf' = [destOf EXCEPT ![key] = destructor]
  /\ UNCHANGED <<array, ending, sets, stored, called>>

\* Clients delete keys that they created and did not delete.
nsync_pthread_key_delete(key) ==
  /\ key > 0 /\ key \in DeletedKeys /\ Live(key)
  /\ dest' = [dest EXCEPT ![SlotOf(key)].allocated = FALSE, ![SlotOf(key)].dest = Nil]
  /\ UNCHANGED <<array, ending, created, sets, stored, destOf, called>>

nsync_pthread_getspecific(t, key) ==
  LET e == array[t][SlotOf(key)] IN IF e.key = key THEN e.value ELSE Nil

set_value(t, key, value) ==
  /\ array' = [array EXCEPT ![t][SlotOf(key)] = [key |-> key, value |-> value]]
  /\ stored' = [stored EXCEPT ![t][key] = value]

nsync_pthread_setspecific(t, key, value) ==
  /\ ending[t].at = "running" /\ sets[t] < MaxSets
  /\ key > 0 /\ Live(key)
  /\ set_value(t, key, value)
  /\ sets' = [sets EXCEPT ![t] = @ + 1]
  /\ UNCHANGED <<dest, ending, created, destOf, called>>

----------------------------------------------------------------------------
(* ~PerThreadData                                                          *)

ExitThread(t) ==
  /\ ending[t].at = "running"
  /\ ending' = [ending EXCEPT ![t].at = "attempt"] /\ sets' = [sets EXCEPT ![t] = 0]
  /\ UNCHANGED <<dest, array, created, stored, destOf, called>>

AttemptsLeft(x) == x.attempt # 4 /\ x.again

\* The copy of dest, or the end.
Attempt(t) ==
  LET x == ending[t] IN
  /\ x.at = "attempt"
  /\ ending' = [ending EXCEPT ![t] = IF AttemptsLeft(x)
                             THEN [x EXCEPT !.at = "slot", !.again = FALSE, !.i = 1, !.copy = dest]
                             ELSE [x EXCEPT !.at = "dead", !.copy = <<>>]]
  /\ UNCHANGED <<dest, array, created, sets, stored, destOf, called>>

\* Mutant: a destructor is called for values of earlier keys of its slot.
IsDestroyedStale(d, e) == d.dest # Nil /\ e.value # Nil

IsDestroyed(d, e) == d.key = e.key /\ d.dest # Nil /\ e.value # Nil

\* One slot: its value is cleared and, if it is the value of the slot's key, passed
\* to the destructor, which may set a value, perhaps of another key.
DestroySlot(t) ==
  LET x == ending[t]
      e == array[t][x.i]
      cleared == [array EXCEPT ![t][x.i].value = Nil]
      forgotten == [stored EXCEPT ![t][e.key] = Nil]
  IN
  /\ x.at = "slot" /\ x.i # kMaxKeys
  /\ IF x.copy[x.i].allocated /\ IsDestroyed(x.copy[x.i], e)
     THEN /\ ending' = [ending EXCEPT ![t].i = @ + 1, ![t].again = TRUE]
          /\ called' = [t |-> t, key |-> e.key, value |-> e.value, dest |-> x.copy[x.i].dest]
          /\ \/ array' = cleared /\ stored' = forgotten /\ UNCHANGED sets
             \/ \E key \in Keys, value \in Values :
                  /\ sets[t] < MaxResets /\ key > 0 /\ Live(key)
                  /\ array' = [cleared EXCEPT ![t][SlotOf(key)] = [key |-> key, value |-> value]]
                  /\ stored' = [forgotten EXCEPT ![t][key] = value]
                  /\ sets' = [sets EXCEPT ![t] = @ + 1]
     ELSE /\ ending' = [ending EXCEPT ![t].i = @ + 1]
          /\ array' = IF x.copy[x.i].allocated THEN cleared ELSE array
          /\ stored' = IF x.copy[x.i].allocated /\ destOf[e.key] = Nil THEN forgotten ELSE stored
          /\ UNCHANGED <<sets, called>>
  /\ UNCHANGED <<dest, created, destOf>>

EndOfSlots(t) ==
  /\ ending[t].at = "slot" /\ ending[t].i = kMaxKeys
  /\ ending' = [ending EXCEPT ![t].at = "attempt", ![t].attempt = @ + 1]
  /\ UNCHANGED <<dest, array, created, sets, stored, destOf, called>>

KeyStopped == (\A t \in KeyThreads : ending[t].at = "dead") /\ UNCHANGED keyVars

KeyNext ==
  /\ UNCHANGED key_program
  /\ \/ \E d \in Destructors \union {Nil} : nsync_pthread_key_create(d)
     \/ \E key \in Keys : nsync_pthread_key_delete(key)
     \/ \E t \in KeyThreads, key \in Keys, value \in Values :
          nsync_pthread_setspecific(t, key, value)
     \/ \E t \in KeyThreads : ExitThread(t) \/ Attempt(t) \/ DestroySlot(t) \/ EndOfSlots(t)
     \/ KeyStopped

KeySpec == KeyInit /\ [][KeyNext]_keyVars

----------------------------------------------------------------------------
(* Properties                                                              *)

KeyTypeOK ==
  /\ \A i \in Slots :
       /\ dest[i].allocated \in BOOLEAN /\ dest[i].dest \in Destructors \union {Nil}
       /\ dest[i].key \in Keys /\ (dest[i].key # 0 => SlotOf(dest[i].key) = i /\ i # 0)
  /\ \A t \in KeyThreads, i \in Slots :
       array[t][i].key \in Keys /\ array[t][i].value \in Values \union {Nil}
  /\ \A t \in KeyThreads : ending[t].attempt \in 0..4 /\ ending[t].i \in 0..kMaxKeys

\* nsync_pthread_getspecific returns what the thread stored under the key, and
\* nothing for a new key, however often slots were deleted and used again.
GetReturnsWhatWasSet ==
  \A t \in KeyThreads, key \in Keys :
    ending[t].at = "running" /\ key > 0 /\ Live(key) =>
      nsync_pthread_getspecific(t, key) = stored[t][key]

\* A destructor is called with the value its thread stored under the key that
\* was created with this destructor, even when slots change hands between the
\* copy of dest and the call.
DestructorMatchesValue ==
  called' # called =>
    /\ destOf[called'.key] = called'.dest
    /\ stored[called'.t][called'.key] = called'.value

\* When a thread has ended, the values it stored, and those its destructors set,
\* under keys that still exist and have a destructor have been destroyed:
\* "Iterate over the values, calling destructors when both destructor and value
\* are non-nil."
EndedThreadLeavesNoValue ==
  \A t \in KeyThreads, key \in Keys :
    ending[t].at = "dead" /\ Live(key) /\ dest[SlotOf(key)].dest # Nil => stored[t][key] = Nil

\* A value stays with its thread and key while slots are deleted and used again:
\* it is what a get returns, goes to the destructor of its key, and is destroyed
\* before the thread has ended.
KeysKeepValues ==
  /\ KeyTypeOK
  /\ [][/\ (KeyTypeOK /\ GetReturnsWhatWasSet /\ EndedThreadLeavesNoValue)'
        /\ DestructorMatchesValue]_keyVars
=============================================================================
